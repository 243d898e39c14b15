----------------------------- MODULE ActorServices -----------------------------
(* The services kept in global tables beside the actors: agents, applica-    *)
(* tions, stages and flows.  Each is protected by its own lock, but the      *)
(* user's functions run between two locked steps: what was read before such  *)
(* a call may be stale after it.  A behaviour follows one service.           *)
EXTENDS Integers, Sequences, FiniteSets, SequencesExt

CONSTANTS
  Callers,                      \* threads, or nested calls of one thread
  MaxAgents, MaxAgentIds, MaxUpdates,
  AppNames, MaxApps, MaxSupervisors, EnvKeys, EnvValues, MaxAppEnv,
  MaxStages, MaxStageIds, MaxSubscribers, MaxStageOps,
  Pipelines,                    \* the stages made first: sequences of <<mode, handler>>
  StageKinds,                   \* the <<mode, handler>> made later
  FlowSources, MaxFlows, MaxFlowSteps, MaxFlowOps,
  Nil

VARIABLES obj, spec

-----------------------------------------------------------------------------
(* Agents.  An agent's state is the set of updates it contains; obj.call is   *)
(* what a caller is in the middle of: the state it read, and the updates     *)
(* made by others since.                                                     *)

FreeAgent == [id |-> -1, state |-> {}, active |-> FALSE]

AgentsInit ==
  /\ obj = [svc |-> "agents", slots |-> [i \in 1..MaxAgents |-> FreeAgent], next |-> 0,
            call |-> [c \in Callers |-> Nil], updates |-> 0]
  /\ spec = [i \in {} |-> Nil]       \* for every agent: its updates, and whether two calls overlapped

FirstFree(slots) == SelectInSeq(slots, LAMBDA s : ~s.active)
agent_lookup(id) == SelectInSeq(obj.slots, LAMBDA s : s.active /\ s.id = id)

agent_start ==
  /\ obj.next < MaxAgentIds
  /\ FirstFree(obj.slots) # 0
  /\ obj' = [obj EXCEPT !.slots[FirstFree(obj.slots)] = [id |-> obj.next, state |-> {}, active |-> TRUE],
                        !.next = @ + 1]
  /\ spec' = (obj.next :> [updates |-> {}, overlap |-> FALSE]) @@ spec

\* agent_get_state: the first half of get, update, get-and-update and stop.
agent_get_state(c, id, op) ==
  LET a == agent_lookup(id)
  IN  /\ obj.call[c] = Nil
      /\ a # 0
      /\ op = "update" => obj.updates < MaxUpdates
      /\ obj' = [obj EXCEPT !.call[c] = [op |-> op, id |-> id, slot |-> a, seen |-> obj.slots[a].state, over |-> {},
                                         token |-> obj.updates + 1],
                            !.updates = IF op = "update" THEN @ + 1 ELSE @]
      /\ UNCHANGED spec

\* The callers that read the state of id now have a stale copy.
Outdate(call, id, token) ==
  [c \in Callers |-> IF call[c] # Nil /\ call[c].id = id THEN [call[c] EXCEPT !.over = @ \cup {token}] ELSE call[c]]

\* The second half of an update; an agent stopped meanwhile ignores it.
agent_set_state(c) ==
  /\ obj.call[c] # Nil /\ obj.call[c].op = "update"
  /\ LET k == obj.call[c]
         a == agent_lookup(k.id)
         idle == [obj.call EXCEPT ![c] = Nil]
     IN  IF a = 0
         THEN obj' = [obj EXCEPT !.call = idle] /\ UNCHANGED spec
         ELSE /\ obj' = [obj EXCEPT !.slots[a].state = k.seen \cup {k.token}, !.call = Outdate(idle, k.id, k.token)]
              /\ spec' = [spec EXCEPT ![k.id].updates = @ \cup {k.token}, ![k.id].overlap = @ \/ k.over # {}]

prim_agent_stop(c) ==
  /\ obj.call[c] # Nil /\ obj.call[c].op = "stop"
  /\ LET a == agent_lookup(obj.call[c].id)
     IN  obj' = [obj EXCEPT !.call[c] = Nil,
                            !.slots = IF a = 0 THEN @ ELSE [@ EXCEPT ![a] = FreeAgent]]
  /\ UNCHANGED spec

AgentsNext ==
  \/ agent_start
  \/ \E c \in Callers : agent_set_state(c) \/ prim_agent_stop(c)
  \/ \E c \in Callers, id \in 0..MaxAgentIds - 1, op \in {"update", "stop"} : agent_get_state(c, id, op)

\* An agent holds exactly the updates made to it, unless two of them overlapped:
\* then some may be missing, but none of another agent, also not of the one that
\* had its slot before, ever appears.
AgentsSound ==
  \A i \in DOMAIN obj.slots :
    LET s == obj.slots[i]
    IN  s.active => /\ s.state \subseteq spec[s.id].updates
                    /\ ~spec[s.id].overlap => s.state = spec[s.id].updates

-----------------------------------------------------------------------------
(* Applications.  The start function, which makes a supervisor, runs before   *)
(* the name is tested; slots are not used again, and nothing stops the super- *)
(* visor of a refused or stopped application.                                *)

AppsInit ==
  /\ obj = [svc |-> "apps", slots |-> << >>, starting |-> [c \in Callers |-> Nil], sups |-> 0]
  /\ spec = [orphans |-> 0, env |-> [n \in {} |-> << >>]]

app_lookup(n) == SelectInSeq(obj.slots, LAMBDA a : a.running /\ a.name = n)

prim_app_start(c, n) ==
  /\ obj.starting[c] = Nil
  /\ obj.sups < MaxSupervisors
  /\ obj' = [obj EXCEPT !.starting[c] = <<n, obj.sups + 1>>, !.sups = @ + 1]
  /\ UNCHANGED spec

app_start(c) ==
  /\ obj.starting[c] # Nil
  /\ LET n == obj.starting[c][1]
         refused == app_lookup(n) # 0 \/ Len(obj.slots) >= MaxApps
         app == [name |-> n, sup |-> obj.starting[c][2], running |-> TRUE, env |-> << >>]
     IN  /\ obj' = [obj EXCEPT !.starting[c] = Nil, !.slots = IF refused THEN @ ELSE Append(@, app)]
         /\ spec' = IF refused THEN [spec EXCEPT !.orphans = @ + 1] ELSE [spec EXCEPT !.env = (n :> << >>) @@ @]

app_stop(n) ==
  LET a == app_lookup(n)
  IN  /\ a # 0
      /\ obj' = [obj EXCEPT !.slots[a].running = FALSE, !.slots[a].env = << >>]
      /\ spec' = [spec EXCEPT !.env = [x \in DOMAIN @ \ {n} |-> @[x]], !.orphans = @ + 1]

EnvRow(a, k) == SelectInSeq(obj.slots[a].env, LAMBDA r : r[1] = k)

app_get_env(n, k) ==
  LET a == app_lookup(n)
  IN  IF a = 0 \/ EnvRow(a, k) = 0 THEN Nil ELSE obj.slots[a].env[EnvRow(a, k)][2]

app_set_env(n, k, v) ==
  LET a == app_lookup(n)
      r == EnvRow(a, k)
  IN  /\ a # 0
      /\ r # 0 \/ Len(obj.slots[a].env) < MaxAppEnv
      /\ obj' = [obj EXCEPT !.slots[a].env = IF r # 0 THEN [@ EXCEPT ![r] = <<k, v>>] ELSE Append(@, <<k, v>>)]
      /\ spec' = [spec EXCEPT !.env[n] = (k :> v) @@ @]

app_which == {obj.slots[i].name : i \in {j \in DOMAIN obj.slots : obj.slots[j].running}}

AppsNext ==
  \/ \E c \in Callers : app_start(c) \/ \E n \in AppNames : prim_app_start(c, n)
  \/ \E n \in AppNames : app_stop(n) \/ \E k \in EnvKeys, v \in EnvValues : app_set_env(n, k, v)

\* One application runs under a name, its environment is the function that was
\* set since it started, and every supervisor is one of a running application,
\* of a start not yet finished, or has been left behind.
AppsSound ==
  /\ app_which = DOMAIN spec.env
  /\ \A i, j \in DOMAIN obj.slots :
       i # j /\ obj.slots[i].running /\ obj.slots[j].running => obj.slots[i].name # obj.slots[j].name
  /\ \A n \in AppNames, k \in EnvKeys :
       app_get_env(n, k) = IF n \in DOMAIN spec.env /\ k \in DOMAIN spec.env[n] THEN spec.env[n][k] ELSE Nil
  /\ obj.sups = spec.orphans + Cardinality(app_which) + Cardinality({c \in Callers : obj.starting[c] # Nil})

-----------------------------------------------------------------------------
(* Stages.  A stage's handler is called with the events and the stage's state *)
(* and the result is written to the slot the stage had before the call.      *)
(* Handlers: "ok"; "bad", whose result is no pair; "replace", which stops its *)
(* own stage and makes a new one.  Events are numbers, a producer-consumer    *)
(* passes on the number plus one, and the state is the sequence received.    *)

FreeStage == [id |-> -1, mode |-> "none", handler |-> "none", got |-> << >>, subs |-> << >>, active |-> FALSE]

StagesInit ==
  \E pipe \in Pipelines :
    /\ obj = [svc |-> "stages", next |-> Len(pipe), ops |-> 0,
              slots |-> [i \in 1..MaxStages |->
                           IF i > Len(pipe) THEN FreeStage
                           ELSE [FreeStage EXCEPT !.id = i - 1, !.mode = pipe[i][1], !.handler = pipe[i][2],
                                                  !.active = TRUE]]]
    /\ spec = [got |-> [i \in 0..Len(pipe) - 1 |-> << >>], wild |-> {}]

Op == obj.ops < MaxStageOps

StageAt(st, id) == SelectInSeq(st, LAMBDA s : s.active /\ s.id = id)

NewStage(st, id, mode, handler) ==
  [st EXCEPT ![FirstFree(st)] = [id |-> id, mode |-> mode, handler |-> handler, got |-> << >>, subs |-> << >>,
                                 active |-> TRUE]]

stage_create(mode, handler) ==
  /\ Op
  /\ obj.next < MaxStageIds
  /\ FirstFree(obj.slots) # 0
  /\ obj' = [obj EXCEPT !.slots = NewStage(@, obj.next, mode, handler), !.next = @ + 1, !.ops = @ + 1]
  /\ spec' = [spec EXCEPT !.got = (obj.next :> << >>) @@ @]

stage_subscribe(consumer, producer) ==
  LET p == StageAt(obj.slots, producer)
  IN  /\ Op
      /\ p # 0 /\ StageAt(obj.slots, consumer) # 0
      /\ Len(obj.slots[p].subs) < MaxSubscribers
      /\ obj' = [obj EXCEPT !.slots[p].subs = Append(@, consumer), !.ops = @ + 1]
      /\ UNCHANGED spec

stage_stop(id) ==
  LET p == StageAt(obj.slots, id)
  IN  /\ Op
      /\ p # 0
      /\ obj' = [obj EXCEPT !.slots[p].active = FALSE, !.ops = @ + 1]
      /\ UNCHANGED spec

\* Calling the handler in slot p: the new table, and whether there is output.
\* The number of a stage made by a handler is the next one.
stage_call_fn2(t, p, e) ==
  LET s == t.st[p]
      stopped == [t.st EXCEPT ![p].active = FALSE]
      called == IF s.handler = "replace" /\ t.next < MaxStageIds
                THEN [st |-> NewStage(stopped, t.next, s.mode, "ok"), next |-> t.next + 1]
                ELSE t
      output == s.mode = "producer-consumer" /\ s.handler # "bad"
  IN  [t |-> IF s.mode = "producer-consumer" /\ s.handler = "bad" THEN called
             ELSE [called EXCEPT !.st[p].got = Append(s.got, e)],
       output |-> output]

\* Subscribers i, i + 1, ... of the stage in slot p get e, depth first; the
\* list is read again from the slot before each.  n counts the ones called.
RECURSIVE stage_dispatch_to_subscribers(_, _, _, _, _)
stage_dispatch_to_subscribers(t, p, e, i, n) ==
  IF i > Len(t.st[p].subs) THEN [t |-> t, n |-> n]
  ELSE LET q == StageAt(t.st, t.st[p].subs[i])
       IN  IF q = 0 \/ (q # 0 /\ t.st[q].mode = "producer")
           THEN stage_dispatch_to_subscribers(t, p, e, i + 1, n)
           ELSE LET r == stage_call_fn2(t, q, e)
                    after == IF r.output THEN stage_dispatch_to_subscribers(r.t, q, e + 1, 1, 0).t ELSE r.t
                IN  stage_dispatch_to_subscribers(after, p, e, i + 1, n + 1)

Dispatched(p, e) ==
  LET t == [st |-> obj.slots, next |-> obj.next]
      r == stage_call_fn2(t, p, e)
  IN  IF obj.slots[p].mode = "producer" THEN stage_dispatch_to_subscribers(t, p, e, 1, 0).t
      ELSE IF r.output THEN stage_dispatch_to_subscribers(r.t, p, e + 1, 1, 0).t ELSE r.t

(* What a dispatch means: every chain of subscriptions from the stage through *)
(* producer-consumers with output delivers once to the stage at its end.     *)
Chains(p) ==
  LET steps == {<<i, k>> \in (1..MaxStages) \X (1..MaxSubscribers) : k <= Len(obj.slots[i].subs)}
      to(s) == StageAt(obj.slots, obj.slots[s[1]].subs[s[2]])
      live == {s \in steps : to(s) # 0 /\ obj.slots[to(s)].mode # "producer"}
      passes(i) == obj.slots[i].mode = "producer-consumer" /\ obj.slots[i].handler # "bad"
      from == {s \in live : s[1] = p}
      more(C) == {Append(c, s) : c \in C, s \in live}
      good(C) == {c \in C : c[Len(c)][1] = to(c[Len(c) - 1]) /\ passes(c[Len(c)][1])}
      two == good(more({<<s>> : s \in from}))
      three == good(more(two))
  IN  [chains |-> IF passes(p) \/ obj.slots[p].mode = "producer" THEN {<<s>> : s \in from} \cup two \cup three ELSE {},
       endless |-> \E c \in three : TRUE,
       end |-> [c \in {<<s>> : s \in from} \cup two \cup three |-> to(c[Len(c)])]]

prim_stage_dispatch(id) ==
  LET p == StageAt(obj.slots, id)
      e == 10 * (obj.ops + 1)
      ch == Chains(p)
      hops == IF obj.slots[p].mode = "producer" THEN 0 ELSE 1
      sent(i) == {c \in ch.chains : ch.end[c] = i}
      reached == {i \in 1..MaxStages : sent(i) # {}} \cup {p}
      replaces == {i \in reached : obj.slots[i].handler = "replace"}
      new(i) == {<<c, e + hops + Len(c) - 1>> : c \in sent(i)}
                \cup (IF i = p /\ hops = 1 /\ ~(obj.slots[p].mode = "producer-consumer" /\ obj.slots[p].handler = "bad")
                      THEN {<<Nil, e>>} ELSE {})
      taken(i) == {x \in new(i) : ~(obj.slots[i].mode = "producer-consumer" /\ obj.slots[i].handler = "bad")}
  IN  /\ Op
      /\ p # 0
      /\ ~ch.endless                        \* a cycle of stages never comes back
      /\ LET t == Dispatched(p, e)
         IN  obj' = [obj EXCEPT !.slots = t.st, !.next = t.next, !.ops = @ + 1]
      /\ spec' = [got |-> [i \in DOMAIN spec.got \cup (obj.next..obj'.next - 1) |->
                             LET q == StageAt(obj.slots, i)
                             IN  IF i >= obj.next THEN << >>
                                 ELSE IF q = 0 THEN spec.got[i]
                                 ELSE spec.got[i] \o SetToSeq(taken(q))],
                  wild |-> IF replaces = {} THEN spec.wild
                           ELSE spec.wild \cup {obj.slots[i].id : i \in reached} \cup (obj.next..obj'.next - 1)]

\* The handler is called with the demand; consumers cannot be asked.
prim_stage_ask(id) ==
  LET p == StageAt(obj.slots, id)
      e == 10 * (obj.ops + 1)
      r == stage_call_fn2([st |-> obj.slots, next |-> obj.next], p, e)
  IN  /\ Op
      /\ p # 0
      /\ obj.slots[p].mode # "consumer"
      /\ obj' = [obj EXCEPT !.slots = r.t.st, !.next = r.t.next, !.ops = @ + 1]
      /\ spec' = IF obj.slots[p].handler = "bad" THEN spec
                 ELSE [spec EXCEPT !.got[id] = Append(@, <<Nil, e>>)]

StagesNext ==
  \/ \E k \in StageKinds : stage_create(k[1], k[2])
  \/ \E i \in 0..MaxStageIds - 1 :
       stage_stop(i) \/ prim_stage_dispatch(i) \/ prim_stage_ask(i) \/ \E j \in 0..MaxStageIds - 1 : stage_subscribe(i, j)

\* A dispatch delivers to every stage, live at the time, once for every chain of
\* subscriptions that leads to it, with the number of hops of that chain, and
\* to no other: stages stopped before are skipped, also when their slot has a
\* new stage.  Exempt are the stages a dispatch reached in which a handler
\* replaced its own stage: the slot's new stage gets the old one's state.
StagesSound ==
  \A i \in 1..MaxStages :
    LET s == obj.slots[i]
        want == spec.got[s.id]
        count(q, v) == Cardinality({k \in DOMAIN q : q[k] = v})
        wanted(v) == Cardinality({k \in DOMAIN want : want[k][2] = v})
    IN  s.active /\ s.id \notin spec.wild =>
          /\ Len(s.got) = Len(want)
          /\ \A k \in DOMAIN s.got : count(s.got, s.got[k]) = wanted(s.got[k])

-----------------------------------------------------------------------------
(* Flows: a source list and a growing list of steps, applied when the flow is *)
(* run.  Adding a step changes the flow itself.  The numbers stand for any   *)
(* elements: map adds one, filter keeps the even ones, reduce sums up, and   *)
(* "grow" is an each whose function adds a map step to the flow being run.   *)

FlowKinds == {"map", "filter", "reduce", "each", "grow"}
FlowsInit ==
  /\ obj = [svc |-> "flows", flows |-> << >>, names |-> << >>, ran |-> Nil, ops |-> 0]
  /\ spec = [names |-> << >>]

\* Data is a list, or, after a reduce, a value that has no elements.
ListOf(q) == [items |-> q, value |-> Nil]
ValueOf(n) == [items |-> << >>, value |-> n]
Backwards(q, Keep(_), F(_)) == FoldLeft(LAMBDA acc, x : IF Keep(x) THEN <<F(x)>> \o acc ELSE acc, << >>, q)
All(x) == TRUE
Same(x) == x
Even(x) == x % 2 = 0
Plus1(x) == x + 1

flow_step(kind, data) ==
  CASE kind = "map" -> ListOf(Backwards(Backwards(data.items, All, Plus1), All, Same))
    [] kind = "filter" -> ListOf(Backwards(Backwards(data.items, Even, Same), All, Same))
    [] kind = "reduce" -> ValueOf(FoldLeft(LAMBDA acc, x : acc + x, 0, data.items))
    [] kind \in {"each", "grow"} -> ListOf(<< >>)

Grown(steps, kind, data) ==
  LET n == IF kind = "grow" THEN Len(data.items) ELSE 0
      room == MaxFlowSteps - Len(steps)
  IN  steps \o [i \in 1..(IF n < room THEN n ELSE room) |-> "map"]

\* The number of steps is read again before each one.
RECURSIVE flow_run(_, _, _)
flow_run(steps, i, data) ==
  IF i > Len(steps) THEN [steps |-> steps, data |-> data]
  ELSE flow_run(Grown(steps, steps[i], data), i + 1, flow_step(steps[i], data))

flow_create(source) ==
  /\ Len(obj.flows) < MaxFlows
  /\ obj' = [obj EXCEPT !.flows = Append(@, [source |-> source, steps |-> << >>]), !.ran = Nil, !.ops = @ + 1]
  /\ UNCHANGED spec

flow_add_step(f, kind) ==
  /\ Len(obj.flows[f].steps) < MaxFlowSteps
  /\ obj' = [obj EXCEPT !.flows[f].steps = Append(@, kind), !.ran = Nil, !.ops = @ + 1]
  /\ UNCHANGED spec

prim_flow_run(f) ==
  LET r == flow_run(obj.flows[f].steps, 1, ListOf(obj.flows[f].source))
  IN  /\ obj' = [obj EXCEPT !.flows[f].steps = r.steps,
                            !.ran = [flow |-> f, steps |-> r.steps, data |-> r.data],
                            !.ops = @ + 1]
      /\ UNCHANGED spec

flow_registry_register(n, f) ==
  /\ \A i \in DOMAIN obj.names : obj.names[i][1] # n /\ obj.names[i][2] # f
  /\ obj' = [obj EXCEPT !.names = Append(@, <<n, f>>), !.ran = Nil, !.ops = @ + 1]
  /\ spec' = [spec EXCEPT !.names = Append(@, <<n, f>>)]

flow_registry_unregister_name(n) ==
  LET i == SelectInSeq(obj.names, LAMBDA e : e[1] = n)
  IN  /\ i # 0
      /\ obj' = [obj EXCEPT !.names = Front([obj.names EXCEPT ![i] = Last(obj.names)]), !.ran = Nil, !.ops = @ + 1]
      /\ spec' = [spec EXCEPT !.names = SelectSeq(@, LAMBDA e : e[1] # n)]

FlowsNext ==
  \/ \E q \in FlowSources : flow_create(q)
  \/ \E f \in DOMAIN obj.flows :
       prim_flow_run(f) \/ (\E k \in FlowKinds : flow_add_step(f, k)) \/ \E n \in AppNames : flow_registry_register(n, f)
  \/ \E n \in AppNames : flow_registry_unregister_name(n)

\* What a flow means: its steps as functions on lists, one after the other.
Meaning(steps, source) ==
  FoldLeft(LAMBDA d, k : CASE k = "map" -> ListOf([i \in DOMAIN d.items |-> d.items[i] + 1])
                           [] k = "filter" -> ListOf(SelectSeq(d.items, Even))
                           [] k = "reduce" -> ValueOf(FoldRight(LAMBDA x, acc : x + acc, d.items, 0))
                           [] OTHER -> ListOf(<< >>),
           ListOf(source), steps)

\* A run gives what the steps of the flow at its end mean, also the ones its own
\* functions added, for the flow it was asked for; a name denotes one flow.
FlowsSound ==
  /\ obj.ran # Nil => obj.ran.data = Meaning(obj.ran.steps, obj.flows[obj.ran.flow].source)
  /\ ToSet(obj.names) = ToSet(spec.names) /\ Len(obj.names) = Len(spec.names)

-----------------------------------------------------------------------------

Init == AgentsInit \/ AppsInit \/ StagesInit \/ FlowsInit

Next ==
  \/ obj.svc = "agents" /\ AgentsNext
  \/ obj.svc = "apps" /\ AppsNext
  \/ obj.svc = "stages" /\ StagesNext
  \/ obj.svc = "flows" /\ obj.ops < MaxFlowOps /\ FlowsNext

ServicesSound ==
  CASE obj.svc = "agents" -> AgentsSound
    [] obj.svc = "apps" -> AppsSound
    [] obj.svc = "stages" -> StagesSound
    [] obj.svc = "flows" -> FlowsSound
=============================================================================
