# Guage, specified: the runtime and its data in TLA+

Guage is an interpreter written in C (`src/bootstrap`, about 47,000 lines): a
Lisp-like evaluator over reference-counted cells, with Erlang-style actors that
run as fibers on one or several scheduler threads.  This directory holds TLA+
models of it, the TLC configurations that check them, and TLAPS proofs.  The
models come in two groups: the concurrent runtime, whose failures depend on
interleavings that tests do not reach, and the data and definition machinery
(containers, iterators, modules, types), whose failures depend on long sequences
of legal calls.  They stand for about 14,800 lines of the source.

## 1. Inventory

| Part | State | Operations | Hard because |
|---|---|---|---|
| Channel ring / mailbox (`channel.c`, `actor.c`) | slots with sequence and value, `enqueue_pos`, `dequeue_pos`, `count` | try_send, try_recv, actor_send, actor_receive, destroy | lock-free; claim and publication are apart |
| Blocking channel operations (`primitives.c`, `channel.c`) | `closed`, one `recv_waiter` and `send_waiter` per channel, suspend reason | send, recv, select, close | the condition an actor was woken for may be gone |
| Actor receive / wake-up (`primitives.c`, `actor.c`, `fiber.c`) | fiber state, suspend reason, `wait_flag` | receive, call, send, yield, resume | a blocked actor is in no queue: exactly one party must put it back |
| Parking (`eventcount.h`, `park.c`) | one word: epoch and waiter count | prepare, cancel, commit, notify, tiered park | lost wake-ups |
| Run queues and loops (`scheduler.c`) | runnext slots, block-based deques, overflow queue, alive / running counters | enqueue, push, pop, steal, quantum, end of run, shutdown | actors lost or doubled between queues; end of run judged from two counters |
| Reclamation (`scheduler.h`, `scheduler.c`) | global epoch, epoch and online flag per thread, retire rings | online, offline, quiescent, retire, reclaim | threads read one after the other |
| Links, monitors, exits (`actor.c`) | `alive`, link and monitor arrays, `trap_exit`, `g_alive_actors` | link, unlink, monitor, exit, finish, notify | concurrent and cyclic deaths |
| Supervisors (`actor.c`, `primitives.c`) | child ids, restart types, restart count | start, add, remove, handle exit, dynamic variants | indices shift under the handler |
| Task await (`primitives.c`, `actor.c`) | suspend reason and id, `wait_flag` | await, finish's scan | a message uses up the flag |
| Registry, timers, ETS, dictionaries (`actor.c`) | bounded tables | add, look up, remove, clean up by owner | deaths under another lock |
| Agents, stages, flows, applications (`primitives.c`, `actor.c`) | bounded tables | start, update, dispatch, run, stop | user functions run between two locked steps |
| Cells and reference counts (`cell.c`) | biased, shared, weak counts | retain, release, transfer, weak references | owner and others count in different words |
| Containers and iterators (`cell.c`) | hash tables, ring buffers, B-tree, radix trie, batches | put, get, delete, push, pop, range, next | growth, wrap-around, splits, stale batches |
| Strings, graphs, structures, patterns (`primitives.c`, `pattern.c`, `eval.c`) | byte arrays, node and edge lists, type registry, clauses | search, split, traverse, define, update, match | chunk borders, shared registry heads |
| Modules (`module.c`, `primitives.c`, `eval.c`) | registry, current module, `ctx->env`, global table | load, export, import, define, look up | nested and failing loads, three places to look a name up |
| Types, refinements, traits (`primitives.c`) | declarations, predicate cache, two dispatch tables | declare, check, infer, define, implement, dispatch | redefinition, order of definition |
| Evaluator, reader, macros, interning | terms, environments | eval, read, expand | not modelled, see section 6 |
| JIT, FFI, completion ring, signals | machine code, kernel queues | emit, submit | not modelled, see section 6 |

`PROJECT.json` lists the hazards at the lines where they bite, the properties that
cover each, and for every definition the lines it stands for.

## 2. The runtime modules

State is in VARIABLES, one action per atomic step of the code.  A definition called
"Mutant of X", or X with a suffix like `_nolock`, is a wrong version of X that is
not part of the specification; it confirms that the properties notice the mistake.

**VyukovRing, BoundedFifo, VyukovRingProofs.**  `channel_try_send` /
`channel_try_recv`, which `actor_send` / `actor_receive` repeat for mailboxes.  A
step is one atomic access: load the position (`SendCall`), look at the slot's
sequence (`SendSeesFree`, `SendRefused`, `SendOvertaken`), CAS (`SendClaim`,
`SendClaimFail`), write, publish, count; and the same on the receiving side.
`CountGated` chooses `actor_receive`, which first tests `count`.  Counters are 64
bits wide and start at 0, so they are natural numbers here.  `BoundedFifo` is a
queue with its commits in claim order; the ring implements it (`ImplementsFifo`)
with the claimed positions as the queue.

**EventCount, EventCountProofs.**  The word as its two halves, `guage_park_tiered`
on three platforms (`platform`), the worker loop from the empty queues to the
system call, and producers: `sched_enqueue`, the nudge of the last running actor,
the death of the last living one (`AliveChanges`), shutdown.  A worker that sees
`should_stop`, or no actor alive, leaves its loop.  The futex compares the word it is
given: the low half.

**ActorWake, WorkersProofs.**  One actor, several schedulers and senders: `prim_receive` or
`prim_call` (`primitive`) through flag, re-check, yield and context switch,
`actor_send` through delivery, exchange and enqueue, `sched_run_one_quantum`
through test, resume and return value.  With "buffered" stores a plain store to
`wait_flag` may become visible late (what x86 and ARM allow a release store
followed by a load).  A behaviour ends when two threads are on one stack.  Two ghosts
say who owes the actor an entry: `handed` are the schedulers that have left it to the
next wake-up, `doubled` is set where the code gives it a second entry.

**Dispatch.**  The level above: which queue or thread has each actor.  Slot, deque
and overflow queue are sequences.  `Take` and `Count` (the addition to
`g_running_actors`) are two steps, as are the two halves of the test for the end of a
run (`SeeRunning`, `SeeAllIdle`).  `actor_send` is delivery (`Send`), exchange of
`wait_flag` (`ExchangeFlag`) and `sched_enqueue` (`EnqueueActor`), for the actors and for
the timers of scheduler 0; `prim_receive` is the look (`Receive`), the flag
(`RaiseFlag`), the second look (`Recheck`) and `Yield`; the test of the suspended fiber
and its resumption are one step (`BeginQuantum`), which `ActorWake` cuts further.
`StartRun`, one
`Distribute` per living actor and `StartWorkers` are the beginning of `sched_run_all`,
`EndRun` its end, so a second run starts from what the first one left.

**BWoSDeque, DequeProofs.**  `ws_push`, `ws_pop`, `ws_steal` access by access, in program
order.  `fell`, `early` and `overlap` are history variables: whether a steal from the
owner's own block has happened, whether a block was reset while a thief read it,
and whether two calls ever overlapped.  The owner asks for a next block with an
unsigned difference of block numbers: fallen back behind `thief_block`, it has none and
hands its actors to the overflow queue, whatever the number of blocks.

**QSBR, WorkersProofs.**  `qsbr_*` with every load and store a step; `qsbr_safe` looks at one
thread per step.  A kill (`Killed`) retires nobody; a fiber that has finished is
retired by whoever comes back from it, also when the actor was dead already, and twice
when two schedulers, from two queue entries, found it alive.  `old` remembers, for each
retirement, who had held the actor since before; `reclaimed` is what `qsbr_safe` let go,
as opposed to what a full ring gives up at once.

**ExitSignals, SupervisionProofs.**  Threads with explicit call stacks run
`actor_finish`, `actor_exit_signal`, `actor_notify_exit` and the primitives.  A
step is one critical section or one unlocked test.  `watched`, `trapped` and
`loose` (pairs linked although one had died, or with room in one of the two arrays
only) are history variables.

**Supervisor, SupervisionProofs.**  One supervisor of some `kind`, its arrays as the code keeps them,
`supervisor_handle_exit` loop iteration by loop iteration, and the primitives that
edit the table.

**ChannelWait, ChannelWaitProofs.**  `prim_chan_send`, `_recv`, `_select`, `_close` with the waiter
slots.  In mode "poll" one thread runs one actor at a time (`actor_run_all`); in
mode "wake" steps of different actors interleave.  The buffer is the ring at its
specification: a count.

**TaskAwait, SupervisionProofs.**  One task, its awaiters, the scan of `actor_finish` actor by actor,
messages that use the same flag, and death by exit signal.

**ActorTables, ActorServices.**  A behaviour follows one table or service
(`obj.table`, `obj.svc`).  The clean-up after a death is a sequence of steps of its
own lock each; calls of user functions separate the read of a state from the store
of the new one.  `actor_registry_register` takes `g_registry_lock` and then calls
`actor_lookup`, which takes the same lock for reading and gives it back
(`actor.c:953`, `720-731`).  What that does is undefined; the model has both outcomes,
a thread that hangs for ever (`lock` is "gone" and the behaviour ends) and a lock that
is free from there on, so that scan and append run beside those of other threads.

**CellRefs, CellRefsProofs, WorkersProofs.**  One cell, an owner thread and others, in plain (`biased`) and
atomic (`shared`) counts, with the loads of `cell_release` and
`cell_transfer_to_shared` as steps.  `spec` names the ways the code lets the
counts disagree.

From Dispatch on, the modules have the same two variables: `obj` is the program's
state, a record with the names of the code, and `spec` what the same calls mean (a
function, a set, a sequence) together with the ghosts that name excepted cases.

## 3. The data and definition modules

| Module | Stands for | Compared with |
|---|---|---|
| `HashMap`, `HashSet` | control groups, triangular probing, tombstones / overflow bytes, growth, merge | a function, a set |
| `LinearCells`, `LinearCellsProofs` | deque (free-running 32-bit indices, here modulo `IndexMod`), vector with inline slots, byte buffer | a sequence |
| `Heap4` | 4-ary heap with sift-up and sift-down | a bag |
| `SortedMap` | B-tree with leaf chain, pool and free list, in the order of `cell_sort_key` with ties and ranges by that of `cell_compare` | a function on keys as `cell_compare` tells them apart; what is lost is kept in a ghost |
| `RadixTrie` | four node sizes, path compression, terminators | a function on byte strings |
| `Iterators` | batches, map, filter, take, drop, chain, zip over shared upstreams and changing vectors | the list a pipeline stands for |
| `Strings` | the string primitives and chunked searches | definitions by quantifiers |
| `GraphCells` | construction, traversal, paths, cycles | reachability on the edge set |
| `Structures` | type registry per context, leaf / node / graph types, updates | a function from tags to schemas |
| `PatternMatch` | matching, bindings, exhaustiveness | membership and reconstruction |
| `Modules` | loading, exports, imports, definitions, look-up, dependency search | the list of all definitions ever made |
| `Refinements` | compiled predicates, constraint trees, cache, list | the meaning of the predicate |
| `Traits` | flat table by number, tables by name, defaults | the last implementation, else the default |
| `Types` | type values, subtyping, inference, declarations | the set of values of a type |

**DataCells** and **Runtime** put these side by side: a behaviour picks one `kind`
and applies its operations.  The parts do not interact in the code, so nothing is
lost; it is one run with one set of bounds instead of many.  **MCWorkers** does the
same for the scheduler threads, the counts of the cells they share and the linear
containers (about which more can be proved than about the rest of the data), and
**MCSupervision** for deaths, supervisors and awaited tasks.
Constants like node sizes, group widths and batch lengths are parameters: the code
has 16, 48 or 256 where the runs have 2 to 6, so that growth, splits and wraps
happen within a few calls.

## 4. Runs

| Run | Bounds | Shows | Time |
|---|---|---|---|
| `ring` | 2 senders, 2 receivers, 2 slots, 4 positions (two laps) | exclusive slots, FIFO in claim order, justified refusals, exact counts at rest, nothing leaked, refinement of BoundedFifo | < 1 min |
| `park` | 2 workers, 2 producers, 2 posts; macOS and fallback | exact waiter count, posted work is run, shutdown completes | < 1 min |
| `workers` | wake-up: 2 schedulers, 2 senders, 3 messages; QSBR: 2 schedulers, 2 actors, 2 entries each, rings of 2 (the second retirement fills one); deque: owner and thief, 2 blocks of 2, 5 pushes; loops: scheduler 0 and a worker, 2 actors, 2 messages, a timer, 2 runs; cell: 3 threads, 3 references at a time, 6 operations, a count of 5 bits; containers: at most 5 elements of 3 kinds, smallest capacity 2, indices modulo 16 | the two-phase wait, one holder of an actor, grace periods, nothing taken twice or lost, actors in a queue or hand and in one only, cells dropped and freed once, deque, vector and buffer equal to their sequence | 3 min |
| `supervision` | 3 actors, 2 threads, 4 calls, monitor arrays of 2 (so they fill); every kind of supervisor, 3 children, 7 actors; 2 awaiters, 2 messages | one death each, one :DOWN per monitor, errors reach linked actors; no orphans, failed children replaced, siblings spared, counter drift explained; awaiters woken or stranded for a named reason | 2 min |
| `chan` | 3 actors, 2 channels of capacity 2 | losses only by close and no nil from a receive (polling), one entry per wait (several schedulers), close ends receives | 2 min |
| `data` | see `MCDataCells.cfg` | each container, search and match against its meaning | 2 min |
| `runtime` | see `MCRuntime.cfg` | tables, services, modules, types against their meaning | 2 min |

Runs whose property is **violated**, each a disagreement between the code and
what its comments say (quoted in `PROJECT.json`, "findings"):

| Run | What happens |
|---|---|
| `park_linux` | the futex compares the waiter count, so a notification between the last look and the sleep is lost, for good: the Linux branch has no timeout |
| `wake_stale` | a late wake-up uses up the flag of a later wait and its entry is dropped; the next message wakes nobody |
| `early_end` | a worker has an actor in hand and is not yet counted as running: scheduler 0 ends the run over it |
| `deque_hang` | one thread at a time: a steal from the owner's block before its grant is never reported, and the take-over of that block spins for ever |
| `sorted_map` | the key in the middle of a leaf that splits is forgotten (seen with the interpreter too: of 17 keys put, one is not found, and the size says 17) |

Some properties carry a condition that excludes behaviours the code really has.
TLC finds each as soon as its condition is taken away.

- `ActorWake`: with buffered stores, or in `prim_call`, which does not look again
  after setting the flag, the wake-up is lost.  Two schedulers can be on one stack
  (`StackShared`): `fiber_yield` marks the fiber suspended before leaving the
  stack, and the thread that wakes it from there resumes it under the one leaving.
  `OneHolder` shows that this is the only way as long as nobody has given the actor a
  second entry, and excepts the two ways the code does (`doubled`): a re-check that
  finds a message cancels a wait of which the sender has already taken the flag down,
  and that sender enqueues the actor all the same (`primitives.c:3080-3087`,
  `actor.c:184-188`); and a scheduler back from a fiber finds it running or preempted,
  by another that took the actor since, and puts it back too (`scheduler.c:1014-1018`).
- `BWoSDeque`: a fallback steal that races with `ws_pop` on a stale head returns an
  actor twice; a reservation with a stale end moves `thief_block` past entries.  When
  every entry of a granted block is reserved, `steal_tail` has the value of the
  sentinel, and `ws_push`, which comes round to the block, does not wait
  (`scheduler.c:169`): it resets the block and overwrites an entry that a slow thief
  has reserved and not read.  `early` marks it; it takes two thieves, the other one
  moving `thief_block` on (TLC finds the double return for two thieves, two blocks
  of two entries and seven pushes).
- `Dispatch`: the actor that scheduler 0 finds in its last look before parking is
  dropped, and so is the entry of an actor that blocked again with its flag taken
  down for an earlier wait (`dropped`).  Second entries come from the two ways of
  `ActorWake`, and a run that starts while an actor waits queues it with its flag up
  (`doubled`).
- The deque's wrap of block differences needs three blocks; the run has two, so
  it is covered by the theorems about the deque and not by TLC's run.
- `QSBR`: a queue entry can outlive the grace period of its actor; no memory is
  freed there, so it only meets a dead actor.  A ring that is full gives up its oldest
  entry without waiting.
- `ActorTables`: two registrations that run beside each other, the lock being lost,
  both append: one name for two actors, or two names for one (`crossed`); an
  actor that dies between the test and the append leaves its name behind (`late`).
- `ExitSignals`: a link made to an actor that died after the unlocked test
  propagates nothing, and a link for which one of the two arrays has no room does so
  in one direction only (both are `loose`); a full monitor array drops the watcher
  (`watched` does not count it).
- `Supervisor`: on two threads the unlocked child arrays lose living children;
  `prim_sup_remove_child` and `prim_dynsup_terminate_child` do not count the death,
  and the first does not shift restart types.
- `ChannelWait`: a sender blocked on a channel that is closed is told its value was
  sent; a select woken by one closed channel returns nil; a second waiter on a
  channel is not registered and nobody wakes it.  With several schedulers values are
  lost on open channels too: another sender fills the room after the test of
  `sched_run_one_quantum`, and `sched_prepare_resume` ignores what `channel_try_send`
  answers (one channel of capacity 1, four calls, 15 states); a receive may get nil
  in the mirror image of this.  `LossOnlyByClose` and `ReceiveNeverNil` therefore
  speak of the polling scheduler.
- `TaskAwait`: awaiters of a task that is killed, that registered behind the scan,
  or whose flag a message used up, sleep for ever (`NoneStranded` fails).
- `ActorServices`: an update of an agent made while another one's function runs is
  lost.
- `CellRefs`: counts disagree when the owner's reference is released on another
  thread (leak), when the last shared release comes between the owner's load and
  its flag (leak), when the owner retains a cell it has merged (use after free), and
  when a weak reference races with the last release (double free).
- `HashMap`: a removal asks the control bytes of the neighbouring group, not of the
  probe sequence, whether it may leave an empty slot, and keys become unreachable.
- `SortedMap`: besides the split, keys whose sort keys tie are confused (`Tied`).
  `cell_sort_key` ranks number before boolean before symbol before nil, and takes a pair
  by its address; `cell_compare` ranks nil before boolean before number, compares
  pairs by content and takes an integer for the number it equals.  Such equal keys are
  two keys of the map (`Twin`), and order queries are compared with `cell_compare` only
  where the two orders agree on the keys in use (`Consistent`).
- `RadixTrie`: a removal leaves a hole among the 48 slots and the next child takes
  a slot in use; compressed paths longer than the stored prefix go wrong.
- `Iterators`: chain and zip lose elements of batches of unequal length; a vector
  that shrinks between two batches is read past its end.
- `LinearCells`: `vector-map` reads a freed buffer when its function makes the
  vector grow; a buffer with a zero byte does not survive a string.
- `Structures`: a redefinition frees the registry head other contexts hold;
  updating a field turns a node value into a leaf.
- `PatternMatch`: a clause for nil counts as a catch-all in the exhaustiveness
  check; the or-pattern check misses the variables of views.
- `Modules`: a load answered from the cache records no dependency; a name not
  exported is found through the global table.
- `Refinements`: remembered answers survive a redefinition, which also cuts the
  list of refinements behind the name defined again, if that was still in it (of P, Q
  and R, defining Q again hides P; defining P again after that hides no more).  `Traits`: trait number 0 is stored as null and never found,
  and a default hides an implementation given before its trait.  `Types`: a union
  is not a subtype of itself; a name declared twice is reported by its old type.

**Bounds.**  Two threads per role are enough for the two-party races the code
guards against, a third actor for chains (link cycles, a second waiter).  Two slots
and four positions take every slot of the ring through two laps, which is where the
generation counters matter.  The data runs take small node sizes and enough calls
to fill, split, wrap and empty each structure; sorted maps and tries start from
prepared contents (`Preloads`, `TriePreloads`) just short of the next split or
growth.  Counters that would grow for ever are capped by constants named `Max...`
in the guards of the actions that raise them.  Deadlock is not checked: every
program here may end, and the bounds end every behaviour.

**Fairness.**  `EventCount` assumes that a thread which can step eventually does
(the operating system schedules it) and that a notification once begun is finished;
it does not assume that anybody posts, nudges or shuts down.  `ChannelWait` assumes
the same of primitives that were called and of the scheduler's passes.  On macOS
liveness rests on the 10 ms bound of the wait, whose expiry is part of
`WaiterStep`; without it shutdown can hang.

**Type invariants.**  Those of the ring, the eventcount, ChannelWait, ExitSignals,
Supervisor, ActorWake, BWoSDeque and QSBR are proved, as parts of the invariants of
section 5; the runs check those of Supervisor, QSBR, BWoSDeque and ActorWake as parts
of `TableStaysTrue`, `NothingLost` and `OneHolder`.
The modules with `obj` and `spec` have none:
their answers are compared with `spec` in every state, and an ill-formed `obj` does
not evaluate.

## 5. Proofs

`VyukovRingProofs` proves, for every capacity, any sets of senders and receivers,
any messages and any bound on the positions:

- `RingInvariant`: `Spec => [](TypeOK /\ RingInv)`;
- `RingTypes`, `SlotsAreExclusive`, `MessagesArrive`: `TypeOK`, `SlotExclusive`
  and `ReceivedIsSent` are invariants.

Mutual exclusion on a slot is not inductive by itself: it must be known which
generation numbers a slot can carry.  `RingInv` says that (`Window`) the two
positions are at most a capacity apart; (`QueuedSlots`, `FreeSlots`) each
position in the window has the sequence of a written, or being written, slot and
the others that of a free, or being read, one; (`SenderOwns`, `ReceiverOwns`,
`OwnersDistinct`) a thread between claim and publication is at its own position;
(`StillAsSeen`) a sequence that a thread read as free or full can only have
changed if the position moved on, which is what makes the CAS a sufficient test.
The proof has one case per action; arithmetic on slot numbers is isolated in
lemmas about `SlotOf` (equal slots within a window are equal positions).  The
constants' assumptions are named in `VyukovRing` and evaluated by TLC in `ring`.

Four more results rest on `RingInv`:

- `CounterAccurate` (`CountAccurate`): the counter and the cardinalities of the two
  sets of threads in flight change together; `CountStep` says by how much for every
  action, `OneMoreOrLess` is the step on cardinalities.
- `RefusalsJustified` (`RefusalJustified`, an action property): a sequence older than
  the position wanted can only be that of a full slot or of one being emptied
  (`GenerationOf`), and by `WindowCovers` that position is then a capacity ahead.
- `DestructionComplete` (`NothingLeaks`): a ring is destroyed when no call is under
  way, and then the full slots are exactly those of the window; nothing touches them
  afterwards (`FreedIsFinal`).
- `RingIsFifo` (`ImplementsFifo`): the refinement of `BoundedFifo`.  The queue is
  `SubSeq(sent, dequeue_pos + 1, enqueue_pos)`; a claim by a sender appends to this
  window (`ClaimEnqueues`), a claim by a receiver takes its head (`ClaimDequeues`),
  the return hands the message over, destruction empties it and every other step
  stutters (`OthersStutter`).  `QueueWindow`, `WindowAppend` and `WindowTail` are the
  facts about windows of sequences.

`EventCountProofs` proves `WaiterCountExact`, `Spec => [](TypeOK /\ WaitersExact)`,
for any finite set of threads (`WaitersFinite`), any producers and every platform.
The conjunction is inductive as it stands.  Lemma `WaiterSteps` shows that a step
of a worker treats its registration in one of three ways (keeps it, enters, leaves)
and changes the count to match; `CountFollows` turns that into cardinalities once
for all actions; `NotifierSteps` shows that waking a sleeper leaves it registered.

`ChannelWaitProofs` proves `WaitInvariant`, `Spec => []WaitInv`, for any actors, any
finite set of channels (`ChansAssumption`), every capacity, both modes and any bounds,
and from it `NeverQueuedTwice` (`OneEntryPerWait`), `SentIsKept` (`LossOnlyByClose`)
and, as an action property, `NilIsNeverReceived` (`ReceiveNeverNil`).  Under the
polling scheduler the argument is that only one actor moves at a time
(`OneAtATime`), so what `sched_actor_runnable` saw still holds when
`sched_prepare_resume` acts on it (`StillRunnable`); `WaitsFor` ties the primitive to
its reason and to its one channel, so that what was looked at is what is taken.  With
several schedulers the flag is the token: `OneEntryPerWait` is inductive together
with the types, since the exchange of the flag and the new entry are one step.  The
attempt to prove `LossOnlyByClose` for both modes showed that TLC had confirmed it
in "wake" mode only for want of calls: the property now says "poll".

`WorkersProofs` proves, of the behaviours of `MCWorkers` that are of `ActorWake` and
for any finite set of schedulers, any senders, mailbox capacity and bounds
(`WakeAssumption`), `WakeInvariant` and its consequences.  `RecheckClosesGap`
(`TwoPhaseWaitSound`) needs `RecheckHolds`: with ordered stores no buffer holds a
store, and a fiber that passed the second look and is about to yield has an empty
mailbox or a sender that has not looked at the flag yet; `FiberRuns` says which
states of the fiber go with which places, so that no other thread can raise the flag
meanwhile.  `LoneSchedulerDelivers` (`ResumedWithMessage`) needs `LoneResume`: the
message seen by the check is still there at every step up to the resume.
`ActorHasOneHolder` (`OneHolder`) says `OneHolder` without sets (`Lone`, `LoneHolder`)
and adds what a scheduler that has handed the actor on (`handed`) may still meet: it is
between the flag and its next turn (`HandedOver`), an actor about to be resumed stays
suspended, and while another scheduler is on the same stack one of those that handed the
actor on has yet to leave it (`Leaving`, `EntersLeaving`); the rest is what each step
does to the one holder (`HolderStep`).

Of the behaviours of `Dispatch`, for any workers, actors, homes and timers
(`LoopAssumption`: homes are threads, timers are for actors, `Nil` is no actor) and any
bounds, `WorkersProofs` proves `LoopsInvariant` and `ActorsHaveOnePlace`
(`OnePlaceEach`).  A place is a kind of place, its thread and an index (`Here`), so
that "in one place at most" (`Alone`) and "in none" (`Nowhere`) are said without
cardinalities; `PlacesAreHere` goes back to the sets of the model.  Two facts about
the queues carry the proof: `Enqueued`, `sched_enqueue` gives an actor that was nowhere
one place, whichever way the displaced one goes, and leaves the others with what they
had; `SourceTaken`, each of the four ways of taking an actor removes it from its place and
moves the others at most (for a steal, `StolenEntries` says where every entry of the
victim's deque has gone).  The invariant is `Settled`: an actor has one place at most, none while its flag is
up, and one while its flag is down.  The flag is what makes a wake-up exclusive: only
the sender that takes it down may enqueue the actor (`ExchangeKeeps`), and until it does
so it is itself the place.  `Right` says who may find the flag up: it is raised on the
actor's own fiber, over a message only while the re-check or a sender's exchange is
still to come; and one thread at most is on an actor's fiber, the actor then being marked
as running, so that nobody else changes its state.  `Hands` ties what a thread holds
to where it is.  A step changes the queues, and the hands of one thread; `Moving`,
`OthersStay` and `Fine` say once what it leaves of the invariant for all the others, so
that each action has to show only what becomes of the actor it handles (`TurnKeeps`).
`Between` carries the facts from one run to the next: a run ends with empty queues and
no worker, and while it starts the actors not yet distributed are nowhere, and those
with their flag up are among the exceptions.

`SupervisionProofs` proves `AliveCountExact`, `Spec => []AliveExact`, for any finite
set of actors (`ActorsFinite`), any threads and any array capacities.  The
strengthening is only `alive \subseteq Actors`, which makes the set finite: the
two steps that take an actor out (`Finish`, `Kill`) know it is alive at that moment,
and nothing else touches the flag or the counter (`PropagationIsIdle`).

Its second invariant, `ExitInvariant` (`Spec => []ExitInv`), gives `NoMonitorForgotten`
(`DownExactlyOnce`) and `ErrorsReachLinked` (`LinksPropagate`).  Both properties speak
of the moments without calls, so neither says anything while a death spreads.
`ExitInv` says where each obligation is meanwhile.  A monitor that has not been
answered is an entry of the actor's array (`OwedInArray`) or of the copy that one
thread walks (`OwedInCopy`), counted with `Occ` because a watcher may be there several
times; a dead actor whose array is not empty has a thread that is about to copy it
(`ToBeCopied`); and there is only one frame per dead actor that does so
(`OneObituary`), which rests on the flag being cleared once (`ObituariesOfDead`,
`ResultOfDead`).  A link of a living actor holds at both ends, or is loose, or some
frame on some stack is going to signal it (`LinksHold`, `Warned`).  Steps work at the
end of one thread's stack, so `Keeps` and the lemmas after it say once what a push, a
replacement or a return leaves of the parts of the invariant, and each group of actions has
a lemma that adds what it changes.  The proof also showed that the runs never had
a full array; monitor arrays now have two entries in `supervision`, and links
with room at one end are `loose`.

`WorkersProofs` also proves `GracePeriod`, `Spec => []GraceHeld`, for any schedulers and
actors and any bounds.  It is about every entry that `qsbr_safe`
lets go, for each retirement of an actor; an entry that a full ring gives up
(`RETIRE_CAP` is 256, and a scheduler reclaims two per turn) has no grace period.  The invariant `GraceInv` relates each entry to those who held its
actor at retirement: (`OldHolders`) they are still in that quantum, so (`HeldInQuanta`)
online, and (`EntriesCover`) have announced no epoch later than the entry's; hence
(`ScanSound`) `qsbr_safe` cannot pass one of them, in whatever order it looks at the
threads and whatever they do in between.  Several schedulers may each retire
the same killed actor, but none does so twice (`RetiredOnce`), so those who held it at
retirement are known for each entry; `EpochsPast` says that no thread is ahead of the
global epoch.

The last part of `SupervisionProofs` proves `AwaitersAreWoken` (`DeathSpec => []AwaitSound`), for any
awaiters, any number of messages and both modes, if `Nil` is neither of the two results
(`AwaitAssumption`).  `AwaitInv` follows one token: an awaiter raises its
flag once, and flag and queue entry together never exceed one (`OneToken`); while it
waits, the token exists unless a message took it when the task still lived
(`TokenKept`); and who still waits with the flag up when the scan has passed must
have registered behind it (`ScanFinds`).  Together they leave only the three ways
`AwaitSound` names.

`DequeProofs` proves `DequeInvariant`, `Spec => []DequeInv`, for any finite set of
thieves, any number of entries, two blocks or more (`DequeConstants`) and any number of
pushes, and `WorkersProofs` takes it to `MCWorkers` as `ActorsTakenOnce` (`TakenOnce`):
the instance `DP` has the definitions of `D`, and the other parts leave the deque
alone.  That an actor is returned once is the end of `OnePlace`: until then it is in
one place at most, a live index of one block or the hands of one thief, and whatever
is in a place has not been returned.  Each step leaves the places (`PlacesKept`), gives
one to a thief (`PlaceMoved`) or returns what was in one (`PlaceTaken`).  Which
indices are live depends on who may use a block.  A block with a reservation cursor,
or with a reader, is closed to the owner (`GrantedClosed`); its readers and the reports
it has had are no more than its reservations (`CommitsBounded`), so an owner that has
waited for as many reports as there were reservations finds no reader left
(`TakeoverSpin`); and a block the owner uses has no reports from before (`NoCommits`).
`OwnerKnows` says what the owner's reads are still worth at each of its steps.  All this
is claimed while the history is `Undisturbed` only.  When nothing overlaps, `Alone` says
that one call is under way, which makes a steal from the owner's own block harmless.
Preparing the proof showed that TLC had confirmed an earlier form of `TakenOnce` only
because the runs have one thief: with two, a block whose last entry is reserved looks
closed and is reset under the slow thief (`early`, section 4).

That the deque loses nothing, `NothingIsLost` (`Spec => []NothingLost`; `NoActorIsLost`
for the run, with the types of the deque and, as `RetireTypes`, of QSBR), is a
statement about deques no two calls of which have overlapped.  It rests on `LoneInv`: the epochs
that the owner and the thieves look at have different blocks (`Window`), a cursor
passes another only while the owner settles who took the last entry (`Ordered`), the
owner leaves a block only when it holds nothing but what the thieves were granted
(`Emptied`), an actor handed to the global queue is nowhere else (`OverflowApart`), a
thief has passed no block with an entry (`Scanned`), and so every actor not yet
returned is found (`NoneLost`).  `DequeInv` gives the converse, that nothing returned is
still in a place.  TLC checked `LoneInv` first, with two thieves and (entries, blocks,
pushes) of (2, 2, 6), (3, 2, 8), (2, 3, 9) and (1, 3, 6).

The second half of `SupervisionProofs` is about supervisors, under `SupervisorAssumption`
(bounds are numbers and the first children fit).  `TableAlwaysTrue`
(`DeathSpec => []TableStaysTrue`) holds for any number of threads.  Its invariant `TableInv` adds
to the types that a child has one place and an id already given out (`Placed`),
that the dead and the removed are not alive and explain the counter (`Counted`), that the
two arrays of a dynamic supervisor agree in every state and not only in quiet ones
(`Restarts`), and which loop runs for which strategy (`Loops`).  `NobodyOrphaned`,
`FailedReplaced` and `StrategySpares` (`NoOrphans`, `FailedAreReplaced`,
`SiblingsSpared`) have the hypothesis `OneThread`, which is the run's configuration
(`SupThreads`) and the interpreter's with one scheduler: on two threads the
unlocked arrays do lose living children (section 4), so no invariant can give more.  `SupInv`
says of every step of a handler what its index means (`Handling`): the children behind
it are killed, or replaced, those before it are not yet, and the dead child is still
where the handler found it; and, unless no restart is left, a child that failed is the one
the handler is about to replace (`FailedKnown`).  The shift of one array is one step of
`Supervisor`, and the theorems say no more than that.  TLC checked `SupInv` on the run's
bounds, and `TableInv` with two threads, before the proof.

`CellRefsProofs` proves `CellRefsInvariant`, and `WorkersProofs` takes it to the run as
`CellsAreSound` (`RefsSound`), for any finite set of threads, any number of references
and of operations.  The hypothesis (`CellConstants`) is that twice the number of
operations stays below the range of the shared count, 2^31 in the code, which never
checks it.  A reference is an element of a set (`References`), so that their number is
a cardinality; `KeptUp` and `KeptDown` say what one more or one less does to it.  The
count and the flag are one word, and a count that falls below zero borrows from the
flag: `Signed` reads the word as the number it stands for, and `MergedUp` and
`MergedDown` show that the flag then keeps its meaning.  `RefsInv` says (`Balanced`) that
both counts together are never below the number of references, and above it only by those
left behind in the wrong count; (`Disowned`) that the flag means that the owner
has gone, and that until it is set the owner is in its last release; (`Gone`) that one
thread drops the children, having seen both counts at zero, and that once they are at
zero one does, unless the last shared reference went between the load and the flag
(`raced`); (`FreedOnce`) that the memory is freed once.  All this is claimed while no reference was
revived and no merged cell was retained (`Clean`): a retain after the counts were at
zero is what the code cannot survive.  `OwnersCount` is independent of it: the owner's
count covers its references unless it was given one that others had counted, so this
alone can make the assertion of `cell_release` fail.

`LinearCellsProofs` proves `LinearCellsInvariant`, and `WorkersProofs` takes it to the run
as `ContainersAgree` (`LinearAgrees`), for any elements, any smallest capacities and any
bound on the length.  The hypotheses (`LinearConstants`) are what the code's
constants satisfy: the range of an index is a power of two and a multiple of the
smallest capacity of a deque, the first heap buffer of a vector is larger than its
inline slots, and a container holds at most half of what a 32-bit index counts, since no
growth is checked for overflow.  For the deque, `DequeHolds` says that the elements lie at
the slots `(head + i) % cap` and nowhere else.  The indices are counted modulo 2^32
and masked by the capacity, so a slot keeps its meaning over the wrap-around only
because the capacity divides the range (`Through`); a step keeps this, because a
capacity that is full and below half the range still divides a power of two when it is
doubled (`DoubledDivides`).  `GrowHolds` is `deque_grow`: what its one or two
copies lay out is the old content from its first slot on; a full ring, whose masked
ends meet, is always copied as a wrapped one.  `VectorHolds` ties the capacity to where the elements are, inline or on
the heap, and that is why `vector-map` is disturbed only by a full heap buffer.  The
least capacity above a request is the minimum of the first doublings (or growths by
half), whose existence and growth are proved by induction over their number
(`Iterates`, `IteratesGrow`).

Out of the prover's reach and left to TLC: everything about fairness and ENABLED
(`WorkIsTaken`, `ShutdownCompletes`, `CloseEndsReceive`), and the modules
that declare RECURSIVE operators, behind which no arithmetic is proved:
`ActorServices`, `GraphCells`, `Heap4`, `Iterators`, `Modules`, `PatternMatch`,
`RadixTrie`, `Refinements`, `SortedMap`, `Strings` and `Types`, with `DataCells` and `Runtime`, which instantiate them, and so
all the properties of those two runs, those of the non-recursive modules in them
(`HashMap`, `HashSet`, `Structures`, `ActorTables`, `Traits`) included.


## 6. Not modelled, and the plan

| Left out | Why |
|---|---|
| Evaluation of terms, De Bruijn environments, tail calls, the reduction budget (`eval.c`, `debruijn.c`) | sequential rewriting of terms; only the global table, qualified names and the type registry carry state between calls, and those are in `Modules` and `Structures`. The budget appears as the preemption of a quantum in `ActorWake` and `Dispatch` |
| Reader, REPL, macros, symbol interning | sequential, with no state to get wrong between calls; interning is one table under one lock and taken as a numbering |
| Fiber switch and stack pool (`fiber.c`) | assembly and memory management; the fiber's states and the moment at which its stack is left are in `ActorWake` |
| Completion ring, signals | kernel semantics outside this code |
| CFG, DFG and call-graph builders | total functions from terms to cells that nothing else reads |
| JIT and FFI emitters | bytes for a processor without a model here |
| Arithmetic, diagnostics, formatting, standard library | pure functions; programs in the interpreted language |
| `Supervisor` × `Dispatch` | a restarted child is created with fiber and flag but `sched_enqueue` is not called for it (`actor.c:643`); with several schedulers it waits until something else enqueues it. Each module is checked by itself; their product is too large for the bounds in which restarts happen |
| 32-bit wrap of the epoch and of the deque's offsets | needs four billion notifications within one wait |

Next, in this order:

1. The composition of `Supervisor` with a reduced `Dispatch` (two actors, slot and
   one queue), for the restarted child.
2. Closures and environments of the evaluator as a small-step semantics, with the
   reduction budget as the point where a quantum may end.
