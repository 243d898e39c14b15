------------------------- MODULE SupervisionProofs --------------------------
(***************************************************************************)
(* Deaths, monitors and links, for any finite set of actors, any set of    *)
(* threads and any capacity of the link and monitor arrays; and the        *)
(* supervisor, for any number of children and actors, any restart budget   *)
(* and every kind of supervisor; and the end of a task, for any set of     *)
(* awaiters and any number of messages.                                    *)
(*                                                                         *)
(* g_alive_actors: only actor_finish and the locked part of                *)
(* actor_exit_signal touch the flag or the counter.  Both know that the    *)
(* actor is alive when they take it out: an actor runs one primitive at a  *)
(* time, and the kill tests the flag again under the stripe lock.          *)
(*                                                                         *)
(* Monitors and links: every obligation a death creates has one place.  A  *)
(* :DOWN is owed by an entry of the actor's array or, once                 *)
(* actor_notify_exit has copied it, by an entry of the copy a thread       *)
(* walks; a death is propagated by one such call, so no copy is walked     *)
(* twice.  A link of a living actor holds at both ends, or a thread's      *)
(* stack still has the frame that will signal it.                          *)
(*                                                                         *)
(* Supervisors: the table (TableInv) is true whatever the threads do.      *)
(* What a handler knows of it (Handled) stays true on one thread only:     *)
(* which children it has killed and which it has still to replace.         *)
(***************************************************************************)
EXTENDS MCSupervision, FiniteSetTheorems, SequenceTheorems, TLAPS

-----------------------------------------------------------------------------
(* The counter *)

(* AliveExact is inductive once alive is known to be a set of actors, which *)
(* makes it finite.                                                         *)
AliveInv == alive \subseteq Actors /\ AliveExact

(* The death of an actor that is alive keeps the counter exact. *)
LEMMA DeathCounted ==
  ASSUME AliveInv, NEW a \in alive, NEW r, Die(a, r)
  PROVE  AliveInv'
<1>1. IsFiniteSet(alive)
  BY ActorsFinite, FS_Subset DEF AliveInv
<1>2. Cardinality(alive \ {a}) = Cardinality(alive) - 1
  BY <1>1, FS_RemoveElement
<1> QED BY <1>2 DEF AliveInv, AliveExact, Die

(* No step of a thread in a call, other than a kill, touches the flags or   *)
(* the counter.                                                             *)
LEMMA PropagationIsIdle ==
  ASSUME NEW t \in Threads, Propagate(t), ~Kill(t)
  PROVE  UNCHANGED life
BY DEF Propagate, LinkBoth, SignalEnds, SignalKills, CopyLists, NotifyMonitor,
       MonitorsDone, NotifyLink, LinksDone

(* The number that decides when sched_run_all may stop, g_alive_actors, is  *)
(* the number of actors whose alive flag is set, however many threads kill  *)
(* the same actor and however the deaths cascade.                           *)
THEOREM AliveCountExact == Spec => []AliveExact
<1>1. Init => AliveInv
  BY DEF Init, AliveInv, AliveExact
<1>2. ASSUME AliveInv, [Next]_vars PROVE AliveInv'
  <2>1. CASE UNCHANGED life
    BY <1>2, <2>1 DEF AliveInv, AliveExact, life
  <2>2. CASE UNCHANGED vars
    BY <2>1, <2>2 DEF vars, life
  <2>3. ASSUME NEW t \in Threads, Primitive(t) PROVE AliveInv'
    <3>1. PICK c \in Actors :
             \/ \E r \in Reasons : Finish(t, c, r)
             \/ \E a \in Actors : Link(t, c, a) \/ Unlink(t, c, a) \/ Monitor(t, c, a)
             \/ \E a \in Actors, r \in Reasons : Exit(t, c, a, r)
             \/ \E on \in BOOLEAN : TrapExit(t, c, on)
      BY <2>3 DEF Primitive
    <3>2. ASSUME NEW r \in Reasons, Finish(t, c, r) PROVE AliveInv'
      <4>1. c \in alive /\ Die(c, r)
        BY <3>2 DEF Finish, Call
      <4> QED BY <1>2, <4>1, DeathCounted
    <3>3. CASE ~ \E r \in Reasons : Finish(t, c, r)
      <4>1. UNCHANGED life
        BY <3>1, <3>3 DEF Link, Unlink, Monitor, Exit, TrapExit
      <4> QED BY <2>1, <4>1
    <3> QED BY <3>2, <3>3
  <2>4. ASSUME NEW t \in Threads, Propagate(t) PROVE AliveInv'
    <3>1. CASE Kill(t)
      <4>1. CASE Top(t).who \in alive
        <5>1. Die(Top(t).who, Top(t).reason)
          BY <3>1, <4>1 DEF Kill
        <5> QED BY <1>2, <4>1, <5>1, DeathCounted
      <4>2. CASE Top(t).who \notin alive
        BY <2>1, <3>1, <4>2 DEF Kill
      <4> QED BY <4>1, <4>2
    <3>2. CASE ~Kill(t)
      BY <2>1, <2>4, <3>2, PropagationIsIdle
    <3> QED BY <3>1, <3>2
  <2> QED BY <1>2, <2>2, <2>3, <2>4 DEF Next
<1>3. AliveInv => AliveExact
  BY DEF AliveInv
<1> QED BY <1>1, <1>2, <1>3, PTL DEF Spec

-----------------------------------------------------------------------------
(* Counting the entries of a sequence that are one watcher *)

Occ(s, w) == Cardinality({i \in 1 .. Len(s) : s[i] = w})

LEMMA OccType ==
  ASSUME NEW T, NEW s \in Seq(T), NEW w
  PROVE  Occ(s, w) \in Nat
<1>1. IsFiniteSet(1 .. Len(s))
  BY LenProperties, FS_Interval
<1>2. IsFiniteSet({i \in 1 .. Len(s) : s[i] = w})
  BY <1>1, FS_Subset
<1> QED BY <1>2, FS_CardinalityType DEF Occ

LEMMA OccEmpty == ASSUME NEW w PROVE Occ(<<>>, w) = 0
<1>1. {i \in 1 .. Len(<<>>) : <<>>[i] = w} = {}
  OBVIOUS
<1> QED BY <1>1, FS_EmptySet DEF Occ

LEMMA OccAppend ==
  ASSUME NEW T, NEW s \in Seq(T), NEW c \in T, NEW w
  PROVE  Occ(Append(s, c), w) = Occ(s, w) + (IF c = w THEN 1 ELSE 0)
<1> DEFINE n == Len(s)
           I == {i \in 1 .. n : s[i] = w}
           J == {i \in 1 .. n + 1 : Append(s, c)[i] = w}
<1>1. n \in Nat
  BY LenProperties
<1>2. IsFiniteSet(I)
  <2>1. IsFiniteSet(1 .. n)
    BY <1>1, FS_Interval
  <2> QED BY <2>1, FS_Subset
<1>3. /\ \A i \in 1 .. n : Append(s, c)[i] = s[i]
      /\ Append(s, c)[n + 1] = c /\ Len(Append(s, c)) = n + 1
  BY AppendProperties
<1>4. J = IF c = w THEN I \cup {n + 1} ELSE I
  BY <1>1, <1>3
<1>5. n + 1 \notin I
  BY <1>1
<1>6. Cardinality(I \cup {n + 1}) = Cardinality(I) + 1
  BY <1>2, <1>5, FS_AddElement
<1>7. Cardinality(I) \in Nat
  BY <1>2, FS_CardinalityType
<1>8. Occ(Append(s, c), w) = Cardinality(J)
  BY <1>3 DEF Occ
<1>9. Occ(s, w) = Cardinality(I)
  BY DEF Occ
<1> HIDE DEF I, J
<1> QED BY <1>4, <1>6, <1>7, <1>8, <1>9

LEMMA OccTail ==
  ASSUME NEW T, NEW s \in Seq(T), s # <<>>, NEW w
  PROVE  Occ(s, w) = Occ(Tail(s), w) + (IF s[1] = w THEN 1 ELSE 0)
<1> DEFINE n == Len(s)
           I == {i \in 1 .. n - 1 : Tail(s)[i] = w}
           J == {i \in 2 .. n : s[i] = w}
           K == {i \in 1 .. n : s[i] = w}
           shift == [i \in I |-> i + 1]
<1>1. n \in Nat /\ n >= 1
  BY EmptySeq, LenProperties
<1>2. Len(Tail(s)) = n - 1 /\ \A i \in 1 .. n - 1 : Tail(s)[i] = s[i + 1]
  BY HeadTailProperties
<1>3. IsFiniteSet(I)
  <2>1. IsFiniteSet(1 .. n - 1)
    BY <1>1, FS_Interval
  <2> QED BY <2>1, FS_Subset
<1>4. shift \in Bijection(I, J)
  <2>1. shift \in Injection(I, J)
    <3>1. \A i \in I : i + 1 \in J
      BY <1>1, <1>2
    <3>2. \A i, j \in I : i + 1 = j + 1 => i = j
      BY <1>1
    <3> QED BY <3>1, <3>2 DEF Injection, IsInjective
  <2>2. \A j \in J : \E i \in I : shift[i] = j
    <3>1. ASSUME NEW j \in J PROVE j - 1 \in I /\ shift[j - 1] = j
      <4>1. j - 1 \in 1 .. n - 1 /\ j = (j - 1) + 1
        BY <1>1
      <4> QED BY <4>1, <1>2
    <3> QED BY <3>1
  <2> QED BY <2>1, <2>2 DEF Bijection, Surjection, Injection
<1>5. IsFiniteSet(J) /\ Cardinality(J) = Cardinality(I)
  <2>1. ExistsBijection(I, J)
    BY <1>4 DEF ExistsBijection
  <2> QED BY <1>3, <2>1, FS_Bijection
<1>6. K = IF s[1] = w THEN J \cup {1} ELSE J
  BY <1>1
<1>7. Cardinality(J \cup {1}) = Cardinality(J) + 1
  <2>1. 1 \notin J
    BY <1>1
  <2> QED BY <1>5, <2>1, FS_AddElement
<1>8. Cardinality(I) \in Nat
  BY <1>3, FS_CardinalityType
<1>9. Occ(s, w) = Cardinality(K)
  BY DEF Occ
<1>10. Occ(Tail(s), w) = Cardinality(I)
  BY <1>2 DEF Occ
<1> HIDE DEF I, J, K
<1> QED BY <1>5, <1>6, <1>7, <1>8, <1>9, <1>10

-----------------------------------------------------------------------------
(* Frames on the stacks *)

Obituary(f) == f.op \in {"notify", "monitors", "links"}
Frames ==
  [op : {"notify", "monitors", "links"}, who : Actors, ids : Seq(Actors), linked : SUBSET Actors]
    \cup [op : {"signal", "kill"}, who : Actors, reason : Reasons]
    \cup [op : {"link"}, who : Actors, from : Actors]

StacksTyped == stack \in [Threads -> Seq(Frames)]

(* The step leaves the other threads' stacks alone, and of t's the m        *)
(* outermost frames.                                                        *)
Keeps(t, m) ==
  /\ StacksTyped'
  /\ m \in Nat /\ m <= Len(stack[t]) /\ m <= Len(stack'[t])
  /\ \A u \in Threads : u # t => stack'[u] = stack[u]
  /\ \A i \in 1 .. m : stack'[t][i] = stack[t][i]

LEMMA StackFacts ==
  ASSUME StacksTyped, NEW t \in Threads
  PROVE  /\ Len(stack[t]) \in Nat /\ DOMAIN stack[t] = 1 .. Len(stack[t])
         /\ \A i \in 1 .. Len(stack[t]) : stack[t][i] \in Frames
         /\ stack[t] # <<>> => Len(stack[t]) >= 1 /\ Top(t) \in Frames
<1>1. stack[t] \in Seq(Frames)
  BY DEF StacksTyped
<1>2. /\ Len(stack[t]) \in Nat /\ DOMAIN stack[t] = 1 .. Len(stack[t])
      /\ stack[t] # <<>> => Len(stack[t]) >= 1
  BY <1>1, LenProperties, EmptySeq
<1>3. \A i \in 1 .. Len(stack[t]) : stack[t][i] \in Frames
  BY <1>1, ElementOfSeq
<1> QED BY <1>2, <1>3 DEF Top

LEMMA PushKeeps ==
  ASSUME StacksTyped, NEW t \in Threads, NEW f \in Frames, Push(t, f)
  PROVE  /\ Keeps(t, Len(stack[t])) /\ Len(stack'[t]) = Len(stack[t]) + 1
         /\ stack'[t][Len(stack[t]) + 1] = f
<1>1. stack[t] \in Seq(Frames)
  BY DEF StacksTyped
<1>2. stack'[t] = Append(stack[t], f) /\ \A u \in Threads : u # t => stack'[u] = stack[u]
  BY DEF StacksTyped, Push
<1>3. /\ Append(stack[t], f) \in Seq(Frames) /\ Len(Append(stack[t], f)) = Len(stack[t]) + 1
      /\ \A i \in 1 .. Len(stack[t]) : Append(stack[t], f)[i] = stack[t][i]
      /\ Append(stack[t], f)[Len(stack[t]) + 1] = f
  BY <1>1, AppendProperties
<1>4. StacksTyped'
  BY <1>3 DEF StacksTyped, Push
<1>5. Len(stack[t]) \in Nat
  BY <1>1, LenProperties
<1> QED BY <1>2, <1>3, <1>4, <1>5 DEF Keeps

LEMMA ReplaceKeeps ==
  ASSUME StacksTyped, NEW t \in Threads, stack[t] # <<>>, NEW f \in Frames, Replace(t, f)
  PROVE  /\ Keeps(t, Len(stack[t]) - 1) /\ Len(stack'[t]) = Len(stack[t])
         /\ stack'[t][Len(stack[t])] = f
<1>1. stack[t] \in Seq(Frames) /\ Len(stack[t]) \in Nat /\ Len(stack[t]) >= 1
  BY StackFacts DEF StacksTyped
<1> DEFINE s == [stack[t] EXCEPT ![Len(stack[t])] = f]
<1>2. stack'[t] = s /\ \A u \in Threads : u # t => stack'[u] = stack[u]
  BY DEF StacksTyped, Replace
<1>3. Len(stack[t]) \in 1 .. Len(stack[t])
  BY <1>1
<1>4. /\ s \in Seq(Frames) /\ Len(s) = Len(stack[t])
      /\ \A j \in 1 .. Len(stack[t]) : s[j] = IF j = Len(stack[t]) THEN f ELSE stack[t][j]
  BY <1>1, <1>3, ExceptSeq
<1>5. StacksTyped'
  BY <1>4 DEF StacksTyped, Replace
<1> QED BY <1>1, <1>2, <1>3, <1>4, <1>5 DEF Keeps

LEMMA ReturnKeeps ==
  ASSUME StacksTyped, NEW t \in Threads, stack[t] # <<>>, Return(t)
  PROVE  Keeps(t, Len(stack[t]) - 1) /\ Len(stack'[t]) = Len(stack[t]) - 1
<1>1. /\ stack[t] \in Seq(Frames) /\ Len(stack[t]) \in Nat /\ Len(stack[t]) >= 1
      /\ \A i \in 1 .. Len(stack[t]) : stack[t][i] \in Frames
  BY StackFacts DEF StacksTyped
<1> DEFINE m == Len(stack[t]) - 1
           s == SubSeq(stack[t], 1, m)
<1>2. stack'[t] = s /\ \A u \in Threads : u # t => stack'[u] = stack[u]
  BY DEF StacksTyped, Return
<1>3. m \in Nat /\ \A i \in 1 .. m : stack[t][i] \in Frames
  BY <1>1
<1>4. s \in Seq(Frames) /\ Len(s) = m /\ \A i \in 1 .. m : s[i] = stack[t][i]
  <2>1. /\ s \in Seq(Frames) /\ Len(s) = IF 1 <= m THEN m - 1 + 1 ELSE 0
        /\ \A i \in 1 .. m - 1 + 1 : s[i] = stack[t][1 + i - 1]
    BY <1>3, SubSeqProperties
  <2> HIDE DEF s
  <2> QED BY <1>3, <2>1
<1>5. StacksTyped'
  BY <1>4 DEF StacksTyped, Return
<1> QED BY <1>1, <1>2, <1>3, <1>4, <1>5 DEF Keeps

LEMMA FrameFacts ==
  ASSUME NEW f \in Frames
  PROVE  /\ f.op \in {"notify", "monitors", "links", "signal", "kill", "link"} /\ f.who \in Actors
         /\ Obituary(f) => f.ids \in Seq(Actors) /\ f.linked \in SUBSET Actors
         /\ f.op \in {"signal", "kill"} => f.reason \in Reasons
         /\ f.op = "link" => f.from \in Actors
BY DEF Frames, Obituary

(* What the steps put on a stack. *)
LEMMA NewFrames ==
  /\ \A a \in Actors : /\ NotifyFrame(a) \in Frames
                       /\ NotifyFrame(a).op = "notify" /\ NotifyFrame(a).who = a
  /\ \A a \in Actors, r \in Reasons : [op |-> "signal", who |-> a, reason |-> r] \in Frames
  /\ \A a, c \in Actors : [op |-> "link", who |-> a, from |-> c] \in Frames
  /\ \A a \in Actors, s \in Seq(Actors), l \in SUBSET Actors :
       [op |-> "monitors", who |-> a, ids |-> s, linked |-> l] \in Frames
<1>1. <<>> \in Seq(Actors)
  BY EmptySeq
<1> QED BY <1>1 DEF Frames, NotifyFrame

LEMMA SignalBecomesKill ==
  ASSUME NEW f \in Frames, f.op = "signal"
  PROVE  LET g == [f EXCEPT !.op = "kill"] IN g \in Frames /\ g.op = "kill" /\ g.who = f.who
<1>1. f \in [op : {"signal", "kill"}, who : Actors, reason : Reasons]
  BY DEF Frames
<1> QED BY <1>1 DEF Frames

LEMMA MonitorsBecomeLinks ==
  ASSUME NEW f \in Frames, f.op = "monitors"
  PROVE  LET g == [f EXCEPT !.op = "links"] IN
         g \in Frames /\ g.op = "links" /\ g.who = f.who /\ g.linked = f.linked
<1>1. f \in [op : {"notify", "monitors", "links"}, who : Actors, ids : Seq(Actors),
             linked : SUBSET Actors]
  BY DEF Frames
<1> QED BY <1>1 DEF Frames

LEMMA MonitorTakenOff ==
  ASSUME NEW f \in Frames, f.op = "monitors", f.ids # <<>>
  PROVE  LET g == [f EXCEPT !.ids = Tail(@)] IN
         /\ g \in Frames /\ g.op = "monitors" /\ g.who = f.who
         /\ g.linked = f.linked /\ g.ids = Tail(f.ids)
<1>1. f \in [op : {"notify", "monitors", "links"}, who : Actors, ids : Seq(Actors),
             linked : SUBSET Actors]
  BY DEF Frames
<1>2. Tail(f.ids) \in Seq(Actors)
  BY <1>1, HeadTailProperties
<1> QED BY <1>1, <1>2 DEF Frames

LEMMA LinkTakenOff ==
  ASSUME NEW f \in Frames, f.op = "links", NEW b
  PROVE  LET g == [f EXCEPT !.linked = @ \ {b}] IN
         g \in Frames /\ g.op = "links" /\ g.who = f.who /\ g.linked = f.linked \ {b}
<1>1. f \in [op : {"notify", "monitors", "links"}, who : Actors, ids : Seq(Actors),
             linked : SUBSET Actors]
  BY DEF Frames
<1> QED BY <1>1 DEF Frames

-----------------------------------------------------------------------------
(* The inductive invariant *)

(* An actor's result is set exactly when its flag is cleared. *)
ResultOfDead == \A a \in Actors : a \in alive <=> result[a] = "none"

(* actor_notify_exit runs for dead actors, and once for each. *)
ObituariesOfDead ==
  \A t \in Threads : \A i \in DOMAIN stack[t] :
    Obituary(stack[t][i]) => stack[t][i].who \notin alive
OneObituary ==
  \A t, u \in Threads : \A i \in DOMAIN stack[t], j \in DOMAIN stack[u] :
    /\ Obituary(stack[t][i]) /\ Obituary(stack[u][j]) /\ stack[t][i].who = stack[u][j].who
    => t = u /\ i = j

(* The monitors of a dead actor wait for a thread that is about to copy     *)
(* them: none is added after that.                                          *)
ToBeCopied ==
  \A a \in Actors \ alive : monitors[a] # <<>> =>
    \E t \in Threads : \E i \in DOMAIN stack[t] :
      stack[t][i].op = "notify" /\ stack[t][i].who = a

(* A monitor of a living watcher has had its :DOWN or has its entry: in the *)
(* actor's array, or in the copy that a thread is walking.                  *)
Copied(a) ==
  \E t \in Threads : \E i \in DOMAIN stack[t] :
    stack[t][i].op = "monitors" /\ stack[t][i].who = a
OwedInArray ==
  \A w \in alive, a \in Actors :
    Copied(a) \/ watched[w][a] = inbox[w][a] + Occ(monitors[a], w)
OwedInCopy ==
  \A t \in Threads : \A i \in DOMAIN stack[t] : stack[t][i].op = "monitors" =>
    \A w \in alive : watched[w][stack[t][i].who]
                       = inbox[w][stack[t][i].who] + Occ(stack[t][i].ids, w)

(* A link of a living actor holds at both ends, or its other end is dead    *)
(* and a thread still has to signal, unless that one did not die of an      *)
(* error.                                                                   *)
Warns(f, a, b) ==
  \/ f.op = "notify" /\ f.who = a /\ b \in links[a]
  \/ f.op \in {"monitors", "links"} /\ f.who = a /\ b \in f.linked
  \/ f.op \in {"signal", "kill"} /\ f.who = b
Warned(a, b) == \E t \in Threads : \E i \in DOMAIN stack[t] : Warns(stack[t][i], a, b)
LinksHold ==
  \A b \in alive \ trapped : \A a \in links[b] :
    \/ {a, b} \in loose
    \/ a \in alive /\ b \in links[a]
    \/ a \notin alive /\ (result[a] = "error" => Warned(a, b))

Obituaries == ObituariesOfDead /\ OneObituary
Owed == ToBeCopied /\ OwedInArray /\ OwedInCopy
ExitInv == TypeOK /\ StacksTyped /\ ResultOfDead /\ Obituaries /\ Owed /\ LinksHold

-----------------------------------------------------------------------------
(* What keeps its parts, whichever step changes one thread's stack *)

LEMMA KeptFrames ==
  ASSUME StacksTyped, NEW t \in Threads, NEW m, Keeps(t, m)
  PROVE  /\ \A u \in Threads : /\ DOMAIN stack[u] = 1 .. Len(stack[u]) /\ Len(stack[u]) \in Nat
                               /\ DOMAIN stack'[u] = 1 .. Len(stack'[u]) /\ Len(stack'[u]) \in Nat
         /\ \A u \in Threads : \A i \in DOMAIN stack[u] :
              u # t \/ i <= m => i \in DOMAIN stack'[u] /\ stack'[u][i] = stack[u][i]
         /\ \A u \in Threads : \A i \in DOMAIN stack'[u] :
              u # t \/ i <= m => i \in DOMAIN stack[u] /\ stack'[u][i] = stack[u][i]
<1>1. ASSUME NEW u \in Threads
      PROVE  /\ DOMAIN stack[u] = 1 .. Len(stack[u]) /\ Len(stack[u]) \in Nat
             /\ DOMAIN stack'[u] = 1 .. Len(stack'[u]) /\ Len(stack'[u]) \in Nat
  <2>1. stack[u] \in Seq(Frames) /\ stack'[u] \in Seq(Frames)
    BY DEF StacksTyped, Keeps
  <2> QED BY <2>1, LenProperties
<1> QED BY <1>1 DEF Keeps

LEMMA ObituariesKept ==
  ASSUME StacksTyped, Obituaries, NEW t \in Threads, NEW m, Keeps(t, m), alive' \subseteq alive,
         \A i \in m + 1 .. Len(stack'[t]) : Obituary(stack'[t][i]) =>
           /\ i = m + 1
           /\ \/ /\ m + 1 <= Len(stack[t]) /\ Obituary(stack[t][m + 1])
                 /\ stack'[t][m + 1].who = stack[t][m + 1].who
              \/ stack'[t][m + 1].who \in alive /\ stack'[t][m + 1].who \notin alive'
  PROVE  Obituaries'
<1> USE DEF Obituaries
<1>1. m \in Nat
  BY DEF Keeps
<1>2. ASSUME NEW u \in Threads, NEW i \in DOMAIN stack'[u], Obituary(stack'[u][i])
      PROVE  \/ /\ i \in DOMAIN stack[u] /\ Obituary(stack[u][i])
                /\ stack'[u][i].who = stack[u][i].who
             \/ /\ u = t /\ i = m + 1
                /\ stack'[u][i].who \in alive /\ stack'[u][i].who \notin alive'
  <2>1. CASE u # t \/ i <= m
    BY <1>2, <2>1, KeptFrames
  <2>2. CASE u = t /\ ~(i <= m)
    <3>1. i \in m + 1 .. Len(stack'[t])
      BY <1>1, <2>2, KeptFrames
    <3>2. /\ i = m + 1
          /\ \/ /\ m + 1 <= Len(stack[t]) /\ Obituary(stack[t][m + 1])
                /\ stack'[t][m + 1].who = stack[t][m + 1].who
             \/ stack'[t][m + 1].who \in alive /\ stack'[t][m + 1].who \notin alive'
      BY <1>2, <2>2, <3>1
    <3>3. m + 1 <= Len(stack[t]) => m + 1 \in DOMAIN stack[t]
      BY <1>1, KeptFrames
    <3> QED BY <2>2, <3>2, <3>3
  <2> QED BY <2>1, <2>2
<1>3. ObituariesOfDead'
  BY <1>2 DEF ObituariesOfDead
<1>4. ASSUME NEW u \in Threads, NEW v \in Threads,
             NEW i \in DOMAIN stack'[u], NEW j \in DOMAIN stack'[v],
             Obituary(stack'[u][i]), Obituary(stack'[v][j]),
             stack'[u][i].who = stack'[v][j].who
      PROVE  u = v /\ i = j
  BY <1>2, <1>4 DEF OneObituary, ObituariesOfDead
<1>5. OneObituary'
  BY <1>4 DEF OneObituary
<1> QED BY <1>3, <1>5

LEMMA ToBeCopiedKept ==
  ASSUME StacksTyped, ToBeCopied, NEW t \in Threads, NEW m, Keeps(t, m),
         \A i \in m + 1 .. Len(stack[t]) :
           stack[t][i].op = "notify" => monitors'[stack[t][i].who] = <<>>,
         \A a \in Actors \ alive : monitors'[a] \in {monitors[a], <<>>},
         \A a \in alive : a \in alive' \/ /\ m + 1 <= Len(stack'[t])
                                          /\ stack'[t][m + 1].op = "notify"
                                          /\ stack'[t][m + 1].who = a
  PROVE  ToBeCopied'
<1> SUFFICES ASSUME NEW a \in Actors, a \notin alive', monitors'[a] # <<>>
             PROVE  \E u \in Threads : \E i \in DOMAIN stack'[u] :
                      stack'[u][i].op = "notify" /\ stack'[u][i].who = a
  BY DEF ToBeCopied
<1>1. m \in Nat
  BY DEF Keeps
<1>2. CASE a \in alive
  <2>1. m + 1 \in DOMAIN stack'[t]
    BY <1>1, <1>2, KeptFrames
  <2> QED BY <1>2, <2>1
<1>3. CASE a \notin alive
  <2>0. PICK u \in Threads : \E i \in DOMAIN stack[u] :
                                stack[u][i].op = "notify" /\ stack[u][i].who = a
    <3>1. a \in Actors \ alive /\ monitors[a] # <<>>
      BY <1>3
    <3> QED BY <3>1 DEF ToBeCopied
  <2>1. PICK i \in DOMAIN stack[u] : stack[u][i].op = "notify" /\ stack[u][i].who = a
    BY <2>0
  <2>2. u # t \/ i <= m
    <3>1. u = t /\ ~(i <= m) => i \in m + 1 .. Len(stack[t])
      BY <1>1, KeptFrames
    <3> QED BY <2>1, <3>1
  <2>3. i \in DOMAIN stack'[u] /\ stack'[u][i] = stack[u][i]
    BY <2>2, KeptFrames
  <2> QED BY <2>1, <2>3
<1> QED BY <1>2, <1>3

(* A step that leaves arrays, copies and messages alone. *)
LEMMA OwedKept ==
  ASSUME StacksTyped, OwedInArray, OwedInCopy, NEW t \in Threads, NEW m, Keeps(t, m),
         alive' \subseteq alive, UNCHANGED <<monitors, inbox, watched>>,
         \A i \in m + 1 .. Len(stack[t]) : stack[t][i].op # "monitors",
         \A i \in m + 1 .. Len(stack'[t]) : stack'[t][i].op # "monitors"
  PROVE  OwedInArray' /\ OwedInCopy'
<1>1. m \in Nat
  BY DEF Keeps
<1>2. ASSUME NEW a, Copied(a) PROVE Copied(a)'
  <2>0. PICK u \in Threads : \E i \in DOMAIN stack[u] :
                                stack[u][i].op = "monitors" /\ stack[u][i].who = a
    BY <1>2 DEF Copied
  <2>1. PICK i \in DOMAIN stack[u] : stack[u][i].op = "monitors" /\ stack[u][i].who = a
    BY <2>0
  <2>2. u # t \/ i <= m
    <3>1. u = t /\ ~(i <= m) => i \in m + 1 .. Len(stack[t])
      BY <1>1, KeptFrames
    <3> QED BY <2>1, <3>1
  <2>3. i \in DOMAIN stack'[u] /\ stack'[u][i] = stack[u][i]
    BY <2>2, KeptFrames
  <2> QED BY <2>1, <2>3 DEF Copied
<1>3. ASSUME NEW u \in Threads, NEW i \in DOMAIN stack'[u], stack'[u][i].op = "monitors"
      PROVE  i \in DOMAIN stack[u] /\ stack'[u][i] = stack[u][i]
  <2>1. u # t \/ i <= m
    <3>1. u = t /\ ~(i <= m) => i \in m + 1 .. Len(stack'[t])
      BY <1>1, KeptFrames
    <3> QED BY <1>3, <3>1
  <2> QED BY <2>1, KeptFrames
<1>4. OwedInArray'
  BY <1>2 DEF OwedInArray
<1>5. OwedInCopy'
  BY <1>3 DEF OwedInCopy
<1> QED BY <1>4, <1>5

(* A step that adds no link, kills nobody and drops no frame that warns. *)
LEMMA LinksKept ==
  ASSUME StacksTyped, LinksHold, NEW t \in Threads, NEW m, Keeps(t, m),
         UNCHANGED <<alive, result, links>>, loose \subseteq loose', trapped \subseteq trapped',
         \A i \in m + 1 .. Len(stack[t]) : \A b \in alive \ trapped' : \A a \in links[b] :
           Warns(stack[t][i], a, b) =>
             result[a] # "error" \/ \E j \in m + 1 .. Len(stack'[t]) : Warns(stack'[t][j], a, b)
  PROVE  LinksHold'
<1>1. m \in Nat
  BY DEF Keeps
<1> SUFFICES ASSUME NEW b \in alive, b \notin trapped', NEW a \in links[b],
                    {a, b} \notin loose, a \notin alive, result[a] = "error"
             PROVE  Warned(a, b)'
  BY DEF LinksHold
<1>0. PICK u \in Threads : \E i \in DOMAIN stack[u] : Warns(stack[u][i], a, b)
  BY DEF LinksHold, Warned
<1>2. PICK i \in DOMAIN stack[u] : Warns(stack[u][i], a, b)
  BY <1>0
<1>3. CASE u # t \/ i <= m
  <2>1. i \in DOMAIN stack'[u] /\ stack'[u][i] = stack[u][i]
    BY <1>3, KeptFrames
  <2> QED BY <1>2, <2>1 DEF Warned, Warns
<1>4. CASE u = t /\ ~(i <= m)
  <2>1. i \in m + 1 .. Len(stack[t])
    BY <1>1, <1>4, KeptFrames
  <2>2. PICK j \in m + 1 .. Len(stack'[t]) : Warns(stack'[t][j], a, b)
    BY <1>2, <1>4, <2>1
  <2>3. j \in DOMAIN stack'[t]
    BY <1>1, KeptFrames
  <2> QED BY <2>2, <2>3 DEF Warned, Warns
<1> QED BY <1>3, <1>4

LEMMA SameStacks ==
  ASSUME StacksTyped, NEW t \in Threads, UNCHANGED stack
  PROVE  Keeps(t, Len(stack[t])) /\ Len(stack'[t]) = Len(stack[t])
<1>1. Len(stack[t]) \in Nat
  BY StackFacts
<1>2. StacksTyped'
  BY DEF StacksTyped
<1> QED BY <1>1, <1>2 DEF Keeps

(* Steps of the primitives and of actor_exit_signal that kill nobody. *)
LEMMA IdleStep ==
  ASSUME ExitInv, NEW t \in Threads, NEW m, Keeps(t, m),
         UNCHANGED <<alive, result, monitors, inbox, watched>>,
         \A i \in m + 1 .. Len(stack[t]) : ~Obituary(stack[t][i]),
         \A i \in m + 1 .. Len(stack'[t]) : ~Obituary(stack'[t][i])
  PROVE  StacksTyped' /\ ResultOfDead' /\ Obituaries' /\ Owed'
<1>1. StacksTyped /\ Obituaries /\ ResultOfDead /\ ToBeCopied /\ OwedInArray /\ OwedInCopy
  BY DEF ExitInv, Owed
<1>2. ResultOfDead'
  BY <1>1 DEF ResultOfDead
<1>3. Obituaries'
  BY <1>1, ObituariesKept
<1>4. ToBeCopied'
  <2>1. \A i \in m + 1 .. Len(stack[t]) : stack[t][i].op # "notify"
    BY DEF Obituary
  <2> QED BY <1>1, <2>1, ToBeCopiedKept
<1>5. OwedInArray' /\ OwedInCopy'
  <2>1. /\ \A i \in m + 1 .. Len(stack[t]) : stack[t][i].op # "monitors"
        /\ \A i \in m + 1 .. Len(stack'[t]) : stack'[t][i].op # "monitors"
    BY DEF Obituary
  <2> QED BY <1>1, <2>1, OwedKept
<1> QED BY <1>2, <1>3, <1>4, <1>5 DEF Keeps, Owed

(* A thread kills an actor under its lock and is about to copy its arrays. *)
LEMMA DeathStep ==
  ASSUME ExitInv, NEW t \in Threads, NEW m, Keeps(t, m), NEW a \in alive, NEW r \in Reasons,
         Die(a, r), UNCHANGED <<links, monitors, inbox, ghosts>>,
         Len(stack'[t]) = m + 1, stack'[t][m + 1] = NotifyFrame(a),
         \A i \in m + 1 .. Len(stack[t]) : stack[t][i].op = "kill" /\ stack[t][i].who = a
  PROVE  StacksTyped' /\ ResultOfDead' /\ Obituaries' /\ Owed' /\ LinksHold'
<1>1. /\ StacksTyped /\ Obituaries /\ ResultOfDead /\ ToBeCopied /\ OwedInArray /\ OwedInCopy
      /\ LinksHold /\ alive \subseteq Actors /\ result \in [Actors -> Reasons \cup {"none"}]
      /\ links \in [Actors -> SUBSET Actors]
  BY DEF ExitInv, Owed, TypeOK
<1>2. alive' = alive \ {a} /\ result' = [result EXCEPT ![a] = r] /\ a \in Actors
  BY <1>1 DEF Die
<1>3. m \in Nat
  BY DEF Keeps
<1>4. stack'[t][m + 1].op = "notify" /\ stack'[t][m + 1].who = a
  BY <1>2, NewFrames
<1>5. \A i \in m + 1 .. Len(stack'[t]) : i = m + 1
  BY <1>3
<1>6. ResultOfDead'
  BY <1>1, <1>2 DEF ResultOfDead, Reasons
<1>7. Obituaries'
  BY <1>1, <1>2, <1>4, <1>5, ObituariesKept
<1>8. ToBeCopied'
  <2>1. \A i \in m + 1 .. Len(stack[t]) : stack[t][i].op # "notify"
    OBVIOUS
  <2> QED BY <1>1, <1>2, <1>4, <2>1, <1>3, ToBeCopiedKept
<1>9. OwedInArray' /\ OwedInCopy'
  <2>1. /\ \A i \in m + 1 .. Len(stack[t]) : stack[t][i].op # "monitors"
        /\ \A i \in m + 1 .. Len(stack'[t]) : stack'[t][i].op # "monitors"
    BY <1>4, <1>5
  <2> QED BY <1>1, <1>2, <2>1, OwedKept DEF ghosts
<1>10. ASSUME NEW b \in alive', b \notin trapped', NEW c \in links'[b], {b, c} \notin loose',
              ~(c \in alive' /\ b \in links'[c])
       PROVE  c \notin alive' /\ (result'[c] = "error" => Warned(c, b)')
  <2>1. /\ b \in alive /\ b # a /\ b \notin trapped /\ c \in links[b] /\ {c, b} \notin loose
        /\ links' = links /\ c \in Actors
    BY <1>1, <1>2, <1>10 DEF ghosts
  <2>2. CASE c = a
    <3>1. b \in links[a]
      BY <1>1, <2>1, <2>2 DEF LinksHold
    <3>2. m + 1 \in DOMAIN stack'[t]
      BY <1>1, <1>3, KeptFrames
    <3>3. Warned(a, b)'
      BY <1>4, <2>1, <3>1, <3>2 DEF Warned, Warns
    <3> QED BY <1>2, <2>2, <3>3
  <2>3. CASE c # a
    <3>1. c \notin alive /\ (result[c] = "error" => Warned(c, b))
      BY <1>1, <1>2, <1>10, <2>1, <2>3 DEF LinksHold
    <3>2. ASSUME Warned(c, b) PROVE Warned(c, b)'
      <4>0. PICK u \in Threads : \E i \in DOMAIN stack[u] : Warns(stack[u][i], c, b)
        BY <3>2 DEF Warned
      <4>1. PICK i \in DOMAIN stack[u] : Warns(stack[u][i], c, b)
        BY <4>0
      <4>2. u # t \/ i <= m
        <5>1. u = t /\ ~(i <= m) => i \in m + 1 .. Len(stack[t])
          BY <1>1, <1>3, KeptFrames
        <5> QED BY <2>1, <4>1, <5>1 DEF Warns
      <4>3. i \in DOMAIN stack'[u] /\ stack'[u][i] = stack[u][i]
        BY <1>1, <4>2, KeptFrames
      <4> QED BY <2>1, <4>1, <4>3 DEF Warned, Warns
    <3>3. result'[c] = result[c]
      BY <1>1, <1>2, <2>1, <2>3
    <3> QED BY <1>2, <3>1, <3>2, <3>3
  <2> QED BY <2>2, <2>3
<1>11. LinksHold'
  <2>1. \A b, c : {b, c} = {c, b}
    OBVIOUS
  <2> QED BY <1>10, <2>1 DEF LinksHold
<1> QED BY <1>6, <1>7, <1>8, <1>9, <1>11 DEF Keeps, Owed

-----------------------------------------------------------------------------
(* The primitives *)

LEMMA FinishKeeps ==
  ASSUME ExitInv, NEW t \in Threads, NEW c \in Actors, NEW r \in Reasons, Finish(t, c, r)
  PROVE  StacksTyped' /\ ResultOfDead' /\ Obituaries' /\ Owed' /\ LinksHold'
<1> DEFINE m == Len(stack[t])
<1>1. StacksTyped /\ c \in alive /\ Die(c, r) /\ UNCHANGED <<links, monitors, inbox, ghosts>>
  BY DEF ExitInv, Finish, Call
<1>2. Keeps(t, m) /\ Len(stack'[t]) = m + 1 /\ stack'[t][m + 1] = NotifyFrame(c)
  BY <1>1, NewFrames, PushKeeps DEF Finish
<1>3. m + 1 .. m = {}
  BY <1>1, StackFacts
<1> HIDE DEF m
<1>4. \A i \in m + 1 .. Len(stack[t]) : FALSE
  BY <1>3 DEF m
<1> QED BY <1>1, <1>2, <1>4, DeathStep

(* A primitive pushes a frame that is no obituary, or none. *)
LEMMA PrimitiveKeeps ==
  ASSUME StacksTyped, NEW t \in Threads,
         UNCHANGED stack \/ \E f \in Frames : ~Obituary(f) /\ Push(t, f)
  PROVE  /\ Keeps(t, Len(stack[t]))
         /\ \A i \in Len(stack[t]) + 1 .. Len(stack[t]) : FALSE
         /\ \A i \in Len(stack[t]) + 1 .. Len(stack'[t]) : ~Obituary(stack'[t][i])
<1>1. Len(stack[t]) \in Nat
  BY StackFacts
<1>2. CASE UNCHANGED stack
  BY <1>1, <1>2, SameStacks
<1>3. CASE \E f \in Frames : ~Obituary(f) /\ Push(t, f)
  <2>1. PICK f \in Frames : ~Obituary(f) /\ Push(t, f)
    BY <1>3
  <2>2. /\ Keeps(t, Len(stack[t])) /\ Len(stack'[t]) = Len(stack[t]) + 1
        /\ stack'[t][Len(stack[t]) + 1] = f
    BY <2>1, PushKeeps
  <2> QED BY <1>1, <2>1, <2>2
<1> QED BY <1>2, <1>3

LEMMA ExitLinkTrapKeep ==
  ASSUME ExitInv, NEW t \in Threads, NEW c \in Actors, NEW a \in Actors, NEW r \in Reasons,
         Exit(t, c, a, r) \/ Link(t, c, a) \/ TrapExit(t, c, TRUE) \/ TrapExit(t, c, FALSE)
  PROVE  StacksTyped' /\ ResultOfDead' /\ Obituaries' /\ Owed' /\ LinksHold'
<1> DEFINE m == Len(stack[t])
<1>1. StacksTyped /\ LinksHold
  BY DEF ExitInv
<1>2. /\ UNCHANGED <<alive, result, monitors, inbox, watched, links, loose>>
      /\ trapped \subseteq trapped'
  BY DEF Exit, Link, TrapExit, life, ghosts
<1>3. UNCHANGED stack \/ \E f \in Frames : ~Obituary(f) /\ Push(t, f)
  <2>1. CASE Exit(t, c, a, r)
    BY <2>1, NewFrames DEF Exit, Obituary
  <2>2. CASE Link(t, c, a)
    BY <2>2, NewFrames DEF Link, Obituary, Reasons
  <2> QED BY <2>1, <2>2 DEF TrapExit
<1>4. /\ Keeps(t, m)
      /\ \A i \in m + 1 .. Len(stack[t]) : FALSE
      /\ \A i \in m + 1 .. Len(stack'[t]) : ~Obituary(stack'[t][i])
  BY <1>1, <1>3, PrimitiveKeeps
<1> HIDE DEF m
<1>5. StacksTyped' /\ ResultOfDead' /\ Obituaries' /\ Owed'
  BY <1>2, <1>4, IdleStep
<1>6. LinksHold'
  BY <1>1, <1>2, <1>4, LinksKept
<1> QED BY <1>5, <1>6

LEMMA UnlinkKeeps ==
  ASSUME ExitInv, NEW t \in Threads, NEW c \in Actors, NEW a \in Actors, Unlink(t, c, a)
  PROVE  StacksTyped' /\ ResultOfDead' /\ Obituaries' /\ Owed' /\ LinksHold'
<1> DEFINE m == Len(stack[t])
<1>1. StacksTyped /\ LinksHold /\ links \in [Actors -> SUBSET Actors] /\ alive \subseteq Actors
  BY DEF ExitInv, TypeOK
<1>2. /\ UNCHANGED <<alive, result, monitors, inbox, watched, loose, trapped, stack>> /\ a # c
      /\ links' = [links EXCEPT ![c] = @ \ {a}, ![a] = @ \ {c}]
  BY DEF Unlink, life, ghosts
<1>3. /\ Keeps(t, m)
      /\ \A i \in m + 1 .. Len(stack[t]) : FALSE
      /\ \A i \in m + 1 .. Len(stack'[t]) : ~Obituary(stack'[t][i])
  BY <1>1, <1>2, PrimitiveKeeps
<1> HIDE DEF m
<1>4. StacksTyped' /\ ResultOfDead' /\ Obituaries' /\ Owed'
  BY <1>2, <1>3, IdleStep
<1>5. \A x \in Actors : links'[x] = IF x = c THEN links[c] \ {a}
                                    ELSE IF x = a THEN links[a] \ {c} ELSE links[x]
  BY <1>1, <1>2
<1>6. ASSUME NEW b \in alive, NEW x \in links'[b], b \in links[x]
      PROVE  x \in links[b] /\ b \in links'[x]
  BY <1>1, <1>2, <1>5, <1>6
<1>7. ASSUME NEW b \in alive, NEW x \in links'[b], Warned(x, b) PROVE Warned(x, b)'
  BY <1>2, <1>6, <1>7 DEF Warned, Warns
<1>8. ASSUME NEW b \in alive, NEW x \in links'[b] PROVE x \in links[b]
  BY <1>1, <1>5
<1>9. LinksHold'
  BY <1>1, <1>2, <1>6, <1>7, <1>8 DEF LinksHold
<1> QED BY <1>4, <1>9

LEMMA OneMore ==
  ASSUME NEW g \in [Actors -> [Actors -> Nat]], NEW c \in Actors, NEW a \in Actors,
         NEW h, h = [g EXCEPT ![c][a] = @ + 1]
  PROVE  /\ h \in [Actors -> [Actors -> Nat]] /\ h[c][a] = g[c][a] + 1
         /\ \A w, x \in Actors : w # c \/ x # a => h[w][x] = g[w][x]
<1>1. g[c] \in [Actors -> Nat] /\ h = [g EXCEPT ![c] = [g[c] EXCEPT ![a] = g[c][a] + 1]]
  OBVIOUS
<1>2. h[c] = [g[c] EXCEPT ![a] = g[c][a] + 1] /\ \A w \in Actors : w # c => h[w] = g[w]
  BY <1>1
<1> QED BY <1>1, <1>2

(* A living target gets an entry, of a dead one the watcher gets the :DOWN. *)
LEMMA MonitorKeeps ==
  ASSUME ExitInv, NEW t \in Threads, NEW c \in Actors, NEW a \in Actors, Monitor(t, c, a)
  PROVE  StacksTyped' /\ ResultOfDead' /\ Obituaries' /\ Owed' /\ LinksHold'
<1> DEFINE m == Len(stack[t])
           full == a \in alive /\ Len(monitors[a]) = MaxMonitors
<1>1. /\ StacksTyped /\ ResultOfDead /\ Obituaries /\ LinksHold /\ ToBeCopied /\ OwedInArray
      /\ OwedInCopy /\ alive \subseteq Actors /\ monitors \in [Actors -> Seq(Actors)]
      /\ \A x \in Actors : Len(monitors[x]) <= MaxMonitors
      /\ inbox \in [Actors -> [Actors -> Nat]] /\ watched \in [Actors -> [Actors -> Nat]]
  BY DEF ExitInv, TypeOK, Owed
<1>2. UNCHANGED <<alive, result, links, loose, trapped, stack>>
  BY DEF Monitor, life
<1>3. /\ Keeps(t, m)
      /\ \A i \in m + 1 .. Len(stack[t]) : FALSE
      /\ \A i \in m + 1 .. Len(stack'[t]) : ~Obituary(stack'[t][i])
  BY <1>1, <1>2, PrimitiveKeeps
<1> HIDE DEF m
<1>4. ResultOfDead'
  BY <1>1, <1>2 DEF ResultOfDead
<1>5. Obituaries'
  BY <1>1, <1>2, <1>3, ObituariesKept
<1>6. LinksHold'
  BY <1>1, <1>2, <1>3, LinksKept
<1>7. \A x \in Actors \ alive : monitors'[x] = monitors[x]
  BY <1>1 DEF Monitor
<1>8. ToBeCopied'
  BY <1>1, <1>2, <1>3, <1>7, ToBeCopiedKept
<1>9. \A x \in Actors : Copied(x)' <=> Copied(x)
  BY <1>2 DEF Copied
<1>10. a \in alive => ~Copied(a)
  BY <1>1 DEF Copied, Obituaries, ObituariesOfDead, Obituary
<1>11. \A w, x \in Actors : inbox[w][x] \in Nat /\ watched[w][x] \in Nat
  BY <1>1
<1>12. ASSUME NEW w \in Actors, NEW x \in Actors, <<w, x>> # <<c, a>>
       PROVE  inbox'[w][x] = inbox[w][x] /\ watched'[w][x] = watched[w][x]
  <2>1. inbox' = inbox \/ inbox' = [inbox EXCEPT ![c][a] = @ + 1]
    BY DEF Monitor, Down
  <2>2. watched' = watched \/ watched' = [watched EXCEPT ![c][a] = @ + 1]
    BY DEF Monitor
  <2>3. w # c \/ x # a
    BY <1>12
  <2>4. inbox'[w][x] = inbox[w][x]
    <3>1. CASE inbox' = inbox
      BY <3>1
    <3>2. CASE inbox' = [inbox EXCEPT ![c][a] = @ + 1]
      BY <1>1, <2>3, <3>2, OneMore
    <3> QED BY <2>1, <3>1, <3>2
  <2>5. watched'[w][x] = watched[w][x]
    <3>1. CASE watched' = watched
      BY <3>1
    <3>2. CASE watched' = [watched EXCEPT ![c][a] = @ + 1]
      BY <1>1, <2>3, <3>2, OneMore
    <3> QED BY <2>2, <3>1, <3>2
  <2> QED BY <2>4, <2>5
<1>13. CASE a \in alive /\ full
  <2>1. inbox' = inbox /\ watched' = watched /\ monitors' = monitors
    <3>1. ~(Len(monitors[a]) < MaxMonitors)
      BY <1>13, LimitAssumption
    <3>2. monitors' = [monitors EXCEPT ![a] = @]
      BY <1>13, <3>1 DEF Monitor
    <3> QED BY <1>1, <1>13, <3>2 DEF Monitor
  <2> QED BY <1>1, <1>2, <1>3, <1>4, <1>5, <1>6, <1>8, <2>1, OwedKept DEF Keeps, Owed
<1>14. CASE a \in alive /\ ~full
  <2>1. /\ inbox' = inbox /\ watched'[c][a] = watched[c][a] + 1
        /\ monitors' = [monitors EXCEPT ![a] = Append(@, c)]
    <3>1. Len(monitors[a]) \in Nat
      BY <1>1, LenProperties
    <3>2. Len(monitors[a]) < MaxMonitors
      BY <1>1, <1>14, <3>1, LimitAssumption
    <3>3. watched' = [watched EXCEPT ![c][a] = @ + 1]
      BY <1>14 DEF Monitor
    <3> QED BY <1>1, <1>14, <3>2, <3>3 DEF Monitor
  <2>2. \A w : Occ(monitors'[a], w) = Occ(monitors[a], w) + IF c = w THEN 1 ELSE 0
    BY <1>1, <2>1, OccAppend
  <2>3. \A w : Occ(monitors[a], w) \in Nat
    BY <1>1, OccType
  <2>4. ASSUME NEW w \in alive, NEW x \in Actors, ~Copied(x)
        PROVE  watched'[w][x] = inbox'[w][x] + Occ(monitors'[x], w)
    <3>1. watched[w][x] = inbox[w][x] + Occ(monitors[x], w)
      BY <1>1, <2>4 DEF OwedInArray
    <3>2. CASE x # a
      <4>1. monitors'[x] = monitors[x]
        BY <1>1, <2>1, <3>2
      <4>2. w \in Actors /\ <<w, x>> # <<c, a>>
        BY <1>1, <3>2
      <4> QED BY <3>1, <4>1, <4>2, <1>12
    <3>3. CASE x = a /\ w # c
      <4>1. Occ(monitors'[a], w) = Occ(monitors[a], w)
        BY <2>2, <2>3, <3>3
      <4>2. w \in Actors /\ <<w, x>> # <<c, a>>
        BY <1>1, <3>3
      <4> QED BY <3>1, <3>3, <4>1, <4>2, <1>12
    <3>4. CASE x = a /\ w = c
      <4>1. Occ(monitors'[a], c) = Occ(monitors[a], c) + 1
        BY <2>2
      <4>2. inbox'[c][a] = inbox[c][a] /\ inbox[c][a] \in Nat
        BY <1>11, <2>1
      <4>3. watched[c][a] = inbox[c][a] + Occ(monitors[a], c)
        BY <3>1, <3>4
      <4>4. watched'[c][a] = inbox'[c][a] + Occ(monitors'[a], c)
        BY <2>1, <2>3, <4>1, <4>2, <4>3, SMTT(30)
      <4> QED BY <3>4, <4>4
    <3> QED BY <3>2, <3>3, <3>4
  <2>5. OwedInArray'
    BY <1>2, <1>9, <2>4 DEF OwedInArray
  <2>6. OwedInCopy'
    <3> SUFFICES ASSUME NEW u \in Threads, NEW i \in DOMAIN stack[u],
                        stack[u][i].op = "monitors", NEW w \in alive
                 PROVE  watched'[w][stack[u][i].who]
                          = inbox'[w][stack[u][i].who] + Occ(stack[u][i].ids, w)
      BY <1>2 DEF OwedInCopy
    <3>1. stack[u][i].who # a
      BY <1>10, <1>14 DEF Copied
    <3>2. stack[u][i].who \in Actors
      BY <1>1, StackFacts, FrameFacts
    <3>3. w \in Actors /\ <<w, stack[u][i].who>> # <<c, a>>
      BY <1>1, <3>1
    <3>4. watched[w][stack[u][i].who] = inbox[w][stack[u][i].who] + Occ(stack[u][i].ids, w)
      BY <1>1 DEF OwedInCopy
    <3> QED BY <1>12, <3>2, <3>3, <3>4
  <2> QED BY <1>3, <1>4, <1>5, <1>6, <1>8, <2>5, <2>6 DEF Keeps, Owed
<1>15. CASE a \notin alive
  <2>1. /\ inbox'[c][a] = inbox[c][a] + 1 /\ watched'[c][a] = watched[c][a] + 1
        /\ monitors' = monitors
    <3>1. inbox' = [inbox EXCEPT ![c][a] = @ + 1] /\ watched' = [watched EXCEPT ![c][a] = @ + 1]
      BY <1>15 DEF Monitor, Down
    <3>2. monitors' = monitors
      BY <1>15 DEF Monitor
    <3> QED BY <1>1, <3>1, <3>2, OneMore
  <2>2. ASSUME NEW w \in Actors, NEW x \in Actors, NEW k \in Nat,
               watched[w][x] = inbox[w][x] + k
        PROVE  watched'[w][x] = inbox'[w][x] + k
    <3>1. CASE <<w, x>> # <<c, a>>
      BY <1>12, <2>2, <3>1
    <3>2. CASE w = c /\ x = a
      BY <1>11, <2>1, <2>2, <3>2
    <3> QED BY <3>1, <3>2
  <2>3. OwedInArray'
    <3>1. \A x \in Actors : \A w : Occ(monitors[x], w) \in Nat
      BY <1>1, OccType
    <3>2. ASSUME NEW w \in alive, NEW x \in Actors, ~Copied(x)
          PROVE  watched'[w][x] = inbox'[w][x] + Occ(monitors[x], w)
      <4>1. watched[w][x] = inbox[w][x] + Occ(monitors[x], w)
        BY <1>1, <3>2 DEF OwedInArray
      <4>2. PICK k : k = Occ(monitors[x], w)
        OBVIOUS
      <4>3. w \in Actors /\ k \in Nat /\ watched[w][x] = inbox[w][x] + k
        BY <1>1, <3>1, <4>1, <4>2
      <4>4. watched'[w][x] = inbox'[w][x] + k
        BY <2>2, <4>3
      <4> QED BY <4>2, <4>4
    <3> QED BY <1>2, <1>9, <2>1, <3>2 DEF OwedInArray
  <2>4. OwedInCopy'
    <3> SUFFICES ASSUME NEW u \in Threads, NEW i \in DOMAIN stack[u],
                        stack[u][i].op = "monitors", NEW w \in alive
                 PROVE  watched'[w][stack[u][i].who]
                          = inbox'[w][stack[u][i].who] + Occ(stack[u][i].ids, w)
      BY <1>2 DEF OwedInCopy
    <3>1. stack[u][i] \in Frames
      BY <1>1, StackFacts
    <3>2. stack[u][i].who \in Actors /\ stack[u][i].ids \in Seq(Actors)
      BY <3>1, FrameFacts DEF Obituary
    <3>3. Occ(stack[u][i].ids, w) \in Nat
      BY <3>2, OccType
    <3>4. watched[w][stack[u][i].who] = inbox[w][stack[u][i].who] + Occ(stack[u][i].ids, w)
      BY <1>1 DEF OwedInCopy
    <3> QED BY <1>1, <2>2, <3>2, <3>3, <3>4
  <2> QED BY <1>3, <1>4, <1>5, <1>6, <1>8, <2>3, <2>4 DEF Keeps, Owed
<1> QED BY <1>13, <1>14, <1>15

-----------------------------------------------------------------------------
(* actor_link and actor_exit_signal *)

LEMMA TopFacts ==
  ASSUME StacksTyped, NEW t \in Threads, NEW op, In(t, op)
  PROVE  /\ stack[t] # <<>> /\ Len(stack[t]) \in Nat /\ Len(stack[t]) >= 1
         /\ Len(stack[t]) \in DOMAIN stack[t] /\ Top(t) = stack[t][Len(stack[t])]
         /\ Top(t) \in Frames /\ Top(t).op = op /\ Top(t).who \in Actors
         /\ \A i \in (Len(stack[t]) - 1) + 1 .. Len(stack[t]) : i = Len(stack[t])
<1>1. stack[t] # <<>> /\ Top(t).op = op /\ Top(t) = stack[t][Len(stack[t])]
  BY DEF In, Top
<1>2. Len(stack[t]) \in Nat /\ Len(stack[t]) >= 1 /\ Top(t) \in Frames
      /\ DOMAIN stack[t] = 1 .. Len(stack[t])
  BY <1>1, StackFacts
<1> QED BY <1>1, <1>2, FrameFacts

(* A step that only takes a frame that is no obituary, or turns it into     *)
(* another such.                                                            *)
LEMMA TopIdle ==
  ASSUME StacksTyped, NEW t \in Threads, NEW op, In(t, op), op \in {"link", "signal", "kill"},
         Return(t) \/ \E f \in Frames : ~Obituary(f) /\ Replace(t, f)
  PROVE  /\ Keeps(t, Len(stack[t]) - 1)
         /\ \A i \in (Len(stack[t]) - 1) + 1 .. Len(stack[t]) :
              stack[t][i] = Top(t) /\ ~Obituary(stack[t][i])
         /\ \A i \in (Len(stack[t]) - 1) + 1 .. Len(stack'[t]) : ~Obituary(stack'[t][i])
<1>1. /\ stack[t] # <<>> /\ Len(stack[t]) \in Nat /\ Len(stack[t]) >= 1
      /\ Top(t) = stack[t][Len(stack[t])] /\ Top(t).op = op
      /\ \A i \in (Len(stack[t]) - 1) + 1 .. Len(stack[t]) : i = Len(stack[t])
  BY TopFacts
<1>2. ~Obituary(Top(t))
  BY <1>1 DEF Obituary
<1>3. CASE Return(t)
  <2>1. Keeps(t, Len(stack[t]) - 1) /\ Len(stack'[t]) = Len(stack[t]) - 1
    BY <1>1, <1>3, ReturnKeeps
  <2> QED BY <1>1, <1>2, <2>1
<1>4. CASE \E f \in Frames : ~Obituary(f) /\ Replace(t, f)
  <2>1. PICK f \in Frames : ~Obituary(f) /\ Replace(t, f)
    BY <1>4
  <2>2. /\ Keeps(t, Len(stack[t]) - 1) /\ Len(stack'[t]) = Len(stack[t])
        /\ stack'[t][Len(stack[t])] = f
    BY <1>1, <2>1, ReplaceKeeps
  <2> QED BY <1>1, <1>2, <2>1, <2>2
<1> QED BY <1>3, <1>4

LEMMA LinkBothKeeps ==
  ASSUME ExitInv, NEW t \in Threads, LinkBoth(t)
  PROVE  StacksTyped' /\ ResultOfDead' /\ Obituaries' /\ Owed' /\ LinksHold'
<1> DEFINE m == Len(stack[t]) - 1
           p == Top(t).from
           q == Top(t).who
<1>1. /\ StacksTyped /\ LinksHold /\ links \in [Actors -> SUBSET Actors] /\ alive \subseteq Actors
      /\ In(t, "link") /\ Return(t)
      /\ UNCHANGED <<alive, result, monitors, inbox, watched, trapped>>
  BY DEF ExitInv, TypeOK, LinkBoth, life
<1>2. /\ Top(t) \in Frames /\ Top(t).op = "link" /\ q \in Actors
      /\ Len(stack[t]) \in Nat /\ Len(stack[t]) >= 1
  BY <1>1, TopFacts
<1>3. p \in Actors
  BY <1>2, FrameFacts
<1>4. /\ Keeps(t, m)
      /\ \A i \in m + 1 .. Len(stack[t]) : stack[t][i] = Top(t) /\ ~Obituary(stack[t][i])
      /\ \A i \in m + 1 .. Len(stack'[t]) : ~Obituary(stack'[t][i])
  BY <1>1, TopIdle
<1>5. m \in Nat
  BY <1>2
<1>6. /\ links' = [links EXCEPT ![p] = Linked(p, q), ![q] = Linked(q, p)]
      /\ loose \subseteq loose'
      /\ \/ {p, q} \in loose'
         \/ {p, q} \subseteq alive /\ q \in Linked(p, q) /\ p \in Linked(q, p)
  BY DEF LinkBoth
<1> HIDE DEF m, p, q
<1>7. StacksTyped' /\ ResultOfDead' /\ Obituaries' /\ Owed'
  BY <1>1, <1>4, IdleStep
<1>8. /\ links[p] \subseteq Linked(p, q) /\ Linked(p, q) \subseteq links[p] \cup {q}
      /\ links[q] \subseteq Linked(q, p) /\ Linked(q, p) \subseteq links[q] \cup {p}
  BY DEF Linked
<1>9. \A x \in Actors : links'[x] = IF x = q THEN Linked(q, p)
                                    ELSE IF x = p THEN Linked(p, q) ELSE links[x]
  BY <1>1, <1>3, <1>2, <1>6
<1>10. \A x \in Actors : links[x] \subseteq links'[x]
  BY <1>8, <1>9
<1>11. ASSUME NEW a, NEW b, Warned(a, b) PROVE Warned(a, b)'
  <2>0. PICK u \in Threads : \E i \in DOMAIN stack[u] : Warns(stack[u][i], a, b)
    BY <1>11 DEF Warned
  <2>1. PICK i \in DOMAIN stack[u] : Warns(stack[u][i], a, b)
    BY <2>0
  <2>2. u # t \/ i <= m
    <3>1. u = t /\ ~(i <= m) => i \in m + 1 .. Len(stack[t])
      BY <1>1, <1>4, <1>5, KeptFrames
    <3> QED BY <1>4, <1>2, <2>1, <3>1 DEF Warns
  <2>3. i \in DOMAIN stack'[u] /\ stack'[u][i] = stack[u][i]
    BY <1>1, <1>4, <2>2, KeptFrames
  <2>4. stack[u][i].who \in Actors
    BY <1>1, StackFacts, FrameFacts
  <2>5. Warns(stack[u][i], a, b) => \/ /\ stack[u][i].op = "notify" /\ stack[u][i].who = a
                                       /\ b \in links'[a]
                                    \/ /\ stack[u][i].op \in {"monitors", "links"}
                                       /\ stack[u][i].who = a /\ b \in stack[u][i].linked
                                    \/ stack[u][i].op \in {"signal", "kill"} /\ stack[u][i].who = b
    BY <1>10, <2>4 DEF Warns
  <2> QED BY <2>1, <2>3, <2>5 DEF Warned, Warns
<1>12. ASSUME NEW b \in alive, b \notin trapped, NEW a \in links'[b], {a, b} \notin loose',
              ~(a \in alive /\ b \in links'[a])
       PROVE  a \notin alive /\ (result[a] = "error" => Warned(a, b)')
  <2>1. CASE a \in links[b]
    <3>1. a \in Actors /\ {a, b} \notin loose
      BY <1>1, <1>6, <1>12, <2>1
    <3>2. ~(a \in alive /\ b \in links[a])
      BY <1>10, <1>12, <3>1
    <3> QED BY <1>1, <1>11, <1>12, <2>1, <3>1, <3>2 DEF LinksHold
  <2>2. CASE a \notin links[b]
    <3>1. (b = q /\ a = p) \/ (b = p /\ a = q)
      BY <1>1, <1>8, <1>9, <1>12, <2>2
    <3>2. {a, b} = {p, q}
      BY <3>1
    <3>3. {p, q} \subseteq alive /\ q \in Linked(p, q) /\ p \in Linked(q, p)
      BY <1>6, <1>12, <3>2
    <3>4. b \in links'[a]
      BY <1>2, <1>3, <1>9, <3>1, <3>3
    <3> QED BY <1>12, <3>1, <3>3, <3>4
  <2> QED BY <2>1, <2>2
<1>13. LinksHold'
  BY <1>1, <1>12 DEF LinksHold
<1> QED BY <1>7, <1>13

LEMMA SignalKeeps ==
  ASSUME ExitInv, NEW t \in Threads,
         SignalEnds(t) \/ SignalKills(t) \/ (Kill(t) /\ Top(t).who \notin alive)
  PROVE  StacksTyped' /\ ResultOfDead' /\ Obituaries' /\ Owed' /\ LinksHold'
<1> DEFINE m == Len(stack[t]) - 1
<1>1. /\ StacksTyped /\ LinksHold /\ trap \subseteq trapped /\ alive \subseteq Actors
      /\ UNCHANGED <<alive, result, monitors, inbox, watched, links, trapped, loose>>
  BY DEF ExitInv, TypeOK, SignalEnds, SignalKills, Kill, life, ghosts
<1>2. PICK op \in {"signal", "kill"} : In(t, op)
  BY DEF SignalEnds, SignalKills, Kill
<1>3. /\ Top(t) \in Frames /\ Top(t).op = op /\ Len(stack[t]) \in Nat /\ Len(stack[t]) >= 1
      /\ stack[t] # <<>>
  BY <1>1, <1>2, TopFacts
<1>4. \/ Return(t) /\ (Top(t).who \notin alive \/ Top(t).who \in trap)
      \/ /\ op = "signal" /\ Replace(t, [Top(t) EXCEPT !.op = "kill"])
  BY <1>3 DEF SignalEnds, SignalKills, Kill, In
<1>5. op = "signal" => LET g == [Top(t) EXCEPT !.op = "kill"] IN
        g \in Frames /\ g.op = "kill" /\ g.who = Top(t).who
  BY <1>3, SignalBecomesKill
<1>6. Return(t) \/ \E f \in Frames : ~Obituary(f) /\ Replace(t, f)
  BY <1>4, <1>5 DEF Obituary
<1>7. /\ Keeps(t, m)
      /\ \A i \in m + 1 .. Len(stack[t]) : stack[t][i] = Top(t) /\ ~Obituary(stack[t][i])
      /\ \A i \in m + 1 .. Len(stack'[t]) : ~Obituary(stack'[t][i])
  BY <1>1, <1>2, <1>6, TopIdle
<1>8. StacksTyped' /\ ResultOfDead' /\ Obituaries' /\ Owed'
  <2> HIDE DEF m
  <2> QED BY <1>1, <1>7, IdleStep
<1>9. ASSUME NEW b \in alive \ trapped', NEW a \in links[b], Warns(Top(t), a, b)
      PROVE  \E j \in m + 1 .. Len(stack'[t]) : Warns(stack'[t][j], a, b)
  <2>1. Top(t).who = b
    BY <1>3, <1>9 DEF Warns
  <2>2. Replace(t, [Top(t) EXCEPT !.op = "kill"]) /\ op = "signal"
    BY <1>1, <1>4, <1>9, <2>1
  <2>3. /\ Len(stack'[t]) = Len(stack[t])
        /\ stack'[t][Len(stack[t])] = [Top(t) EXCEPT !.op = "kill"]
    BY <1>1, <1>3, <1>5, <2>2, ReplaceKeeps
  <2>4. m + 1 = Len(stack[t]) /\ m + 1 \in m + 1 .. Len(stack'[t])
    BY <1>3, <2>3
  <2> QED BY <1>5, <2>1, <2>2, <2>3, <2>4 DEF Warns
<1>10. LinksHold'
  <2> HIDE DEF m
  <2> QED BY <1>1, <1>7, <1>9, LinksKept
<1> QED BY <1>8, <1>10

LEMMA KillKeeps ==
  ASSUME ExitInv, NEW t \in Threads, Kill(t), Top(t).who \in alive
  PROVE  StacksTyped' /\ ResultOfDead' /\ Obituaries' /\ Owed' /\ LinksHold'
<1> DEFINE m == Len(stack[t]) - 1
<1>1. /\ StacksTyped /\ In(t, "kill") /\ Die(Top(t).who, Top(t).reason)
      /\ Replace(t, NotifyFrame(Top(t).who)) /\ UNCHANGED <<links, monitors, inbox, ghosts>>
  BY DEF ExitInv, Kill
<1>2. /\ stack[t] # <<>> /\ Len(stack[t]) \in Nat /\ Len(stack[t]) >= 1
      /\ Top(t) = stack[t][Len(stack[t])] /\ Top(t) \in Frames /\ Top(t).op = "kill"
      /\ Top(t).who \in Actors
      /\ \A i \in m + 1 .. Len(stack[t]) : i = Len(stack[t])
  BY <1>1, TopFacts
<1>3. NotifyFrame(Top(t).who) \in Frames /\ Top(t).reason \in Reasons
  BY <1>2, NewFrames, FrameFacts
<1>4. /\ Keeps(t, m) /\ Len(stack'[t]) = Len(stack[t])
      /\ stack'[t][Len(stack[t])] = NotifyFrame(Top(t).who)
  BY <1>1, <1>2, <1>3, ReplaceKeeps
<1>5. Len(stack'[t]) = m + 1 /\ stack'[t][m + 1] = NotifyFrame(Top(t).who)
  BY <1>2, <1>4
<1>6. \A i \in m + 1 .. Len(stack[t]) : stack[t][i].op = "kill" /\ stack[t][i].who = Top(t).who
  BY <1>2
<1> HIDE DEF m
<1> QED BY <1>1, <1>3, <1>4, <1>5, <1>6, DeathStep

-----------------------------------------------------------------------------
(* actor_notify_exit *)

(* Its steps take the innermost frame, an obituary, or put another stage of *)
(* it in its place; above it there may be a signal.                         *)
LEMMA TopObituary ==
  ASSUME ExitInv, NEW t \in Threads, NEW op \in {"notify", "monitors", "links"}, In(t, op)
  PROVE  /\ Top(t).who \in Actors \ alive
         /\ \A u \in Threads : \A i \in DOMAIN stack[u] :
              Obituary(stack[u][i]) /\ stack[u][i].who = Top(t).who
                => u = t /\ i = Len(stack[t])
<1>1. StacksTyped /\ ObituariesOfDead /\ OneObituary
  BY DEF ExitInv, Obituaries
<1>2. /\ Len(stack[t]) \in DOMAIN stack[t] /\ Top(t) = stack[t][Len(stack[t])]
      /\ Top(t).op = op /\ Top(t).who \in Actors
  BY <1>1, TopFacts
<1>3. Obituary(stack[t][Len(stack[t])])
  BY <1>2 DEF Obituary
<1> QED BY <1>1, <1>2, <1>3 DEF ObituariesOfDead, OneObituary

LEMMA TopReplaced ==
  ASSUME ExitInv, NEW t \in Threads, NEW op \in {"notify", "monitors", "links"}, In(t, op),
         NEW f \in Frames, Replace(t, f), Obituary(f), f.who = Top(t).who,
         UNCHANGED <<alive, result>>
  PROVE  /\ Keeps(t, Len(stack[t]) - 1) /\ Len(stack'[t]) = Len(stack[t])
         /\ stack'[t][Len(stack[t])] = f
         /\ StacksTyped' /\ ResultOfDead' /\ Obituaries'
<1>1. StacksTyped /\ Obituaries /\ ResultOfDead
  BY DEF ExitInv
<1>2. /\ stack[t] # <<>> /\ Len(stack[t]) \in Nat /\ Len(stack[t]) >= 1
      /\ Top(t) = stack[t][Len(stack[t])] /\ Top(t).op = op
  BY <1>1, TopFacts
<1>3. /\ Keeps(t, Len(stack[t]) - 1) /\ Len(stack'[t]) = Len(stack[t])
      /\ stack'[t][Len(stack[t])] = f
  BY <1>1, <1>2, ReplaceKeeps
<1>4. PICK m : m = Len(stack[t]) - 1
  OBVIOUS
<1>5. /\ m + 1 = Len(stack[t]) /\ Obituary(stack[t][m + 1]) /\ stack[t][m + 1].who = f.who
      /\ \A i \in m + 1 .. Len(stack'[t]) : i = m + 1
      /\ stack'[t][m + 1] = f /\ Keeps(t, m)
  BY <1>2, <1>3, <1>4 DEF Obituary
<1>6. Obituaries'
  BY <1>1, <1>5, ObituariesKept
<1>7. ResultOfDead'
  BY <1>1 DEF ResultOfDead
<1> QED BY <1>3, <1>6, <1>7 DEF Keeps

LEMMA CopyListsKeeps ==
  ASSUME ExitInv, NEW t \in Threads, CopyLists(t)
  PROVE  StacksTyped' /\ ResultOfDead' /\ Obituaries' /\ Owed' /\ LinksHold'
<1>0. PICK a : a = Top(t).who
  OBVIOUS
<1> DEFINE n == Len(stack[t])
           f == [op |-> "monitors", who |-> a, ids |-> monitors[a], linked |-> links[a]]
<1>1. /\ StacksTyped /\ OwedInArray /\ OwedInCopy /\ ToBeCopied /\ LinksHold
      /\ links \in [Actors -> SUBSET Actors] /\ monitors \in [Actors -> Seq(Actors)]
      /\ alive \subseteq Actors
  BY DEF ExitInv, Owed, TypeOK
<1>2. /\ In(t, "notify") /\ Replace(t, f)
      /\ UNCHANGED <<alive, result, inbox, watched, trapped, loose>>
      /\ monitors' = [monitors EXCEPT ![a] = <<>>] /\ links' = [links EXCEPT ![a] = {}]
  BY <1>0 DEF CopyLists, life, ghosts
<1>3. /\ n \in Nat /\ n >= 1 /\ n \in DOMAIN stack[t]
      /\ stack[t][n].op = "notify" /\ stack[t][n].who = a /\ a \in Actors
  BY <1>0, <1>1, <1>2, TopFacts
<1>4. /\ a \notin alive
      /\ \A u \in Threads : \A i \in DOMAIN stack[u] :
           Obituary(stack[u][i]) /\ stack[u][i].who = a => u = t /\ i = n
  BY <1>0, <1>2, TopObituary
<1>5. f \in Frames /\ Obituary(f) /\ f.who = Top(t).who
  BY <1>0, <1>1, <1>3, NewFrames DEF Obituary
<1>6. /\ Keeps(t, n - 1) /\ Len(stack'[t]) = n /\ stack'[t][n] = f
      /\ StacksTyped' /\ ResultOfDead' /\ Obituaries'
  BY <1>2, <1>5, TopReplaced
<1>7. stack'[t][n].op = "monitors" /\ stack'[t][n].who = a /\ stack'[t][n].ids = monitors[a]
      /\ stack'[t][n].linked = links[a]
  BY <1>6
<1> HIDE DEF n, f
<1>8. PICK m : m = n - 1
  OBVIOUS
<1>9. /\ Keeps(t, m) /\ m \in Nat /\ m + 1 = n
      /\ \A i \in m + 1 .. Len(stack[t]) : i = n
      /\ \A i \in m + 1 .. Len(stack'[t]) : i = n
  BY <1>3, <1>6, <1>8 DEF n
<1>10. \A u \in Threads : \A i \in DOMAIN stack[u] :
         \/ u = t /\ i = n
         \/ i \in DOMAIN stack'[u] /\ stack'[u][i] = stack[u][i]
  <2>1. ASSUME NEW u \in Threads, NEW i \in DOMAIN stack[u], ~(u = t /\ i = n)
        PROVE  u # t \/ i <= m
    <3>1. /\ DOMAIN stack[u] = 1 .. Len(stack[u]) /\ Len(stack[u]) \in Nat /\ m \in Nat
          /\ i \in DOMAIN stack[u]
      BY <1>1, <1>9, <2>1, KeptFrames
    <3>2. i \in Int /\ (i > m => i \in m + 1 .. Len(stack[u]))
      BY <3>1
    <3>3. u = t /\ i > m => i = n
      BY <3>2, <1>9
    <3> QED BY <2>1, <3>1, <3>2, <3>3
  <2> QED BY <1>1, <1>9, <2>1, KeptFrames
<1>11. \A u \in Threads : \A i \in DOMAIN stack'[u] :
         \/ u = t /\ i = n
         \/ i \in DOMAIN stack[u] /\ stack'[u][i] = stack[u][i]
  <2>1. ASSUME NEW u \in Threads, NEW i \in DOMAIN stack'[u], ~(u = t /\ i = n)
        PROVE  u # t \/ i <= m
    <3>1. /\ DOMAIN stack'[u] = 1 .. Len(stack'[u]) /\ Len(stack'[u]) \in Nat /\ m \in Nat
          /\ i \in DOMAIN stack'[u]
      BY <1>1, <1>9, <2>1, KeptFrames
    <3>2. i \in Int /\ (i > m => i \in m + 1 .. Len(stack'[u]))
      BY <3>1
    <3>3. u = t /\ i > m => i = n
      BY <3>2, <1>9
    <3> QED BY <2>1, <3>1, <3>2, <3>3
  <2> QED BY <1>1, <1>9, <2>1, KeptFrames
<1>12. n \in DOMAIN stack'[t]
  BY <1>1, <1>3, <1>6, <1>9, KeptFrames
<1>13. /\ monitors'[a] = <<>>
       /\ \A x \in Actors : x # a => monitors'[x] = monitors[x] /\ links'[x] = links[x]
  BY <1>1, <1>2, <1>3
<1>14. ToBeCopied'
  <2>1. \A i \in m + 1 .. Len(stack[t]) :
          stack[t][i].op = "notify" => monitors'[stack[t][i].who] = <<>>
    BY <1>3, <1>9, <1>13
  <2>2. \A x \in Actors \ alive : monitors'[x] \in {monitors[x], <<>>}
    BY <1>13
  <2> QED BY <1>1, <1>2, <1>9, <2>1, <2>2, ToBeCopiedKept
<1>15. ~Copied(a)
  BY <1>3, <1>4 DEF Copied, Obituary
<1>16. OwedInArray'
  <2>1. Copied(a)'
    BY <1>7, <1>12 DEF Copied
  <2>2. ASSUME NEW x \in Actors, x # a, Copied(x) PROVE Copied(x)'
    BY <1>3, <1>10, <2>2 DEF Copied
  <2>3. ASSUME NEW w \in alive, NEW x \in Actors, x # a
        PROVE  Copied(x)' \/ watched[w][x] = inbox[w][x] + Occ(monitors'[x], w)
    BY <1>1, <1>13, <2>2, <2>3 DEF OwedInArray
  <2> QED BY <1>2, <2>1, <2>3 DEF OwedInArray
<1>17. OwedInCopy'
  <2> SUFFICES ASSUME NEW u \in Threads, NEW i \in DOMAIN stack'[u],
                      stack'[u][i].op = "monitors", NEW w \in alive
               PROVE  watched[w][stack'[u][i].who]
                        = inbox[w][stack'[u][i].who] + Occ(stack'[u][i].ids, w)
    BY <1>2 DEF OwedInCopy
  <2>1. CASE u = t /\ i = n
    BY <1>1, <1>3, <1>7, <1>15, <2>1 DEF OwedInArray
  <2>2. CASE ~(u = t /\ i = n)
    BY <1>1, <1>11, <2>2 DEF OwedInCopy
  <2> QED BY <2>1, <2>2
<1>18. ASSUME NEW b \in alive, NEW x \in Actors, x \notin alive, Warned(x, b) PROVE Warned(x, b)'
  <2>0. PICK u \in Threads : \E i \in DOMAIN stack[u] : Warns(stack[u][i], x, b)
    BY <1>18 DEF Warned
  <2>1. PICK i \in DOMAIN stack[u] : Warns(stack[u][i], x, b)
    BY <2>0
  <2>2. CASE u = t /\ i = n
    <3>1. x = a /\ b \in links[a]
      BY <1>3, <2>1, <2>2 DEF Warns
    <3> QED BY <1>7, <1>12, <3>1 DEF Warned, Warns
  <2>3. CASE ~(u = t /\ i = n)
    <3>1. i \in DOMAIN stack'[u] /\ stack'[u][i] = stack[u][i]
      BY <1>10, <2>3
    <3>2. stack[u][i].op = "notify" => stack[u][i].who # a
      BY <1>4, <2>3 DEF Obituary
    <3> QED BY <1>13, <2>1, <3>1, <3>2 DEF Warned, Warns
  <2> QED BY <2>2, <2>3
<1>19. LinksHold'
  <2> SUFFICES ASSUME NEW b \in alive, b \notin trapped, NEW x \in links'[b], {x, b} \notin loose
               PROVE  \/ x \in alive /\ b \in links'[x]
                      \/ x \notin alive /\ (result[x] = "error" => Warned(x, b)')
    BY <1>2 DEF LinksHold
  <2>1. x \in links[b] /\ x \in Actors
    BY <1>1, <1>4, <1>13
  <2>2. x \in alive => links'[x] = links[x]
    BY <1>4, <1>13, <2>1
  <2> QED BY <1>1, <1>18, <2>1, <2>2 DEF LinksHold
<1> QED BY <1>6, <1>14, <1>16, <1>17, <1>19 DEF Owed

LEMMA MonitorStageKeeps ==
  ASSUME ExitInv, NEW t \in Threads, NotifyMonitor(t) \/ MonitorsDone(t)
  PROVE  StacksTyped' /\ ResultOfDead' /\ Obituaries' /\ Owed' /\ LinksHold'
<1>0. PICK a, ids, g : /\ a = Top(t).who /\ ids = Top(t).ids
                       /\ g = IF NotifyMonitor(t) THEN [Top(t) EXCEPT !.ids = Tail(@)]
                                                  ELSE [Top(t) EXCEPT !.op = "links"]
  OBVIOUS
<1> DEFINE n == Len(stack[t])
<1>1. /\ StacksTyped /\ OwedInArray /\ OwedInCopy /\ ToBeCopied /\ LinksHold
      /\ alive \subseteq Actors
      /\ inbox \in [Actors -> [Actors -> Nat]] /\ watched \in [Actors -> [Actors -> Nat]]
  BY DEF ExitInv, Owed, TypeOK
<1>2. /\ In(t, "monitors") /\ Replace(t, g)
      /\ UNCHANGED <<alive, result, links, monitors, watched, trapped, loose>>
      /\ NotifyMonitor(t) <=> ids # <<>>
      /\ MonitorsDone(t) => inbox' = inbox
  BY <1>0 DEF NotifyMonitor, MonitorsDone, life, ghosts
<1>3. /\ n \in Nat /\ n >= 1 /\ n \in DOMAIN stack[t] /\ Top(t) = stack[t][n] /\ Top(t) \in Frames
      /\ Top(t).op = "monitors" /\ a \in Actors
  BY <1>0, <1>1, <1>2, TopFacts
<1>4. /\ a \notin alive
      /\ \A u \in Threads : \A i \in DOMAIN stack[u] :
           Obituary(stack[u][i]) /\ stack[u][i].who = a => u = t /\ i = n
  BY <1>0, <1>2, TopObituary
<1>5. ids \in Seq(Actors)
  BY <1>0, <1>3, FrameFacts DEF Obituary
<1>6. /\ g \in Frames /\ g.who = a /\ g.linked = Top(t).linked
      /\ NotifyMonitor(t) => g.op = "monitors" /\ g.ids = Tail(ids)
      /\ ~NotifyMonitor(t) => g.op = "links"
  <2>1. CASE NotifyMonitor(t)
    <3>1. g = [Top(t) EXCEPT !.ids = Tail(@)] /\ ids # <<>>
      BY <1>0, <1>2, <2>1
    <3> QED BY <1>0, <1>3, <2>1, <3>1, MonitorTakenOff
  <2>2. CASE ~NotifyMonitor(t)
    <3>1. g = [Top(t) EXCEPT !.op = "links"]
      BY <1>0, <2>2
    <3> QED BY <1>0, <1>3, <2>2, <3>1, MonitorsBecomeLinks
  <2> QED BY <2>1, <2>2
<1>7. /\ Keeps(t, n - 1) /\ Len(stack'[t]) = n /\ stack'[t][n] = g
      /\ StacksTyped' /\ ResultOfDead' /\ Obituaries'
  <2>1. Obituary(g)
    BY <1>6 DEF Obituary
  <2> QED BY <1>0, <1>2, <1>6, <2>1, TopReplaced
<1> HIDE DEF n
<1>8. PICK m : m = n - 1
  OBVIOUS
<1>9. /\ Keeps(t, m) /\ m \in Nat /\ m + 1 = n
      /\ \A i \in m + 1 .. Len(stack[t]) : i = n
      /\ n \in m + 1 .. Len(stack'[t])
  BY <1>3, <1>7, <1>8 DEF n
<1>10. \A u \in Threads : \A i \in DOMAIN stack[u] :
         \/ u = t /\ i = n
         \/ i \in DOMAIN stack'[u] /\ stack'[u][i] = stack[u][i]
  <2>1. ASSUME NEW u \in Threads, NEW i \in DOMAIN stack[u], ~(u = t /\ i = n)
        PROVE  u # t \/ i <= m
    <3>1. /\ DOMAIN stack[u] = 1 .. Len(stack[u]) /\ Len(stack[u]) \in Nat /\ m \in Nat
          /\ i \in DOMAIN stack[u]
      BY <1>1, <1>9, <2>1, KeptFrames
    <3>2. i \in Int /\ (i > m => i \in m + 1 .. Len(stack[u]))
      BY <3>1
    <3>3. u = t /\ i > m => i = n
      BY <3>2, <1>9
    <3> QED BY <2>1, <3>1, <3>2, <3>3
  <2> QED BY <1>1, <1>9, <2>1, KeptFrames
<1>11. \A u \in Threads : \A i \in DOMAIN stack'[u] :
         \/ u = t /\ i = n
         \/ i \in DOMAIN stack[u] /\ stack'[u][i] = stack[u][i]
  <2>1. ASSUME NEW u \in Threads, NEW i \in DOMAIN stack'[u], ~(u = t /\ i = n)
        PROVE  u # t \/ i <= m
    BY <1>1, <1>7, <1>9, <2>1, KeptFrames
  <2> QED BY <1>1, <1>9, <2>1, KeptFrames
<1>12. n \in DOMAIN stack'[t]
  BY <1>1, <1>3, <1>7, <1>9, KeptFrames
<1>13. LinksHold'
  <2>1. \A b, x : Warns(Top(t), x, b) => Warns(g, x, b)
    BY <1>0, <1>3, <1>6 DEF Warns
  <2>2. \A i \in m + 1 .. Len(stack[t]) : \A b, x : Warns(stack[t][i], x, b) =>
          \E j \in m + 1 .. Len(stack'[t]) : Warns(stack'[t][j], x, b)
    BY <1>3, <1>7, <1>9, <2>1
  <2> QED BY <1>1, <1>2, <1>9, <2>2, LinksKept
<1>14. ToBeCopied'
  <2>1. \A i \in m + 1 .. Len(stack[t]) : stack[t][i].op # "notify"
    BY <1>3, <1>9
  <2> QED BY <1>1, <1>2, <1>9, <2>1, ToBeCopiedKept
<1>15. ASSUME NEW x \in Actors, x # a, Copied(x) PROVE Copied(x)'
  BY <1>0, <1>3, <1>10, <1>15 DEF Copied
<1>16. ASSUME NEW w \in Actors, NEW x \in Actors, x # a PROVE inbox'[w][x] = inbox[w][x]
  <2>1. CASE inbox' = inbox
    BY <2>1
  <2>2. CASE inbox' # inbox
    <3>1. ids[1] \in alive /\ inbox' = [inbox EXCEPT ![ids[1]][a] = @ + 1]
      BY <1>0, <1>2, <2>2 DEF NotifyMonitor, Down
    <3> QED BY <1>1, <1>3, <1>16, <3>1, OneMore
  <2> QED BY <2>1, <2>2
<1>17. \A w \in alive : watched[w][a] = inbox[w][a] + Occ(ids, w)
  BY <1>0, <1>1, <1>3 DEF OwedInCopy
<1>18. \A w : Occ(ids, w) \in Nat
  BY <1>5, OccType
<1>19. \A w \in alive : inbox[w][a] \in Nat /\ watched[w][a] \in Nat
  BY <1>1, <1>3
<1>20. ASSUME NEW w \in alive, NEW x \in Actors, x # a
       PROVE  Copied(x)' \/ watched[w][x] = inbox'[w][x] + Occ(monitors[x], w)
  BY <1>1, <1>15, <1>16, <1>20 DEF OwedInArray
<1>21. ASSUME NEW u \in Threads, NEW i \in DOMAIN stack'[u], ~(u = t /\ i = n),
              stack'[u][i].op = "monitors", NEW w \in alive
       PROVE  watched[w][stack'[u][i].who] = inbox'[w][stack'[u][i].who] + Occ(stack'[u][i].ids, w)
  <2>1. i \in DOMAIN stack[u] /\ stack'[u][i] = stack[u][i]
    BY <1>11, <1>21
  <2>2. stack[u][i].who # a
    BY <1>4, <1>21, <2>1 DEF Obituary
  <2>3. stack[u][i].who \in Actors
    BY <1>1, <2>1, StackFacts, FrameFacts
  <2> QED BY <1>1, <1>16, <1>21, <2>1, <2>2, <2>3 DEF OwedInCopy
<1>22. CASE NotifyMonitor(t)
  <2>1. /\ ids # <<>> /\ inbox' = IF ids[1] \in alive THEN [inbox EXCEPT ![ids[1]][a] = @ + 1] ELSE inbox
        /\ g.op = "monitors" /\ g.ids = Tail(ids)
    BY <1>0, <1>2, <1>6, <1>22 DEF NotifyMonitor, Down
  <2>2. ASSUME NEW w \in alive PROVE watched[w][a] = inbox'[w][a] + Occ(Tail(ids), w)
    <3>1. Occ(ids, w) = Occ(Tail(ids), w) + (IF ids[1] = w THEN 1 ELSE 0)
      BY <1>5, <2>1, OccTail
    <3>2. Occ(Tail(ids), w) \in Nat
      <4>1. Tail(ids) \in Seq(Actors)
        BY <1>5, <2>1, HeadTailProperties
      <4> QED BY <4>1, OccType
    <3>3. watched[w][a] = inbox[w][a] + Occ(ids, w) /\ inbox[w][a] \in Nat
      BY <1>17, <1>19
    <3>4. CASE ids[1] = w
      <4>1. inbox'[w][a] = inbox[w][a] + 1
        BY <1>1, <1>3, <2>1, <3>4, OneMore
      <4> QED BY <3>1, <3>2, <3>3, <3>4, <4>1
    <3>5. CASE ids[1] # w
      <4>1. inbox'[w][a] = inbox[w][a]
        BY <1>1, <1>3, <2>1, <3>5, OneMore
      <4> QED BY <3>1, <3>2, <3>3, <3>5, <4>1
    <3> QED BY <3>4, <3>5
  <2>3. Copied(a)'
    BY <1>6, <1>7, <1>12, <2>1 DEF Copied
  <2>4. OwedInArray'
    BY <1>2, <1>20, <2>3 DEF OwedInArray
  <2>5. OwedInCopy'
    <3>1. stack'[t][n].who = a /\ stack'[t][n].ids = Tail(ids)
      BY <1>6, <1>7, <2>1
    <3> QED BY <1>2, <1>21, <2>2, <3>1 DEF OwedInCopy
  <2> QED BY <1>7, <1>13, <1>14, <2>4, <2>5 DEF Owed
<1>23. CASE ~NotifyMonitor(t)
  <2>1. ids = <<>> /\ inbox' = inbox /\ stack'[t][n].op = "links"
    BY <1>2, <1>6, <1>7, <1>23
  <2>2. monitors[a] = <<>>
    <3>1. \A u \in Threads : \A i \in DOMAIN stack[u] :
            ~(stack[u][i].op = "notify" /\ stack[u][i].who = a)
      BY <1>3, <1>4 DEF Obituary
    <3> QED BY <1>1, <1>3, <1>4, <3>1 DEF ToBeCopied
  <2>3. \A w \in alive : watched[w][a] = inbox'[w][a] + Occ(monitors[a], w)
    BY <1>17, <2>1, <2>2
  <2>4. OwedInArray'
    BY <1>2, <1>20, <2>3 DEF OwedInArray
  <2>5. OwedInCopy'
    BY <1>2, <1>21, <2>1 DEF OwedInCopy
  <2> QED BY <1>7, <1>13, <1>14, <2>4, <2>5 DEF Owed
<1> QED BY <1>22, <1>23

LEMMA LinkStageKeeps ==
  ASSUME ExitInv, NEW t \in Threads, NotifyLink(t) \/ LinksDone(t)
  PROVE  StacksTyped' /\ ResultOfDead' /\ Obituaries' /\ Owed' /\ LinksHold'
<1>0. PICK a, n : a = Top(t).who /\ n = Len(stack[t])
  OBVIOUS
<1>1. /\ StacksTyped /\ Obituaries /\ ResultOfDead /\ OwedInArray /\ OwedInCopy /\ ToBeCopied
      /\ LinksHold /\ alive \subseteq Actors
      /\ UNCHANGED <<alive, result, links, monitors, inbox, watched, trapped, loose>>
  BY DEF ExitInv, Owed, TypeOK, NotifyLink, LinksDone, life, ghosts
<1>2. In(t, "links")
  BY DEF NotifyLink, LinksDone
<1>3. /\ n \in Nat /\ n >= 1 /\ n \in DOMAIN stack[t] /\ Top(t) = stack[t][n] /\ Top(t) \in Frames
      /\ Top(t).op = "links" /\ a \in Actors /\ stack[t] # <<>>
  BY <1>0, <1>1, <1>2, TopFacts
<1>4. PICK m : m = n - 1 /\ m \in Nat /\ m + 1 = n
  BY <1>3
<1>5. \A i \in m + 1 .. Len(stack[t]) : i = n
  BY <1>0, <1>4
<1>6. ASSUME Keeps(t, m),
             \A i \in m + 1 .. Len(stack'[t]) :
               \/ i = m + 1 /\ stack'[t][i].op = "links" /\ stack'[t][i].who = a
               \/ stack'[t][i].op = "signal",
             \A b \in alive \ trapped : Warns(Top(t), a, b) =>
               result[a] # "error" \/ \E j \in m + 1 .. Len(stack'[t]) : Warns(stack'[t][j], a, b)
      PROVE  StacksTyped' /\ ResultOfDead' /\ Obituaries' /\ Owed' /\ LinksHold'
  <2>1. ResultOfDead'
    BY <1>1 DEF ResultOfDead
  <2>2. Obituaries'
    <3>1. m + 1 <= Len(stack[t]) /\ Obituary(stack[t][m + 1]) /\ stack[t][m + 1].who = a
      BY <1>0, <1>3, <1>4 DEF Obituary
    <3>2. \A i \in m + 1 .. Len(stack'[t]) : Obituary(stack'[t][i]) =>
            i = m + 1 /\ stack'[t][m + 1].who = a
      BY <1>6 DEF Obituary
    <3> QED BY <1>1, <1>6, <3>1, <3>2, ObituariesKept
  <2>3. ToBeCopied'
    <3>1. \A i \in m + 1 .. Len(stack[t]) : stack[t][i].op # "notify"
      BY <1>3, <1>5
    <3> QED BY <1>1, <1>6, <3>1, ToBeCopiedKept
  <2>4. OwedInArray' /\ OwedInCopy'
    <3>1. /\ \A i \in m + 1 .. Len(stack[t]) : stack[t][i].op # "monitors"
          /\ \A i \in m + 1 .. Len(stack'[t]) : stack'[t][i].op # "monitors"
      BY <1>3, <1>5, <1>6
    <3> QED BY <1>1, <1>6, <3>1, OwedKept
  <2>5. LinksHold'
    <3>1. \A x, b : Warns(Top(t), x, b) => x = a
      BY <1>0, <1>3 DEF Warns
    <3>2. \A i \in m + 1 .. Len(stack[t]) : \A b \in alive \ trapped : \A x \in links[b] :
            Warns(stack[t][i], x, b) =>
              result[x] # "error" \/ \E j \in m + 1 .. Len(stack'[t]) : Warns(stack'[t][j], x, b)
      BY <1>3, <1>5, <1>6, <3>1
    <3> QED BY <1>1, <1>6, <3>2, LinksKept
  <2> QED BY <1>6, <2>1, <2>2, <2>3, <2>4, <2>5 DEF Keeps, Owed
<1>7. CASE LinksDone(t)
  <2>1. Return(t) /\ Top(t).linked = {}
    BY <1>7 DEF LinksDone
  <2>2. Keeps(t, m) /\ Len(stack'[t]) = m
    BY <1>0, <1>1, <1>3, <1>4, <2>1, ReturnKeeps
  <2>3. \A b : ~Warns(Top(t), a, b)
    BY <1>3, <2>1 DEF Warns
  <2>4. m + 1 .. Len(stack'[t]) = {}
    BY <1>4, <2>2
  <2> QED BY <1>6, <2>2, <2>3, <2>4
<1>8. CASE NotifyLink(t)
  <2>1. PICK b \in Top(t).linked :
          LET rest == [Top(t) EXCEPT !.linked = @ \ {b}] IN
          IF b \in alive /\ result[a] = "error"
          THEN stack' = [stack EXCEPT ![t] = Append([@ EXCEPT ![Len(@)] = rest],
                                                    [op |-> "signal", who |-> b, reason |-> "error"])]
          ELSE Replace(t, rest)
    BY <1>0, <1>8 DEF NotifyLink
  <2>2. PICK rest : rest = [Top(t) EXCEPT !.linked = @ \ {b}]
    OBVIOUS
  <2>3. /\ rest \in Frames /\ rest.op = "links" /\ rest.who = a
        /\ rest.linked = Top(t).linked \ {b}
    BY <1>0, <1>3, <2>2, LinkTakenOff
  <2>4. CASE b \in alive /\ result[a] = "error"
    <3>1. PICK sig : sig = [op |-> "signal", who |-> b, reason |-> "error"]
      OBVIOUS
    <3>2. sig \in Frames /\ sig.op = "signal" /\ sig.who = b
      BY <1>1, <2>4, <3>1, NewFrames DEF Reasons
    <3>3. PICK s : s = [stack[t] EXCEPT ![n] = rest]
      OBVIOUS
    <3>4. stack' = [stack EXCEPT ![t] = Append(s, sig)]
      BY <1>0, <1>1, <2>1, <2>2, <2>4, <3>1, <3>3 DEF StacksTyped
    <3>5. /\ s \in Seq(Frames) /\ Len(s) = n
          /\ \A j \in 1 .. n : s[j] = IF j = n THEN rest ELSE stack[t][j]
      <4>1. stack[t] \in Seq(Frames) /\ n \in 1 .. Len(stack[t])
        BY <1>0, <1>1, <1>3 DEF StacksTyped
      <4> QED BY <1>0, <2>3, <3>3, <4>1, ExceptSeq
    <3>6. PICK s2 : s2 = Append(s, sig)
      OBVIOUS
    <3>7. /\ s2 \in Seq(Frames) /\ Len(s2) = n + 1 /\ s2[n + 1] = sig
          /\ \A j \in 1 .. n : s2[j] = s[j]
      BY <3>2, <3>5, <3>6, AppendProperties
    <3>8. stack'[t] = s2 /\ (\A u \in Threads : u # t => stack'[u] = stack[u]) /\ StacksTyped'
      BY <1>1, <3>4, <3>6, <3>7 DEF StacksTyped
    <3>9. Keeps(t, m)
      <4>1. \A i \in 1 .. m : stack'[t][i] = stack[t][i]
        BY <1>4, <3>5, <3>7, <3>8
      <4> QED BY <1>0, <1>3, <1>4, <3>7, <3>8, <4>1 DEF Keeps
    <3>10. stack'[t][n] = rest /\ stack'[t][n + 1] = sig /\ Len(stack'[t]) = n + 1
      BY <1>3, <3>5, <3>7, <3>8
    <3>11. \A i \in m + 1 .. Len(stack'[t]) : i = n \/ i = n + 1
      BY <1>4, <1>3, <3>10
    <3>12. n \in m + 1 .. Len(stack'[t]) /\ n + 1 \in m + 1 .. Len(stack'[t])
      BY <1>4, <1>3, <3>10
    <3>13. \A c \in alive \ trapped : Warns(Top(t), a, c) =>
             \E j \in m + 1 .. Len(stack'[t]) : Warns(stack'[t][j], a, c)
      <4>1. ASSUME NEW c \in alive \ trapped, Warns(Top(t), a, c)
            PROVE  Warns(rest, a, c) \/ Warns(sig, a, c)
        BY <1>3, <2>3, <3>2, <4>1 DEF Warns
      <4> QED BY <3>10, <3>12, <4>1
    <3> QED BY <1>4, <1>6, <2>3, <3>2, <3>9, <3>10, <3>11, <3>13
  <2>5. CASE ~(b \in alive /\ result[a] = "error")
    <3>1. Replace(t, rest)
      BY <2>1, <2>2, <2>5
    <3>2. Keeps(t, m) /\ Len(stack'[t]) = n /\ stack'[t][n] = rest
      BY <1>0, <1>1, <1>3, <1>4, <2>3, <3>1, ReplaceKeeps
    <3>3. \A i \in m + 1 .. Len(stack'[t]) : i = n
      BY <1>4, <3>2
    <3>4. n \in m + 1 .. Len(stack'[t])
      BY <1>4, <1>3, <3>2
    <3>5. ASSUME NEW c \in alive \ trapped, Warns(Top(t), a, c), result[a] = "error"
          PROVE  Warns(rest, a, c)
      BY <1>3, <2>3, <2>5, <3>5 DEF Warns
    <3>6. \A c \in alive \ trapped : Warns(Top(t), a, c) =>
            result[a] # "error" \/ \E j \in m + 1 .. Len(stack'[t]) : Warns(stack'[t][j], a, c)
      BY <3>2, <3>4, <3>5
    <3> QED BY <1>4, <1>6, <2>3, <3>2, <3>3, <3>6
  <2> QED BY <2>4, <2>5
<1> QED BY <1>7, <1>8

-----------------------------------------------------------------------------
(* The types *)

LEMMA StackOps ==
  ASSUME StacksTyped, NEW t \in Threads, NEW i \in DOMAIN stack[t]
  PROVE  stack[t][i].op \in {"notify", "monitors", "links", "signal", "kill", "link"}
BY StackFacts, FrameFacts

(* What only the primitives set. *)
LEMMA CallTypes ==
  ASSUME TypeOK, NEW t \in Threads, NEW c \in Actors, Call(t, c)
  PROVE  calls' \in 0 .. MaxCalls /\ acting' \in [Threads -> Actors]
<1>1. calls \in Nat /\ calls < MaxCalls /\ calls' = calls + 1
  BY LimitAssumption DEF TypeOK, Call
<1> QED BY <1>1, LimitAssumption DEF TypeOK, Call

LEMMA DeathTypes ==
  ASSUME TypeOK, NEW a \in Actors, NEW r \in Reasons, Die(a, r)
  PROVE  /\ alive' \subseteq Actors /\ result' \in [Actors -> Reasons \cup {"none"}]
         /\ g_alive' \in Int
BY DEF TypeOK, Die

LEMMA MonitorTypes ==
  ASSUME TypeOK, NEW t \in Threads, NEW c \in Actors, NEW a \in Actors, Monitor(t, c, a)
  PROVE  /\ monitors' \in [Actors -> Seq(Actors)]
         /\ \A x \in Actors : Len(monitors'[x]) <= MaxMonitors
         /\ inbox' \in [Actors -> [Actors -> Nat]] /\ watched' \in [Actors -> [Actors -> Nat]]
<1>1. /\ monitors \in [Actors -> Seq(Actors)] /\ \A x \in Actors : Len(monitors[x]) <= MaxMonitors
      /\ inbox \in [Actors -> [Actors -> Nat]] /\ watched \in [Actors -> [Actors -> Nat]]
  BY DEF TypeOK
<1>2. /\ inbox' = inbox \/ inbox' = [inbox EXCEPT ![c][a] = @ + 1]
      /\ watched' = watched \/ watched' = [watched EXCEPT ![c][a] = @ + 1]
  BY DEF Monitor, Down
<1>3. inbox' \in [Actors -> [Actors -> Nat]] /\ watched' \in [Actors -> [Actors -> Nat]]
  <2>1. inbox' \in [Actors -> [Actors -> Nat]]
    <3>1. CASE inbox' = inbox
      BY <1>1, <3>1
    <3>2. CASE inbox' = [inbox EXCEPT ![c][a] = @ + 1]
      BY <1>1, <3>2, OneMore
    <3> QED BY <1>2, <3>1, <3>2
  <2>2. watched' \in [Actors -> [Actors -> Nat]]
    <3>1. CASE watched' = watched
      BY <1>1, <3>1
    <3>2. CASE watched' = [watched EXCEPT ![c][a] = @ + 1]
      BY <1>1, <3>2, OneMore
    <3> QED BY <1>2, <3>1, <3>2
  <2> QED BY <2>1, <2>2
<1>4. /\ Append(monitors[a], c) \in Seq(Actors) /\ Len(monitors[a]) \in Nat
      /\ Len(Append(monitors[a], c)) = Len(monitors[a]) + 1
  BY <1>1, AppendProperties, LenProperties
<1>5. CASE monitors' = monitors
  BY <1>1, <1>3, <1>5
<1>6. CASE monitors' # monitors
  <2>1. Len(monitors[a]) < MaxMonitors /\ monitors' = [monitors EXCEPT ![a] = Append(@, c)]
    BY <1>1, <1>6 DEF Monitor
  <2>2. monitors' \in [Actors -> Seq(Actors)]
    BY <1>1, <1>4, <2>1
  <2>3. ASSUME NEW x \in Actors PROVE Len(monitors'[x]) <= MaxMonitors
    <3>1. CASE x = a
      <4>1. monitors'[x] = Append(monitors[a], c)
        BY <1>1, <2>1, <3>1
      <4> QED BY <1>4, <2>1, <4>1, LimitAssumption
    <3>2. CASE x # a
      BY <1>1, <2>1, <3>2
    <3> QED BY <3>1, <3>2
  <2> QED BY <1>3, <2>2, <2>3
<1> QED BY <1>5, <1>6

LEMMA TypesKept ==
  ASSUME ExitInv, NEW t \in Threads, Primitive(t) \/ Propagate(t), StacksTyped'
  PROVE  TypeOK'
<1>1. TypeOK /\ StacksTyped
  BY DEF ExitInv
<1>2. (\A u \in Threads : \A i \in DOMAIN stack[u] :
         stack[u][i].op \in {"notify", "monitors", "links", "signal", "kill", "link"})'
  <2>1. ASSUME NEW u \in Threads, NEW i \in DOMAIN stack'[u] PROVE stack'[u][i] \in Frames
    <3>1. stack'[u] \in Seq(Frames)
      BY DEF StacksTyped
    <3>2. i \in 1 .. Len(stack'[u])
      BY <2>1, <3>1, LenProperties
    <3> QED BY <3>1, <3>2, ElementOfSeq
  <2> QED BY <2>1, FrameFacts
<1>3. CASE Primitive(t)
  <2>1. PICK c \in Actors :
             \/ \E r \in Reasons : Finish(t, c, r)
             \/ \E a \in Actors : Link(t, c, a) \/ Unlink(t, c, a) \/ Monitor(t, c, a)
             \/ \E a \in Actors, r \in Reasons : Exit(t, c, a, r)
             \/ \E on \in BOOLEAN : TrapExit(t, c, on)
    BY <1>3 DEF Primitive
  <2>2. Call(t, c)
    BY <2>1 DEF Finish, Link, Unlink, Monitor, Exit, TrapExit
  <2>3. calls' \in 0 .. MaxCalls /\ acting' \in [Threads -> Actors]
    BY <1>1, <2>2, CallTypes
  <2>4. ASSUME NEW r \in Reasons, Finish(t, c, r) PROVE TypeOK'
    <3>1. /\ alive' \subseteq Actors /\ result' \in [Actors -> Reasons \cup {"none"}]
          /\ g_alive' \in Int
      BY <1>1, <2>4, DeathTypes DEF Finish
    <3> QED BY <1>1, <1>2, <2>3, <2>4, <3>1 DEF TypeOK, Finish, ghosts
  <2>5. ASSUME NEW a \in Actors, Link(t, c, a) PROVE TypeOK'
    BY <1>1, <1>2, <2>3, <2>5 DEF TypeOK, Link, life, ghosts
  <2>6. ASSUME NEW a \in Actors, Unlink(t, c, a) PROVE TypeOK'
    <3>1. links' \in [Actors -> SUBSET Actors]
      BY <1>1, <2>6 DEF TypeOK, Unlink
    <3> QED BY <1>1, <1>2, <2>3, <2>6, <3>1 DEF TypeOK, Unlink, life, ghosts
  <2>7. ASSUME NEW a \in Actors, Monitor(t, c, a) PROVE TypeOK'
    <3>1. /\ monitors' \in [Actors -> Seq(Actors)]
          /\ \A x \in Actors : Len(monitors'[x]) <= MaxMonitors
          /\ inbox' \in [Actors -> [Actors -> Nat]] /\ watched' \in [Actors -> [Actors -> Nat]]
      BY <1>1, <2>7, MonitorTypes
    <3>2. UNCHANGED <<life, trap, links, trapped, loose>>
      BY <2>7 DEF Monitor
    <3> QED BY <1>1, <1>2, <2>3, <3>1, <3>2 DEF TypeOK, life
  <2>8. ASSUME NEW a \in Actors, NEW r \in Reasons, Exit(t, c, a, r) PROVE TypeOK'
    BY <1>1, <1>2, <2>3, <2>8 DEF TypeOK, Exit, life, ghosts
  <2>9. ASSUME NEW on \in BOOLEAN, TrapExit(t, c, on) PROVE TypeOK'
    <3>1. trap' \subseteq trapped' /\ trapped' \subseteq Actors
      BY <1>1, <2>9 DEF TypeOK, TrapExit
    <3> QED BY <1>1, <1>2, <2>3, <2>9, <3>1 DEF TypeOK, TrapExit, life
  <2> QED BY <2>1, <2>4, <2>5, <2>6, <2>7, <2>8, <2>9
<1>4. CASE Propagate(t)
  <2>1. UNCHANGED <<trap, trapped, watched, acting, calls>>
    BY <1>4 DEF Propagate, LinkBoth, SignalEnds, SignalKills, Kill, CopyLists, NotifyMonitor,
                MonitorsDone, NotifyLink, LinksDone, ghosts
  <2>2. CASE LinkBoth(t)
    <3>1. Top(t) \in Frames /\ Top(t).op = "link"
      BY <1>1, <2>2, TopFacts DEF LinkBoth
    <3>2. Top(t).who \in Actors /\ Top(t).from \in Actors
      BY <3>1, FrameFacts
    <3>3. /\ Linked(Top(t).who, Top(t).from) \in SUBSET Actors
          /\ Linked(Top(t).from, Top(t).who) \in SUBSET Actors
      <4>1. links[Top(t).who] \in SUBSET Actors /\ links[Top(t).from] \in SUBSET Actors
        BY <1>1, <3>2 DEF TypeOK
      <4> QED BY <3>2, <4>1 DEF Linked
    <3>4. links' \in [Actors -> SUBSET Actors]
      BY <1>1, <2>2, <3>3 DEF TypeOK, LinkBoth
    <3>5. loose' \subseteq SUBSET Actors
      BY <1>1, <2>2, <3>2 DEF TypeOK, LinkBoth
    <3> QED BY <1>1, <1>2, <2>1, <2>2, <3>4, <3>5 DEF TypeOK, LinkBoth, life
  <2>3. CASE SignalEnds(t) \/ SignalKills(t) \/ MonitorsDone(t) \/ NotifyLink(t) \/ LinksDone(t)
    <3>1. UNCHANGED <<alive, result, g_alive, links, monitors, inbox, loose>>
      BY <2>3 DEF SignalEnds, SignalKills, MonitorsDone, NotifyLink, LinksDone, life, ghosts
    <3> QED BY <1>1, <1>2, <2>1, <3>1 DEF TypeOK
  <2>4. CASE Kill(t)
    <3>1. Top(t) \in Frames /\ Top(t).op = "kill" /\ Top(t).who \in Actors
      BY <1>1, <2>4, TopFacts DEF Kill
    <3>2. Top(t).reason \in Reasons
      BY <3>1, FrameFacts
    <3>3. /\ alive' \subseteq Actors /\ result' \in [Actors -> Reasons \cup {"none"}]
          /\ g_alive' \in Int
      <4>1. CASE Top(t).who \in alive
        BY <1>1, <2>4, <3>1, <3>2, <4>1, DeathTypes DEF Kill
      <4>2. CASE Top(t).who \notin alive
        BY <1>1, <2>4, <4>2 DEF TypeOK, Kill, life
      <4> QED BY <4>1, <4>2
    <3>4. UNCHANGED <<links, monitors, inbox, loose>>
      BY <2>4 DEF Kill, ghosts
    <3> QED BY <1>1, <1>2, <2>1, <3>3, <3>4 DEF TypeOK
  <2>5. CASE CopyLists(t)
    <3>1. Top(t).who \in Actors
      BY <1>1, <2>5, TopFacts DEF CopyLists
    <3>2. <<>> \in Seq(Actors) /\ Len(<<>>) = 0
      BY EmptySeq
    <3>3. /\ monitors' \in [Actors -> Seq(Actors)] /\ links' \in [Actors -> SUBSET Actors]
          /\ \A x \in Actors : Len(monitors'[x]) <= MaxMonitors
      <4>1. /\ monitors' = [monitors EXCEPT ![Top(t).who] = <<>>]
            /\ links' = [links EXCEPT ![Top(t).who] = {}]
        BY <2>5 DEF CopyLists
      <4>2. monitors' \in [Actors -> Seq(Actors)] /\ links' \in [Actors -> SUBSET Actors]
        BY <1>1, <3>1, <3>2, <4>1 DEF TypeOK
      <4>3. \A x \in Actors : monitors'[x] \in {monitors[x], <<>>}
        BY <1>1, <4>1 DEF TypeOK
      <4> QED BY <1>1, <3>2, <4>2, <4>3, LimitAssumption DEF TypeOK
    <3>4. UNCHANGED <<alive, result, g_alive, inbox, loose>>
      BY <2>5 DEF CopyLists, life, ghosts
    <3> QED BY <1>1, <1>2, <2>1, <3>3, <3>4 DEF TypeOK
  <2>6. CASE NotifyMonitor(t)
    <3>1. UNCHANGED <<alive, result, g_alive, links, monitors, loose>>
      BY <2>6 DEF NotifyMonitor, life, ghosts
    <3>2. inbox' \in [Actors -> [Actors -> Nat]]
      <4>1. Top(t).who \in Actors
        BY <1>1, <2>6, TopFacts DEF NotifyMonitor
      <4>2. CASE inbox' = inbox
        BY <1>1, <4>2 DEF TypeOK
      <4>3. CASE inbox' # inbox
        <5>1. /\ Top(t).ids[1] \in alive
              /\ inbox' = [inbox EXCEPT ![Top(t).ids[1]][Top(t).who] = @ + 1]
          BY <2>6, <4>3 DEF NotifyMonitor, Down
        <5>2. Top(t).ids[1] \in Actors /\ inbox \in [Actors -> [Actors -> Nat]]
          BY <1>1, <5>1 DEF TypeOK
        <5> QED BY <4>1, <5>1, <5>2, OneMore
      <4> QED BY <4>2, <4>3
    <3> QED BY <1>1, <1>2, <2>1, <3>1, <3>2 DEF TypeOK
  <2> QED BY <1>4, <2>2, <2>3, <2>4, <2>5, <2>6 DEF Propagate
<1> QED BY <1>3, <1>4

-----------------------------------------------------------------------------
(* The theorems *)

LEMMA ExitInvInit == Init => ExitInv
<1> SUFFICES ASSUME Init PROVE ExitInv
  OBVIOUS
<1>1. \A t \in Threads : stack[t] = <<>> /\ stack[t] \in Seq(Frames) /\ DOMAIN stack[t] = {}
  <2>1. <<>> \in Seq(Frames) /\ DOMAIN <<>> = {}
    BY EmptySeq
  <2> QED BY <2>1 DEF Init
<1>2. StacksTyped
  BY <1>1 DEF Init, StacksTyped
<1>3. <<>> \in Seq(Actors) /\ Len(<<>>) = 0
  BY EmptySeq
<1>4. Cardinality(Actors) \in Nat
  BY ActorsFinite, FS_CardinalityType
<1>5. TypeOK
  BY <1>1, <1>3, <1>4, LimitAssumption DEF Init, TypeOK, Reasons
<1>6. ResultOfDead /\ Obituaries
  BY <1>1 DEF Init, ResultOfDead, Obituaries, ObituariesOfDead, OneObituary
<1>7. Owed
  BY <1>1, OccEmpty DEF Init, Owed, ToBeCopied, OwedInArray, OwedInCopy
<1>8. LinksHold
  BY DEF Init, LinksHold
<1> QED BY <1>2, <1>5, <1>6, <1>7, <1>8 DEF ExitInv

LEMMA ExitInvNext == ExitInv /\ [Next]_vars => ExitInv'
<1> SUFFICES ASSUME ExitInv, [Next]_vars PROVE ExitInv'
  OBVIOUS
<1> DEFINE Rest == StacksTyped' /\ ResultOfDead' /\ Obituaries' /\ Owed' /\ LinksHold'
<1>1. CASE UNCHANGED vars
  <2>1. TypeOK' /\ StacksTyped' /\ ResultOfDead'
    BY <1>1 DEF vars, ExitInv, TypeOK, StacksTyped, ResultOfDead
  <2>2. Obituaries'
    BY <1>1 DEF vars, ExitInv, Obituaries, ObituariesOfDead, OneObituary
  <2>3. Owed'
    BY <1>1 DEF vars, ExitInv, Owed, ToBeCopied, OwedInArray, OwedInCopy, Copied
  <2>4. LinksHold'
    BY <1>1 DEF vars, ExitInv, LinksHold, Warned, Warns
  <2> QED BY <2>1, <2>2, <2>3, <2>4 DEF ExitInv
<1>2. ASSUME NEW t \in Threads, Primitive(t) PROVE Rest
  <2>1. PICK c \in Actors :
             \/ \E r \in Reasons : Finish(t, c, r)
             \/ \E a \in Actors : Link(t, c, a) \/ Unlink(t, c, a) \/ Monitor(t, c, a)
             \/ \E a \in Actors, r \in Reasons : Exit(t, c, a, r)
             \/ \E on \in BOOLEAN : TrapExit(t, c, on)
    BY <1>2 DEF Primitive
  <2>2. ASSUME NEW r \in Reasons, Finish(t, c, r) PROVE Rest
    BY <2>2, FinishKeeps
  <2>3. ASSUME NEW a \in Actors, Unlink(t, c, a) PROVE Rest
    BY <2>3, UnlinkKeeps
  <2>4. ASSUME NEW a \in Actors, Monitor(t, c, a) PROVE Rest
    BY <2>4, MonitorKeeps
  <2>5. "error" \in Reasons
    BY DEF Reasons
  <2>6. ASSUME NEW a \in Actors, Link(t, c, a) PROVE Rest
    BY <2>5, <2>6, ExitLinkTrapKeep
  <2>7. ASSUME NEW a \in Actors, NEW r \in Reasons, Exit(t, c, a, r) PROVE Rest
    BY <2>7, ExitLinkTrapKeep
  <2>8. ASSUME NEW on \in BOOLEAN, TrapExit(t, c, on) PROVE Rest
    <3>1. TrapExit(t, c, TRUE) \/ TrapExit(t, c, FALSE)
      BY <2>8
    <3> QED BY <2>5, <3>1, ExitLinkTrapKeep
  <2> HIDE DEF Rest
  <2> QED BY <2>1, <2>2, <2>3, <2>4, <2>6, <2>7, <2>8
<1>3. ASSUME NEW t \in Threads, Propagate(t) PROVE Rest
  <2>1. CASE LinkBoth(t)
    BY <2>1, LinkBothKeeps
  <2>2. CASE SignalEnds(t) \/ SignalKills(t)
    BY <2>2, SignalKeeps
  <2>3. CASE Kill(t)
    BY <2>3, SignalKeeps, KillKeeps
  <2>4. CASE CopyLists(t)
    BY <2>4, CopyListsKeeps
  <2>5. CASE NotifyMonitor(t) \/ MonitorsDone(t)
    BY <2>5, MonitorStageKeeps
  <2>6. CASE NotifyLink(t) \/ LinksDone(t)
    BY <2>6, LinkStageKeeps
  <2> HIDE DEF Rest
  <2> QED BY <1>3, <2>1, <2>2, <2>3, <2>4, <2>5, <2>6 DEF Propagate
<1>4. ASSUME NEW t \in Threads, Primitive(t) \/ Propagate(t) PROVE ExitInv'
  <2>1. Rest
    <3> HIDE DEF Rest
    <3> QED BY <1>2, <1>3, <1>4
  <2>2. TypeOK'
    BY <1>4, <2>1, TypesKept
  <2> QED BY <2>1, <2>2 DEF ExitInv
<1> HIDE DEF Rest
<1> QED BY <1>1, <1>4 DEF Next

(* Types, stacks, results, obituaries, owed messages and links stay as the  *)
(* invariant says, whichever threads kill and whatever they call.           *)
THEOREM ExitInvariant == Spec => []ExitInv
BY ExitInvInit, ExitInvNext, PTL DEF Spec

(* actor_add_monitor and actor_notify_exit leave no gap: a living watcher   *)
(* has exactly one :DOWN for each monitor it set on an actor now dead, once *)
(* no thread is in a call, for any number of actors and threads.            *)
THEOREM NoMonitorForgotten == Spec => []DownExactlyOnce
<1>1. ExitInv => DownExactlyOnce
  <2> SUFFICES ASSUME ExitInv, Quiet, NEW w \in alive, NEW a \in Actors \ alive
               PROVE  inbox[w][a] = watched[w][a]
    BY DEF DownExactlyOnce
  <2>1. \A t \in Threads : DOMAIN stack[t] = {}
    BY DEF Quiet
  <2>2. monitors[a] = <<>>
    BY <2>1 DEF ExitInv, Owed, ToBeCopied
  <2>3. watched[w][a] = inbox[w][a] + Occ(monitors[a], w)
    BY <2>1 DEF ExitInv, Owed, OwedInArray, Copied
  <2>4. inbox[w][a] \in Nat
    BY DEF ExitInv, TypeOK
  <2> QED BY <2>2, <2>3, <2>4, OccEmpty
<1> QED BY <1>1, ExitInvariant, PTL

(* An error reaches every living actor linked to the one that died of it,   *)
(* however deaths cascade over the threads, save those that trapped exits   *)
(* and the links that prim_actor_link and actor_link leave loose.           *)
THEOREM ErrorsReachLinked == Spec => []LinksPropagate
<1>1. ExitInv => LinksPropagate
  <2> SUFFICES ASSUME ExitInv, Quiet, NEW b \in alive \ trapped, NEW a \in links[b],
                      result[a] = "error"
               PROVE  {a, b} \in loose
    BY DEF LinksPropagate
  <2>1. \A t \in Threads : DOMAIN stack[t] = {}
    BY DEF Quiet
  <2>2. ~Warned(a, b)
    BY <2>1 DEF Warned
  <2>3. a \in Actors /\ a \notin alive
    BY DEF ExitInv, TypeOK, ResultOfDead
  <2> QED BY <2>2, <2>3 DEF ExitInv, LinksHold
<1> QED BY <1>1, ExitInvariant, PTL


-----------------------------------------------------------------------------
(* Supervisors                                                              *)

(* The table: a child has one place and an id below the next one.           *)
Placed ==
  /\ child_ids \in Seq(1 .. created) /\ Len(child_ids) <= created
  /\ \A i, j \in DOMAIN child_ids : child_ids[i] = child_ids[j] => i = j

(* Who is alive, who died of an error and who was removed alive.            *)
Counted ==
  /\ errors \subseteq 1 .. created /\ removed \subseteq 1 .. created
  /\ sup_alive \cap errors = {} /\ sup_alive \cap removed = {}
  /\ S!CountDriftExplained

(* The two arrays say the same, whatever the threads are doing; those of a  *)
(* supervisor that is not dynamic are never written.                        *)
Restarts ==
  /\ S!Dynamic /\ mixed = "no" 
       => \A i \in DOMAIN child_ids : child_restart[i] = asked[child_ids[i]]
  /\ ~S!Dynamic => /\ \A i \in DOMAIN child_restart : child_restart[i] = "permanent"
                   /\ \A a \in S!Ids : asked[a] = "permanent"

(* The handlers that loop are those of the other strategies.                *)
Loops == \A t \in SupThreads :
  /\ pc[t] \in {"kill", "respawn"} => S!Strategy # "one_for_one" /\ index[t] >= 1
  /\ pc[t] \in {"kill", "respawn", "respawn_one"} => dead[t] \in 1 .. MaxSupChildren

TableInv == S!TypeOK /\ Placed /\ Counted /\ Restarts /\ Loops

(* The children the loops of thread t deal with.                            *)
Concerns(t, j) == S!Strategy = "one_for_all" \/ j >= dead[t]

(* What the only thread knows of the table while it handles an exit.        *)
Handling(t) ==
  /\ pc[t] \in {"normal", "handle"} => dead[t] \notin sup_alive
  /\ pc[t] = "normal" => dead[t] \notin errors
  /\ pc[t] \in {"kill", "respawn", "respawn_one"} => dead[t] \in DOMAIN child_ids
  /\ pc[t] = "respawn_one" => S!Strategy = "one_for_one" /\ child_ids[dead[t]] \notin sup_alive
  /\ pc[t] \in {"kill", "respawn"} => index[t] \in 1 .. Len(child_ids) + 1 /\ Concerns(t, index[t])
  /\ pc[t] = "kill" => \A j \in DOMAIN child_ids :
       j = dead[t] \/ (j < index[t] /\ Concerns(t, j)) => child_ids[j] \notin sup_alive
  /\ pc[t] = "respawn" => \A j \in DOMAIN child_ids : j >= index[t] => child_ids[j] \notin sup_alive

Spent == restart_count >= SupMaxRestarts \/ created = MaxActors

(* Thread t has still to replace child j.                                   *)
Replaces(t, j) ==
  \/ pc[t] = "handle" /\ child_ids[j] = dead[t]
  \/ pc[t] \in {"kill", "respawn_one"} /\ j = dead[t]
  \/ pc[t] = "respawn" /\ j = dead[t] /\ index[t] <= j

(* A child that died of an error is about to be replaced.                   *)
FailedKnown(t) ==
  Spent \/ \A j \in DOMAIN child_ids : child_ids[j] \in errors => Replaces(t, j)

Handled(t) == sup_alive \subseteq S!Children /\ Handling(t) /\ FailedKnown(t)

SupInv == TableInv /\ \A t \in SupThreads : Handled(t)

-----------------------------------------------------------------------------
(* The operators of Supervisor                                              *)

LEMMA SameCardinality == \A X : S!Cardinality(X) = Cardinality(X)
  BY DEF S!Cardinality, Cardinality

(* dynsup_remove_child_at and prim_sup_remove_child: the ids behind move up. *)
LEMMA RemovedAt ==
  ASSUME NEW T, NEW s \in Seq(T), NEW i \in 1 .. Len(s)
  PROVE  /\ S!RemoveAt(s, i) \in Seq(T) /\ Len(S!RemoveAt(s, i)) = Len(s) - 1
         /\ \A j \in 1 .. Len(s) - 1 : S!RemoveAt(s, i)[j] = IF j < i THEN s[j] ELSE s[j + 1]
<1> DEFINE front == SubSeq(s, 1, i - 1)
           back == SubSeq(s, i + 1, Len(s))
<1>1. i \in Nat /\ Len(s) \in Nat /\ i >= 1 /\ i <= Len(s)
  OBVIOUS
<1>2. front \in Seq(T) /\ Len(front) = i - 1 /\ \A j \in 1 .. i - 1 : front[j] = s[j]
  BY <1>1, SubSeqProperties
<1>3. back \in Seq(T) /\ Len(back) = Len(s) - i /\ \A j \in 1 .. Len(s) - i : back[j] = s[i + j]
  BY <1>1, SubSeqProperties
<1>4. S!RemoveAt(s, i) = front \o back
  BY DEF S!RemoveAt
<1> HIDE DEF front, back
<1>5. /\ front \o back \in Seq(T) /\ Len(front \o back) = Len(s) - 1
      /\ \A j \in 1 .. Len(s) - 1 : (front \o back)[j] = IF j <= i - 1 THEN front[j] ELSE back[j - (i - 1)]
  <2> DEFINE both == front \o back
  <2>1. /\ both \in Seq(T) /\ Len(both) = Len(front) + Len(back)
        /\ \A j \in 1 .. Len(front) + Len(back) :
             both[j] = IF j <= Len(front) THEN front[j] ELSE back[j - Len(front)]
    BY <1>2, <1>3, ConcatProperties
  <2> HIDE DEF both
  <2>2. Len(front) + Len(back) = Len(s) - 1
    BY <1>1, <1>2, <1>3
  <2>3. \A j \in 1 .. Len(s) - 1 : both[j] = IF j <= i - 1 THEN front[j] ELSE back[j - (i - 1)]
    BY <1>2, <2>1, <2>2
  <2> QED BY <2>1, <2>2, <2>3 DEF both
<1>6. ASSUME NEW j \in 1 .. Len(s) - 1
      PROVE  (front \o back)[j] = IF j < i THEN s[j] ELSE s[j + 1]
  <2>1. CASE j < i
    BY <2>1, <1>1, <1>2, <1>5
  <2>2. CASE ~(j < i)
    <3>1. j - (i - 1) \in 1 .. Len(s) - i /\ i + (j - (i - 1)) = j + 1
      BY <2>2, <1>1
    <3> QED BY <3>1, <2>2, <1>1, <1>3, <1>5
  <2> QED BY <2>1, <2>2
<1> QED BY <1>4, <1>5, <1>6

LEMMA IsChild == \A a : a \in S!Children <=> \E j \in DOMAIN child_ids : child_ids[j] = a
  BY DEF S!Children, S!Range

(* The loop that looks for a child's id finds its only place.               *)
LEMMA Found ==
  ASSUME Placed, NEW a
  PROVE  /\ a \notin S!Children => S!IndexOf(a) = 0
         /\ a \in S!Children => /\ S!IndexOf(a) \in DOMAIN child_ids
                                /\ child_ids[S!IndexOf(a)] = a
                                /\ S!IndexOf(a) > 0
<1>1. DOMAIN child_ids = 1 .. Len(child_ids) /\ Len(child_ids) \in Nat
  BY DEF Placed
<1>2. ASSUME a \in S!Children
      PROVE  S!IndexOf(a) \in DOMAIN child_ids /\ child_ids[S!IndexOf(a)] = a
  <2>1. PICK j \in DOMAIN child_ids : child_ids[j] = a
    BY <1>2, IsChild
  <2>2. {i \in 1 .. Len(child_ids) : child_ids[i] = a} = {j}
    BY <1>1, <2>1 DEF Placed
  <2>3. S!Min({j}) = j
    BY <1>1 DEF S!Min
  <2>4. S!IndexOf(a) = j
    BY <1>2, <2>2, <2>3 DEF S!IndexOf, S!SelectInSeq
  <2> QED BY <2>1, <2>4
<1>3. a \notin S!Children => S!IndexOf(a) = 0
  BY DEF S!IndexOf
<1> QED BY <1>1, <1>2, <1>3

-----------------------------------------------------------------------------
(* What a step does to the table and to the actors                          *)

(* A child is taken off the table. *)
LEMMA PlacedRemoved ==
  ASSUME Placed, NEW i \in DOMAIN child_ids, child_ids' = S!RemoveAt(child_ids, i),
         UNCHANGED created, created \in Nat
  PROVE  /\ Placed'
         /\ Len(child_ids') = Len(child_ids) - 1
         /\ \A j \in DOMAIN child_ids' : child_ids'[j] = IF j < i THEN child_ids[j] ELSE child_ids[j + 1]
         /\ S!Children' = S!Children \ {child_ids[i]}
<1>1. /\ child_ids \in Seq(1 .. created) /\ DOMAIN child_ids = 1 .. Len(child_ids)
      /\ Len(child_ids) \in Nat /\ i \in 1 .. Len(child_ids) /\ Len(child_ids) <= created
  BY DEF Placed
<1>2. /\ child_ids' \in Seq(1 .. created) /\ Len(child_ids') = Len(child_ids) - 1
      /\ \A j \in 1 .. Len(child_ids) - 1 :
           child_ids'[j] = IF j < i THEN child_ids[j] ELSE child_ids[j + 1]
  BY <1>1, RemovedAt
<1>3. DOMAIN child_ids' = 1 .. Len(child_ids) - 1
  BY <1>2
<1>4. Placed'
  <2>1. ASSUME NEW j \in DOMAIN child_ids', NEW k \in DOMAIN child_ids', child_ids'[j] = child_ids'[k]
        PROVE  j = k
    <3> DEFINE old(m) == IF m < i THEN m ELSE m + 1
    <3>1. ASSUME NEW m \in 1 .. Len(child_ids) - 1
          PROVE  old(m) \in DOMAIN child_ids /\ child_ids'[m] = child_ids[old(m)]
      <4>1. child_ids'[m] = IF m < i THEN child_ids[m] ELSE child_ids[m + 1]
        BY <1>2
      <4>2. m + 1 \in 1 .. Len(child_ids) /\ m \in 1 .. Len(child_ids)
        BY <1>1
      <4> QED BY <4>1, <4>2, <1>1
    <3>2. old(j) = old(k)
      BY <2>1, <3>1, <1>3, ZenonT(40) DEF Placed
    <3>3. j \in Int /\ k \in Int /\ i \in Int
      BY <1>1, <1>3
    <3>4. \A m, n \in Int : old(m) = old(n) => m = n
      BY <3>3
    <3> QED BY <3>2, <3>3, <3>4
  <2> QED BY <1>1, <1>2, <2>1 DEF Placed
<1>5. \A a : a \in S!Children' <=> \E j \in DOMAIN child_ids' : child_ids'[j] = a
  BY DEF S!Children, S!Range
<1>6. ASSUME NEW a, a \in S!Children' PROVE a \in S!Children \ {child_ids[i]}
  <2>1. PICK j \in DOMAIN child_ids' : child_ids'[j] = a
    BY <1>5, <1>6
  <2> DEFINE m == IF j < i THEN j ELSE j + 1
  <2>2. j \in 1 .. Len(child_ids) - 1 /\ child_ids'[j] = child_ids[m]
    BY <2>1, <1>2, <1>3
  <2>3. m \in DOMAIN child_ids /\ m # i
    BY <2>2, <1>1
  <2>4. m \in DOMAIN child_ids /\ child_ids[m] = a /\ m # i
    BY <2>1, <2>2, <2>3
  <2> QED BY <2>4, IsChild DEF Placed
<1>7. ASSUME NEW a \in S!Children, a # child_ids[i] PROVE a \in S!Children'
  <2>1. PICK m \in DOMAIN child_ids : child_ids[m] = a
    BY IsChild
  <2> DEFINE j == IF m < i THEN m ELSE m - 1
  <2>2. j \in DOMAIN child_ids' /\ child_ids'[j] = a
    BY <2>1, <1>1, <1>2, <1>3, <1>7
  <2> QED BY <2>2, <1>5
<1> QED BY <1>2, <1>3, <1>4, <1>6, <1>7

(* supervisor_spawn_child: a child is replaced. *)
LEMMA PlacedReplaced ==
  ASSUME Placed, NEW i \in DOMAIN child_ids, created \in Nat, created' = created + 1,
         child_ids' = [child_ids EXCEPT ![i] = created + 1]
  PROVE  /\ Placed' /\ DOMAIN child_ids' = DOMAIN child_ids /\ Len(child_ids') = Len(child_ids)
         /\ \A j \in DOMAIN child_ids : child_ids'[j] = IF j = i THEN created + 1 ELSE child_ids[j]
         /\ S!Children' = (S!Children \ {child_ids[i]}) \cup {created + 1}
<1>1. /\ child_ids \in Seq(1 .. created) /\ DOMAIN child_ids = 1 .. Len(child_ids)
      /\ Len(child_ids) \in Nat /\ Len(child_ids) <= created
      /\ \A j \in DOMAIN child_ids : child_ids[j] \in 1 .. created
  BY DEF Placed
<1>2. DOMAIN child_ids' = DOMAIN child_ids
      /\ \A j \in DOMAIN child_ids : child_ids'[j] = IF j = i THEN created + 1 ELSE child_ids[j]
  BY <1>1
<1>3. child_ids' \in [1 .. Len(child_ids) -> 1 .. created + 1]
  BY <1>1
<1>4. child_ids' \in Seq(1 .. created + 1) /\ Len(child_ids') = Len(child_ids)
  BY <1>1, <1>3
<1>5. Placed'
  BY <1>1, <1>2, <1>4, SMTT(30) DEF Placed
<1>6. \A a : a \in S!Children' <=> \E j \in DOMAIN child_ids' : child_ids'[j] = a
  BY DEF S!Children, S!Range
<1>7. ASSUME NEW a PROVE a \in S!Children' <=> a \in (S!Children \ {child_ids[i]}) \cup {created + 1}
  <2>1. ASSUME a \in S!Children' PROVE a \in (S!Children \ {child_ids[i]}) \cup {created + 1}
    BY <2>1, <1>2, <1>6, IsChild DEF Placed
  <2>2. ASSUME a \in S!Children, a # child_ids[i] PROVE a \in S!Children'
    BY <2>2, <1>2, <1>6, IsChild
  <2>3. created + 1 \in S!Children'
    BY <1>2, <1>6
  <2> QED BY <2>1, <2>2, <2>3
<1> QED BY <1>2, <1>4, <1>5, <1>7

(* A primitive adds a child. *)
LEMMA PlacedAdded ==
  ASSUME Placed, created \in Nat, created' = created + 1,
         child_ids' = Append(child_ids, created + 1)
  PROVE  /\ Placed' /\ DOMAIN child_ids' = DOMAIN child_ids \cup {Len(child_ids) + 1}
         /\ Len(child_ids') = Len(child_ids) + 1
         /\ child_ids'[Len(child_ids) + 1] = created + 1
         /\ \A j \in DOMAIN child_ids : child_ids'[j] = child_ids[j]
         /\ S!Children' = S!Children \cup {created + 1}
<1>1. /\ child_ids \in Seq(1 .. created) /\ DOMAIN child_ids = 1 .. Len(child_ids)
      /\ Len(child_ids) \in Nat /\ Len(child_ids) <= created
      /\ \A j \in DOMAIN child_ids : child_ids[j] \in 1 .. created
  BY DEF Placed
<1>2. child_ids \in Seq(1 .. created + 1) /\ created + 1 \in 1 .. created + 1
  <2>1. child_ids \in [1 .. Len(child_ids) -> 1 .. created + 1]
    BY <1>1
  <2> QED BY <1>1, <2>1
<1>3. /\ child_ids' \in Seq(1 .. created + 1) /\ Len(child_ids') = Len(child_ids) + 1
      /\ \A j \in 1 .. Len(child_ids) : child_ids'[j] = child_ids[j]
      /\ child_ids'[Len(child_ids) + 1] = created + 1
  BY <1>2, AppendProperties
<1>4. DOMAIN child_ids' = DOMAIN child_ids \cup {Len(child_ids) + 1}
  BY <1>1, <1>3
<1>5. Placed'
  BY <1>1, <1>3, <1>4 DEF Placed
<1>6. \A a : a \in S!Children' <=> \E j \in DOMAIN child_ids' : child_ids'[j] = a
  BY DEF S!Children, S!Range
<1>7. S!Children' = S!Children \cup {created + 1}
  BY <1>1, <1>3, <1>4, <1>6, IsChild
<1> QED BY <1>1, <1>3, <1>4, <1>5, <1>7

-----------------------------------------------------------------------------
(* The table and the counter, for any number of threads                     *)

LEMMA TableFacts ==
  ASSUME TableInv
  PROVE  /\ created \in 0 .. MaxActors /\ MaxActors \in Nat /\ MaxSupChildren \in Nat
         /\ child_ids \in Seq(1 .. created) /\ Len(child_ids) \in Nat
         /\ DOMAIN child_ids = 1 .. Len(child_ids)
         /\ Len(child_ids) <= created /\ Len(child_ids) <= MaxSupChildren
         /\ \A j \in DOMAIN child_ids : child_ids[j] \in 1 .. created /\ child_ids[j] \in S!Ids
         /\ S!Children \subseteq 1 .. created
<1>1. /\ created \in 0 .. MaxActors /\ MaxActors \in Nat /\ MaxSupChildren \in Nat
      /\ child_ids \in Seq(1 .. created) /\ Len(child_ids) \in Nat
      /\ DOMAIN child_ids = 1 .. Len(child_ids)
      /\ Len(child_ids) <= created /\ Len(child_ids) <= MaxSupChildren
  BY SupervisorAssumption DEF TableInv, S!TypeOK, Placed
<1>2. \A j \in DOMAIN child_ids : child_ids[j] \in 1 .. created /\ child_ids[j] \in S!Ids
  BY <1>1 DEF S!Ids
<1> QED BY <1>1, <1>2, IsChild

LEMMA AliveFinite ==
  ASSUME created \in Nat, sup_alive \subseteq 1 .. created, Counted
  PROVE  /\ IsFiniteSet(sup_alive) /\ IsFiniteSet(removed)
         /\ Cardinality(sup_alive) \in Nat /\ Cardinality(removed) \in Nat
         /\ sup_g_alive = Cardinality(sup_alive) + Cardinality(removed)
<1>1. IsFiniteSet(1 .. created)
  BY FS_Interval
<1>2. IsFiniteSet(sup_alive) /\ IsFiniteSet(removed)
  BY <1>1, FS_Subset DEF Counted
<1> QED BY <1>2, FS_CardinalityType, SameCardinality DEF Counted, S!CountDriftExplained

(* A death under the stripe lock: of a child at its end, or of a sibling.   *)
LEMMA CountedDeath ==
  ASSUME created \in Nat, sup_alive \subseteq 1 .. created, Counted, NEW a \in sup_alive,
         sup_alive' = sup_alive \ {a}, sup_g_alive' = sup_g_alive - 1,
         UNCHANGED <<created, removed>>, errors' \in {errors, errors \cup {a}}
  PROVE  Counted' /\ sup_alive' \subseteq 1 .. created'
<1>1. Cardinality(sup_alive') = Cardinality(sup_alive) - 1
  BY AliveFinite, FS_RemoveElement
<1>2. S!CountDriftExplained'
  BY <1>1, AliveFinite, SameCardinality DEF S!CountDriftExplained
<1> QED BY <1>2 DEF Counted

(* A primitive clears the flag of a child it removes. *)
LEMMA CountedQuietly ==
  ASSUME created \in Nat, sup_alive \subseteq 1 .. created, Counted, NEW a, S!KillQuietly(a)
  PROVE  Counted' /\ sup_alive' \subseteq 1 .. created'
<1>1. CASE a \in sup_alive
  <2>1. removed' = removed \cup {a} /\ sup_alive' = sup_alive \ {a} /\ a \notin removed
    BY <1>1 DEF S!KillQuietly, Counted
  <2>2. Cardinality(sup_alive') = Cardinality(sup_alive) - 1
    BY <1>1, <2>1, AliveFinite, FS_RemoveElement
  <2>3. Cardinality(removed') = Cardinality(removed) + 1
    BY <2>1, AliveFinite, FS_AddElement
  <2>4. S!CountDriftExplained'
    BY <2>2, <2>3, AliveFinite, SameCardinality DEF S!CountDriftExplained, S!KillQuietly
  <2> QED BY <1>1, <2>1, <2>4 DEF Counted, S!KillQuietly
<1>2. CASE a \notin sup_alive
  <2>1. removed' = removed /\ sup_alive' = sup_alive /\ UNCHANGED <<created, sup_g_alive, errors>>
    BY <1>2 DEF S!KillQuietly
  <2>2. S!CountDriftExplained'
    BY <2>1, AliveFinite, SameCardinality DEF S!CountDriftExplained
  <2> QED BY <2>1, <2>2 DEF Counted
<1> QED BY <1>1, <1>2

(* A child is created. *)
LEMMA CountedBorn ==
  ASSUME created \in Nat, sup_alive \subseteq 1 .. created, Counted, created' = created + 1,
         sup_alive' = sup_alive \cup {created + 1}, sup_g_alive' = sup_g_alive + 1,
         UNCHANGED <<removed, errors>>
  PROVE  Counted' /\ sup_alive' \subseteq 1 .. created'
<1>1. created + 1 \notin sup_alive
  OBVIOUS
<1>2. Cardinality(sup_alive') = Cardinality(sup_alive) + 1
  BY <1>1, AliveFinite, FS_AddElement
<1>3. S!CountDriftExplained'
  BY <1>2, AliveFinite, SameCardinality DEF S!CountDriftExplained
<1> QED BY <1>1, <1>3 DEF Counted

LEMMA CountedSame ==
  ASSUME Counted, UNCHANGED <<created, sup_alive, sup_g_alive, errors, removed>>
  PROVE  Counted'
<1>1. S!CountDriftExplained'
  BY SameCardinality DEF Counted, S!CountDriftExplained
<1> QED BY <1>1 DEF Counted

-----------------------------------------------------------------------------

(* The part of the types that belongs to the threads. *)
ThreadTypes ==
  /\ pc \in [SupThreads -> S!PC] /\ dead \in [SupThreads -> 0 .. MaxActors]
  /\ index \in [SupThreads -> 0 .. MaxSupChildren + 1] /\ kind \in Kinds

(* The part that belongs to the table. *)
TableTypes ==
  /\ child_ids \in Seq(S!Ids) /\ Len(child_ids) <= MaxSupChildren
  /\ child_restart \in [1 .. MaxSupChildren -> S!RestartTypes]
  /\ restart_count \in Nat /\ created \in 0 .. MaxActors
  /\ sup_alive \subseteq 1 .. created /\ sup_g_alive \in Int
  /\ removed \subseteq S!Ids /\ errors \subseteq S!Ids /\ asked \in [S!Ids -> S!RestartTypes]
  /\ mixed \in {"no", "yes"} /\ sup_calls \in 0 .. MaxSupCalls

LEMMA SupTypes == S!TypeOK <=> ThreadTypes /\ TableTypes
  BY DEF S!TypeOK, ThreadTypes, TableTypes

(* A step of thread t changes where it is and what it keeps there. *)
LEMMA ThreadMoves ==
  ASSUME TableInv, UNCHANGED kind, NEW t \in SupThreads,
         NEW p \in S!PC, NEW d \in 0 .. MaxActors, NEW x \in 0 .. MaxSupChildren + 1,
         pc' = [pc EXCEPT ![t] = p], dead' = [dead EXCEPT ![t] = d],
         index' = [index EXCEPT ![t] = x],
         p \in {"kill", "respawn"} => S!Strategy # "one_for_one" /\ x >= 1,
         p \in {"kill", "respawn", "respawn_one"} => d \in 1 .. MaxSupChildren
  PROVE  ThreadTypes' /\ Loops'
<1>1. ThreadTypes
  BY SupTypes DEF TableInv
<1>2. ThreadTypes'
  BY <1>1 DEF ThreadTypes
<1>3. S!Strategy' = S!Strategy
  BY DEF S!Strategy, S!Dynamic
<1>4. \A u \in SupThreads : /\ pc'[u] = IF u = t THEN p ELSE pc[u]
                            /\ dead'[u] = IF u = t THEN d ELSE dead[u]
                            /\ index'[u] = IF u = t THEN x ELSE index[u]
  BY <1>1 DEF ThreadTypes
<1>5. Loops'
  BY <1>3, <1>4 DEF TableInv, Loops
<1> QED BY <1>2, <1>5

(* supervisor_handle_exit returns. *)
LEMMA HandlerReturns ==
  ASSUME TableInv, UNCHANGED kind, NEW t \in SupThreads, S!HandlerDone(t)
  PROVE  ThreadTypes' /\ Loops'
<1>1. "idle" \in S!PC /\ 0 \in 0 .. MaxActors /\ 0 \in 0 .. MaxSupChildren + 1
  BY SupervisorAssumption DEF S!PC
<1> QED BY <1>1, ThreadMoves DEF S!HandlerDone, S!Goto

LEMMA ThreadStays ==
  ASSUME TableInv, UNCHANGED <<kind, pc, dead, index>>
  PROVE  ThreadTypes' /\ Loops'
<1>1. S!Strategy' = S!Strategy
  BY DEF S!Strategy, S!Dynamic
<1> QED BY <1>1, SupTypes DEF TableInv, ThreadTypes, Loops

(* What does not touch the table keeps the restart types. *)
LEMMA RestartsSame ==
  ASSUME TableInv, UNCHANGED <<kind, child_ids, child_restart, asked, mixed>>
  PROVE  Restarts'
  BY DEF TableInv, Restarts, S!Dynamic, S!Ids

LEMMA PlacedSame ==
  ASSUME Placed, UNCHANGED <<child_ids, created>> PROVE Placed'
  BY DEF Placed

(* Both arrays are shifted. *)
LEMMA Shifted ==
  ASSUME TableInv, UNCHANGED <<kind, created, asked, mixed>>, S!Dynamic,
         NEW i \in DOMAIN child_ids, S!ShiftBoth(i)
  PROVE  /\ Placed' /\ Restarts' /\ child_restart' \in [1 .. MaxSupChildren -> S!RestartTypes]
         /\ Len(child_ids') <= MaxSupChildren /\ S!Children' = S!Children \ {child_ids[i]}
<1>1. /\ Placed' /\ Len(child_ids') = Len(child_ids) - 1
      /\ \A j \in DOMAIN child_ids' : child_ids'[j] = IF j < i THEN child_ids[j] ELSE child_ids[j + 1]
      /\ S!Children' = S!Children \ {child_ids[i]}
  <2>1. created \in Nat /\ Placed /\ child_ids' = S!RemoveAt(child_ids, i)
    BY TableFacts DEF TableInv, S!ShiftBoth
  <2> QED BY <2>1, PlacedRemoved
<1>2. child_restart \in [1 .. MaxSupChildren -> S!RestartTypes]
  BY DEF TableInv, S!TypeOK
<1>3. \A j \in 1 .. MaxSupChildren :
        child_restart'[j] = IF i <= j /\ j < Len(child_ids) THEN child_restart[j + 1] ELSE child_restart[j]
  BY <1>2 DEF S!ShiftBoth
<1>4. child_restart' \in [1 .. MaxSupChildren -> S!RestartTypes]
  <2>1. \A j \in 1 .. MaxSupChildren : i <= j /\ j < Len(child_ids) => j + 1 \in 1 .. MaxSupChildren
    BY TableFacts
  <2>2. DOMAIN child_restart' = 1 .. MaxSupChildren
        /\ child_restart' = [j \in 1 .. MaxSupChildren |-> child_restart'[j]]
    BY <1>2 DEF S!ShiftBoth
  <2>3. \A j \in 1 .. MaxSupChildren : child_restart'[j] \in S!RestartTypes
    BY <1>2, <1>3, <2>1
  <2> QED BY <2>2, <2>3
<1>5. Restarts'
  <2>1. S!Dynamic' /\ mixed' = mixed
    BY DEF S!Dynamic
  <2>2. ASSUME mixed = "no", NEW j \in DOMAIN child_ids'
        PROVE  child_restart'[j] = asked'[child_ids'[j]]
    <3> DOMAIN child_ids' = 1 .. Len(child_ids) - 1
      <4>1. child_ids' \in Seq(1 .. created')
        BY <1>1 DEF Placed
      <4> QED BY <4>1, <1>1
    <3>1. /\ j \in 1 .. MaxSupChildren /\ j < Len(child_ids) /\ j \in Nat /\ i \in Nat
          /\ j \in DOMAIN child_ids /\ j + 1 \in DOMAIN child_ids
      BY TableFacts
    <3>2. \A k \in DOMAIN child_ids : child_restart[k] = asked[child_ids[k]]
      BY <2>2 DEF TableInv, Restarts
    <3>3. CASE j < i
      BY <3>1, <3>2, <3>3, <1>1, <1>3
    <3>4. CASE i <= j
      BY <3>1, <3>2, <3>4, <1>1, <1>3
    <3> QED BY <3>1, <3>3, <3>4
  <2> QED BY <2>1, <2>2 DEF Restarts
<1> QED BY <1>1, <1>4, <1>5, TableFacts

(* Steps that leave the table and the actors alone. *)
LEMMA TableUntouched ==
  ASSUME TableInv, ThreadTypes', Loops', restart_count' \in Nat,
         UNCHANGED <<kind, S!table, S!actors, S!history, sup_calls>>
  PROVE  TableInv'
<1>1. TableTypes' /\ S!TypeOK'
  BY SupTypes DEF TableInv, TableTypes, S!table, S!actors, S!history, S!TypeOK, ThreadTypes
<1>2. Placed' /\ Counted' /\ Restarts'
  BY PlacedSame, CountedSame, RestartsSame DEF TableInv, S!table, S!actors, S!history
<1> QED BY <1>1, <1>2 DEF TableInv

LEMMA ChildDiesKeeps ==
  ASSUME TableInv, UNCHANGED kind, NEW t \in SupThreads, NEW a \in S!Ids, NEW how,
         S!ChildDies(t, a, how)
  PROVE  TableInv'
<1> DEFINE p == IF how = "error" THEN "handle" ELSE "normal"
<1>1. p \in S!PC /\ p \notin {"kill", "respawn", "respawn_one"} /\ a \in 0 .. MaxActors
      /\ index[t] \in 0 .. MaxSupChildren + 1
  BY DEF S!PC, S!Ids, TableInv, S!TypeOK
<1>2. index' = [index EXCEPT ![t] = index[t]]
  BY DEF S!ChildDies, TableInv, S!TypeOK
<1>3. ThreadTypes' /\ Loops'
  BY <1>1, <1>2, ThreadMoves DEF S!ChildDies, S!Goto
<1>4. Placed' /\ Restarts'
  BY PlacedSame, RestartsSame DEF TableInv, S!ChildDies, S!table, S!history
<1>5. Counted' /\ sup_alive' \subseteq 1 .. created'
  <2>1. created \in Nat /\ sup_alive \subseteq 1 .. created /\ Counted
    BY DEF TableInv, S!TypeOK
  <2> QED BY <2>1, CountedDeath DEF S!ChildDies, S!history
<1>6. TableTypes'
  BY <1>5 DEF S!ChildDies, S!table, S!history, TableInv, S!TypeOK, TableTypes
<1> QED BY <1>3, <1>4, <1>5, <1>6, SupTypes DEF TableInv, S!TypeOK, ThreadTypes, TableTypes

(* A dynamic child leaves the table after its death. *)
LEMMA LeavesTable ==
  ASSUME TableInv, UNCHANGED <<kind, S!actors, S!history, restart_count, sup_calls>>,
         NEW t \in SupThreads, S!HandlerDone(t), S!Dynamic,
         NEW i \in DOMAIN child_ids, S!ShiftBoth(i)
  PROVE  TableInv'
<1>1. ThreadTypes' /\ Loops'
  BY HandlerReturns
<1>2. /\ Placed' /\ Restarts' /\ child_restart' \in [1 .. MaxSupChildren -> S!RestartTypes]
      /\ Len(child_ids') <= MaxSupChildren
  BY Shifted DEF S!actors, S!history
<1>3. Counted'
  BY CountedSame DEF TableInv, S!actors, S!history
<1>4. child_ids' \in Seq(S!Ids)
  BY RemovedAt, TableFacts DEF S!ShiftBoth, TableInv, S!TypeOK
<1>5. TableTypes'
  BY <1>2, <1>4 DEF TableInv, S!TypeOK, S!actors, S!history, TableTypes
<1> QED BY <1>1, <1>2, <1>3, <1>5, SupTypes DEF TableInv, S!TypeOK, ThreadTypes, TableTypes

LEMMA ExitHandledKeeps ==
  ASSUME TableInv, UNCHANGED kind, NEW t \in SupThreads,
         S!NormalExit(t) \/ S!HandleNothing(t) \/ S!HandleTemporary(t) \/ S!RespawnsDone(t)
  PROVE  TableInv'
<1> DEFINE i == S!IndexOf(dead[t])
<1>1. S!HandlerDone(t) /\ UNCHANGED <<S!actors, S!history, restart_count, sup_calls>>
  BY DEF S!NormalExit, S!HandleNothing, S!HandleTemporary, S!RespawnsDone
<1>2. CASE UNCHANGED S!table
  <2>1. restart_count' \in Nat
    BY <1>1 DEF TableInv, S!TypeOK
  <2> QED BY <1>1, <1>2, <2>1, HandlerReturns, TableUntouched
<1>3. CASE S!Dynamic /\ i > 0 /\ S!ShiftBoth(i)
  <2>1. i \in DOMAIN child_ids
    BY <1>3, Found DEF TableInv
  <2> QED BY <1>1, <1>3, <2>1, LeavesTable
<1> QED BY <1>2, <1>3 DEF S!NormalExit, S!HandleNothing, S!HandleTemporary, S!RespawnsDone

LEMMA HandleRestartKeeps ==
  ASSUME TableInv, UNCHANGED kind, NEW t \in SupThreads, S!HandleRestart(t)
  PROVE  TableInv'
<1> DEFINE i == S!IndexOf(dead[t])
           p == IF S!Strategy = "one_for_one" THEN "respawn_one" ELSE "kill"
           x == CASE S!Strategy = "one_for_one" -> index[t]
                  [] S!Strategy = "one_for_all" -> 1
                  [] OTHER -> i + 1
<1>1. i > 0
  BY DEF S!HandleRestart
<1>2. i \in DOMAIN child_ids
  BY <1>1, Found DEF TableInv
<1>3. i \in 0 .. MaxActors /\ i \in 1 .. MaxSupChildren /\ i + 1 \in 0 .. MaxSupChildren + 1
      /\ i >= 1 /\ 1 \in 0 .. MaxSupChildren + 1
  BY <1>2, TableFacts
<1>4. index[t] \in 0 .. MaxSupChildren + 1 /\ index = [index EXCEPT ![t] = index[t]]
  BY DEF TableInv, S!TypeOK
<1>5. dead' = [dead EXCEPT ![t] = i] /\ pc' = [pc EXCEPT ![t] = p]
  BY DEF S!HandleRestart, S!Goto
<1>6. index' = [index EXCEPT ![t] = x] /\ x \in 0 .. MaxSupChildren + 1
      /\ (S!Strategy # "one_for_one" => x >= 1)
  <2> HIDE DEF i
  <2>1. CASE S!Strategy = "one_for_one"
    BY <2>1, <1>4 DEF S!HandleRestart
  <2>2. CASE S!Strategy = "one_for_all"
    BY <2>2, <1>3 DEF S!HandleRestart
  <2>3. CASE S!Strategy \notin {"one_for_one", "one_for_all"}
    BY <2>3, <1>3 DEF S!HandleRestart, i
  <2> QED BY <2>1, <2>2, <2>3
<1>7. p \in S!PC /\ (p \in {"kill", "respawn"} => S!Strategy # "one_for_one")
  BY DEF S!PC
<1> HIDE DEF i, p, x
<1>8. ThreadTypes' /\ Loops'
  BY <1>3, <1>5, <1>6, <1>7, ThreadMoves
<1>9. restart_count' \in Nat
  BY DEF S!HandleRestart, TableInv, S!TypeOK
<1> QED BY <1>8, <1>9, TableUntouched DEF S!HandleRestart

LEMMA KillSiblingKeeps ==
  ASSUME TableInv, UNCHANGED kind, NEW t \in SupThreads, S!KillSibling(t)
  PROVE  TableInv'
<1>1. /\ pc[t] = "kill" /\ index[t] <= Len(child_ids) /\ index[t] >= 1
      /\ S!Strategy # "one_for_one" /\ dead[t] \in 1 .. MaxSupChildren
      /\ index[t] \in 0 .. MaxSupChildren + 1 /\ dead[t] \in 0 .. MaxActors
  BY DEF S!KillSibling, TableInv, Loops, S!TypeOK
<1>2. index[t] + 1 \in 0 .. MaxSupChildren + 1 /\ index[t] + 1 >= 1
  BY <1>1, TableFacts
<1>3. /\ pc' = [pc EXCEPT ![t] = "kill"] /\ dead' = [dead EXCEPT ![t] = dead[t]]
      /\ index' = [index EXCEPT ![t] = index[t] + 1] /\ "kill" \in S!PC
  BY <1>1 DEF S!KillSibling, TableInv, S!TypeOK, S!PC
<1>4. ThreadTypes' /\ Loops'
  BY <1>1, <1>2, <1>3, ThreadMoves
<1>5. Placed' /\ Restarts'
  BY PlacedSame, RestartsSame DEF TableInv, S!KillSibling, S!table, S!history
<1>6. Counted' /\ sup_alive' \subseteq 1 .. created'
  <2>1. created \in Nat /\ sup_alive \subseteq 1 .. created /\ Counted
    BY DEF TableInv, S!TypeOK
  <2>2. CASE index[t] # dead[t] /\ child_ids[index[t]] \in sup_alive
    BY <2>1, <2>2, CountedDeath DEF S!KillSibling, S!history
  <2>3. CASE ~(index[t] # dead[t] /\ child_ids[index[t]] \in sup_alive)
    BY <2>1, <2>3, CountedSame DEF S!KillSibling, S!history
  <2> QED BY <2>2, <2>3
<1>7. TableTypes'
  BY <1>6 DEF S!KillSibling, S!table, S!history, TableInv, S!TypeOK, TableTypes
<1> QED BY <1>4, <1>5, <1>6, <1>7, SupTypes DEF TableInv, S!TypeOK, ThreadTypes, TableTypes

LEMMA KillsDoneKeeps ==
  ASSUME TableInv, UNCHANGED kind, NEW t \in SupThreads, S!KillsDone(t)
  PROVE  TableInv'
<1> DEFINE x == IF S!Strategy = "one_for_all" THEN 1 ELSE dead[t]
<1>1. /\ pc[t] = "kill" /\ S!Strategy # "one_for_one" /\ dead[t] \in 1 .. MaxSupChildren
      /\ index[t] \in 0 .. MaxSupChildren + 1 /\ dead[t] \in 0 .. MaxActors
  BY DEF S!KillsDone, TableInv, Loops, S!TypeOK
<1>2. x \in 0 .. MaxSupChildren + 1 /\ x >= 1
  BY <1>1, SupervisorAssumption
<1>3. /\ pc' = [pc EXCEPT ![t] = "respawn"] /\ dead' = [dead EXCEPT ![t] = dead[t]]
      /\ index' = [index EXCEPT ![t] = x] /\ "respawn" \in S!PC
  BY DEF S!KillsDone, S!Goto, TableInv, S!TypeOK, S!PC
<1> HIDE DEF x
<1>4. ThreadTypes' /\ Loops'
  BY <1>1, <1>2, <1>3, ThreadMoves
<1>5. restart_count' \in Nat
  BY DEF S!KillsDone, TableInv, S!TypeOK
<1> QED BY <1>4, <1>5, TableUntouched DEF S!KillsDone

(* supervisor_spawn_child in the place of child i; the actor table may be   *)
(* full.                                                                    *)
LEMMA SpawnKeeps ==
  ASSUME TableInv, NEW i \in DOMAIN child_ids, S!Spawn(child_ids, i), UNCHANGED <<removed, errors>>
  PROVE  /\ Placed' /\ Counted' /\ DOMAIN child_ids' = DOMAIN child_ids
         /\ Len(child_ids') = Len(child_ids) /\ child_ids' \in Seq(S!Ids)
         /\ created' \in 0 .. MaxActors /\ sup_alive' \subseteq 1 .. created' /\ sup_g_alive' \in Int
<1>1. /\ created \in Nat /\ sup_alive \subseteq 1 .. created /\ Counted /\ Placed /\ sup_g_alive \in Int
      /\ child_ids \in Seq(S!Ids)
  BY DEF TableInv, S!TypeOK
<1>2. CASE created < MaxActors
  <2>1. /\ created' = created + 1 /\ sup_alive' = sup_alive \cup {created + 1}
        /\ sup_g_alive' = sup_g_alive + 1 /\ child_ids' = [child_ids EXCEPT ![i] = created + 1]
    BY <1>2 DEF S!Spawn
  <2>2. /\ Placed' /\ DOMAIN child_ids' = DOMAIN child_ids /\ Len(child_ids') = Len(child_ids)
    BY <1>1, <2>1, PlacedReplaced
  <2>3. Counted' /\ sup_alive' \subseteq 1 .. created'
    BY <1>1, <2>1, CountedBorn
  <2>4. created + 1 \in S!Ids /\ created' \in 0 .. MaxActors
    BY <1>2, <2>1, TableFacts DEF S!Ids
  <2>5. child_ids' \in Seq(S!Ids)
    BY <1>1, <2>1, <2>4
  <2> QED BY <1>1, <2>1, <2>2, <2>3, <2>4, <2>5
<1>3. CASE ~(created < MaxActors)
  <2>1. UNCHANGED <<child_ids, created, sup_alive, sup_g_alive>>
    BY <1>3 DEF S!Spawn
  <2> QED BY <1>1, <2>1, PlacedSame, CountedSame, TableFacts
<1> QED BY <1>2, <1>3

(* The loop that restarts all children from some place on: not in a dynamic *)
(* supervisor.                                                              *)
LEMMA RespawnKeeps ==
  ASSUME TableInv, UNCHANGED kind, NEW t \in SupThreads, S!Respawn(t)
  PROVE  TableInv'
<1>1. /\ pc[t] = "respawn" /\ index[t] <= Len(child_ids) /\ index[t] >= 1
      /\ S!Strategy # "one_for_one" /\ dead[t] \in 1 .. MaxSupChildren
      /\ index[t] \in 0 .. MaxSupChildren + 1 /\ dead[t] \in 0 .. MaxActors
  BY DEF S!Respawn, TableInv, Loops, S!TypeOK
<1>2. index[t] + 1 \in 0 .. MaxSupChildren + 1 /\ index[t] + 1 >= 1 /\ index[t] \in DOMAIN child_ids
  BY <1>1, TableFacts
<1>3. /\ pc' = [pc EXCEPT ![t] = "respawn"] /\ dead' = [dead EXCEPT ![t] = dead[t]]
      /\ index' = [index EXCEPT ![t] = index[t] + 1] /\ "respawn" \in S!PC
  BY <1>1 DEF S!Respawn, TableInv, S!TypeOK, S!PC
<1>4. ThreadTypes' /\ Loops'
  BY <1>1, <1>2, <1>3, ThreadMoves
<1>5. /\ Placed' /\ Counted' /\ Len(child_ids') = Len(child_ids) /\ child_ids' \in Seq(S!Ids)
      /\ created' \in 0 .. MaxActors /\ sup_alive' \subseteq 1 .. created' /\ sup_g_alive' \in Int
  BY <1>2, SpawnKeeps DEF S!Respawn, S!history
<1>6. Restarts'
  <2>1. ~S!Dynamic /\ ~S!Dynamic'
    BY <1>1 DEF S!Dynamic, S!Strategy
  <2> QED BY <2>1 DEF TableInv, Restarts, S!Respawn, S!history, S!Ids
<1>7. TableTypes'
  BY <1>5 DEF S!Respawn, S!history, TableInv, S!TypeOK, TableTypes
<1> QED BY <1>4, <1>5, <1>6, <1>7, SupTypes DEF TableInv, S!TypeOK, ThreadTypes, TableTypes

(* The restart of one child keeps its restart type. *)
LEMMA RespawnOneKeeps ==
  ASSUME TableInv, UNCHANGED kind, NEW t \in SupThreads, S!RespawnOne(t)
  PROVE  TableInv'
<1>1. ThreadTypes' /\ Loops'
  BY HandlerReturns DEF S!RespawnOne
<1>2. CASE ~(dead[t] <= Len(child_ids))
  <2>1. restart_count' \in Nat /\ UNCHANGED <<S!table, S!actors, S!history, sup_calls>>
    BY <1>2 DEF S!RespawnOne, TableInv, S!TypeOK, S!table, S!actors, S!history
  <2> QED BY <1>1, <2>1, TableUntouched
<1>3. CASE dead[t] <= Len(child_ids)
  <2> DEFINE i == dead[t]
  <2>1. i \in DOMAIN child_ids
    BY <1>3, TableFacts DEF S!RespawnOne, TableInv, Loops
  <2>2. /\ S!Spawn(child_ids, i)
        /\ asked' = IF created < MaxActors
                    THEN [asked EXCEPT ![created + 1] = asked[child_ids[i]]] ELSE asked
    BY <1>3 DEF S!RespawnOne
  <2>3. /\ Placed' /\ Counted' /\ DOMAIN child_ids' = DOMAIN child_ids
        /\ Len(child_ids') = Len(child_ids) /\ child_ids' \in Seq(S!Ids)
        /\ created' \in 0 .. MaxActors /\ sup_alive' \subseteq 1 .. created' /\ sup_g_alive' \in Int
    BY <2>1, <2>2, SpawnKeeps DEF S!RespawnOne
  <2>4. asked \in [S!Ids -> S!RestartTypes] /\ child_ids[i] \in S!Ids
    BY <2>1, TableFacts DEF TableInv, S!TypeOK
  <2>5. asked' \in [S!Ids -> S!RestartTypes]
    BY <2>2, <2>4
  <2>6. Restarts'
    <3>1. CASE created < MaxActors
      <4>1. child_ids' = [child_ids EXCEPT ![i] = created + 1] /\ created' = created + 1
        BY <2>2, <3>1 DEF S!Spawn
      <4>2. /\ created + 1 \in S!Ids
            /\ \A j \in DOMAIN child_ids : child_ids[j] \in S!Ids /\ child_ids[j] # created + 1
            /\ child_ids \in Seq(1 .. created)
        BY <3>1, TableFacts DEF S!Ids
      <4>3. \A j \in DOMAIN child_ids : child_ids'[j] = IF j = i THEN created + 1 ELSE child_ids[j]
        BY <4>1, <4>2
      <4>4. \A a \in S!Ids : asked'[a] = IF a = created + 1 THEN asked[child_ids[i]] ELSE asked[a]
        BY <2>2, <2>4, <3>1
      <4>5. ASSUME S!Dynamic', mixed' = "no", NEW j \in DOMAIN child_ids'
            PROVE  child_restart'[j] = asked'[child_ids'[j]]
        <5>1. j \in DOMAIN child_ids /\ child_restart[j] = asked[child_ids[j]]
          BY <4>5, <2>3 DEF S!RespawnOne, TableInv, Restarts, S!Dynamic
        <5> QED BY <5>1, <2>1, <4>2, <4>3, <4>4 DEF S!RespawnOne
      <4>6. ASSUME ~S!Dynamic' PROVE \A a \in S!Ids : asked'[a] = "permanent"
        BY <4>6, <2>4, <4>4 DEF TableInv, Restarts, S!Dynamic
      <4>7. ASSUME ~S!Dynamic' PROVE \A j \in DOMAIN child_restart' : child_restart'[j] = "permanent"
        BY <4>7 DEF TableInv, Restarts, S!Dynamic, S!RespawnOne
      <4> QED BY <4>5, <4>6, <4>7 DEF Restarts, S!Ids
    <3>2. CASE ~(created < MaxActors)
      BY <3>2, <2>2, RestartsSame DEF S!Spawn, S!RespawnOne
    <3> QED BY <3>1, <3>2
  <2>7. TableTypes'
    BY <2>3, <2>5 DEF S!RespawnOne, TableInv, S!TypeOK, TableTypes
  <2> QED BY <1>1, <2>3, <2>6, <2>7, SupTypes DEF TableInv, S!TypeOK, ThreadTypes, TableTypes
<1> QED BY <1>2, <1>3

(* A primitive puts a new child behind the others. *)
LEMMA AddKeeps ==
  ASSUME TableInv, created < MaxActors, Len(child_ids) < MaxSupChildren,
         S!Spawn(Append(child_ids, 0), Len(child_ids) + 1), UNCHANGED <<removed, errors>>
  PROVE  /\ Placed' /\ Counted' /\ DOMAIN child_ids' = DOMAIN child_ids \cup {Len(child_ids) + 1}
         /\ Len(child_ids') <= MaxSupChildren /\ child_ids' \in Seq(S!Ids)
         /\ created' \in 0 .. MaxActors /\ sup_alive' \subseteq 1 .. created' /\ sup_g_alive' \in Int
         /\ child_ids'[Len(child_ids) + 1] = created + 1 /\ created + 1 \in S!Ids
         /\ \A j \in DOMAIN child_ids : child_ids'[j] = child_ids[j]
         /\ S!Children' = S!Children \cup {created + 1}
         /\ created' = created + 1 /\ sup_alive' = sup_alive \cup {created + 1}
<1>1. /\ created \in Nat /\ sup_alive \subseteq 1 .. created /\ Counted /\ Placed /\ sup_g_alive \in Int
      /\ child_ids \in Seq(S!Ids) /\ Len(child_ids) \in Nat
  BY DEF TableInv, S!TypeOK
<1>2. /\ created' = created + 1 /\ sup_alive' = sup_alive \cup {created + 1}
      /\ sup_g_alive' = sup_g_alive + 1
      /\ child_ids' = [Append(child_ids, 0) EXCEPT ![Len(child_ids) + 1] = created + 1]
  BY DEF S!Spawn
<1>3. child_ids' = Append(child_ids, created + 1)
  <2> DEFINE n == Len(child_ids)
             zero == Append(child_ids, 0)
             new == Append(child_ids, created + 1)
  <2>1. child_ids \in Seq(Nat) /\ n \in Nat /\ created + 1 \in Nat /\ 0 \in Nat
    <3>1. child_ids \in [1 .. Len(child_ids) -> Nat]
      BY TableFacts
    <3> QED BY <3>1, <1>1
  <2>2. /\ zero \in Seq(Nat) /\ Len(zero) = n + 1 /\ \A j \in 1 .. n : zero[j] = child_ids[j]
        /\ new \in Seq(Nat) /\ Len(new) = n + 1 /\ \A j \in 1 .. n : new[j] = child_ids[j]
        /\ new[n + 1] = created + 1
    BY <2>1, AppendProperties
  <2> HIDE DEF zero, new
  <2>3. zero \in [1 .. n + 1 -> Nat] /\ new \in [1 .. n + 1 -> Nat]
    BY <2>2
  <2>4. ASSUME NEW j \in 1 .. n + 1 PROVE [zero EXCEPT ![n + 1] = created + 1][j] = new[j]
    <3>1. CASE j = n + 1
      BY <3>1, <2>1, <2>2, <2>3
    <3>2. CASE j # n + 1
      <4>1. j \in 1 .. n
        BY <3>2, <2>1
      <4> QED BY <3>2, <4>1, <2>2, <2>3
    <3> QED BY <3>1, <3>2
  <2>5. [zero EXCEPT ![n + 1] = created + 1] = new
    BY <2>1, <2>3, <2>4
  <2> QED BY <2>5, <1>2 DEF zero, new
<1>4. created + 1 \in S!Ids /\ created' \in 0 .. MaxActors
  BY <1>2, TableFacts DEF S!Ids
<1>5. child_ids' \in Seq(S!Ids)
  BY <1>1, <1>3, <1>4
<1>6. Counted' /\ sup_alive' \subseteq 1 .. created'
  BY <1>1, <1>2, CountedBorn
<1>7. /\ Placed' /\ DOMAIN child_ids' = DOMAIN child_ids \cup {Len(child_ids) + 1}
      /\ Len(child_ids') = Len(child_ids) + 1 /\ child_ids'[Len(child_ids) + 1] = created + 1
      /\ \A j \in DOMAIN child_ids : child_ids'[j] = child_ids[j]
      /\ S!Children' = S!Children \cup {created + 1}
  BY <1>1, <1>2, <1>3, PlacedAdded
<1>8. Len(child_ids') <= MaxSupChildren
  BY <1>1, <1>7, TableFacts
<1> QED BY <1>1, <1>2, <1>4, <1>5, <1>6, <1>7, <1>8

LEMMA SupAddChildKeeps ==
  ASSUME TableInv, UNCHANGED kind, NEW t \in SupThreads, S!SupAddChild(t)
  PROVE  TableInv'
<1>1. /\ Placed' /\ Counted' /\ Len(child_ids') <= MaxSupChildren /\ child_ids' \in Seq(S!Ids)
      /\ created' \in 0 .. MaxActors /\ sup_alive' \subseteq 1 .. created' /\ sup_g_alive' \in Int
  BY AddKeeps DEF S!SupAddChild
<1>2. ThreadTypes' /\ Loops'
  BY ThreadStays DEF S!SupAddChild
<1>3. Restarts'
  <2>1. mixed' # "no" /\ UNCHANGED <<child_restart, asked>> /\ S!Dynamic' = S!Dynamic
    BY DEF S!SupAddChild, S!Dynamic
  <2>2. \A a \in S!Ids : asked'[a] = asked[a]
    BY <2>1
  <2> QED BY <2>1, <2>2 DEF TableInv, Restarts, S!Ids
<1>4. TableTypes'
  BY <1>1, SupervisorAssumption DEF S!SupAddChild, S!Call, TableInv, S!TypeOK, TableTypes
<1> QED BY <1>1, <1>2, <1>3, <1>4, SupTypes DEF TableInv, S!TypeOK, ThreadTypes, TableTypes

LEMMA DynsupStartChildKeeps ==
  ASSUME TableInv, UNCHANGED kind, NEW t \in SupThreads, NEW type \in S!RestartTypes,
         S!DynsupStartChild(t, type)
  PROVE  TableInv'
<1>1. /\ Placed' /\ Counted' /\ Len(child_ids') <= MaxSupChildren /\ child_ids' \in Seq(S!Ids)
      /\ created' \in 0 .. MaxActors /\ sup_alive' \subseteq 1 .. created' /\ sup_g_alive' \in Int
      /\ DOMAIN child_ids' = DOMAIN child_ids \cup {Len(child_ids) + 1}
      /\ child_ids'[Len(child_ids) + 1] = created + 1 /\ created + 1 \in S!Ids
      /\ \A j \in DOMAIN child_ids : child_ids'[j] = child_ids[j]
  BY AddKeeps DEF S!DynsupStartChild
<1>2. ThreadTypes' /\ Loops'
  BY ThreadStays DEF S!DynsupStartChild
<1>3. child_restart' \in [1 .. MaxSupChildren -> S!RestartTypes]
      /\ asked' \in [S!Ids -> S!RestartTypes]
  BY DEF S!DynsupStartChild, TableInv, S!TypeOK
<1>4. Restarts'
  <2>1. S!Dynamic /\ S!Dynamic' /\ mixed' = mixed
    BY DEF S!DynsupStartChild, S!Dynamic
  <2>2. Len(child_ids) + 1 \in 1 .. MaxSupChildren
    BY TableFacts DEF S!DynsupStartChild
  <2>3. /\ \A j \in 1 .. MaxSupChildren : child_restart'[j] = IF j = Len(child_ids) + 1 THEN type ELSE child_restart[j]
        /\ \A a \in S!Ids : asked'[a] = IF a = created + 1 THEN type ELSE asked[a]
    BY DEF S!DynsupStartChild, TableInv, S!TypeOK
  <2>4. ASSUME mixed = "no", NEW j \in DOMAIN child_ids'
        PROVE  child_restart'[j] = asked'[child_ids'[j]]
    <3>1. CASE j = Len(child_ids) + 1
      BY <3>1, <1>1, <2>2, <2>3
    <3>2. CASE j # Len(child_ids) + 1
      <4>1. j \in DOMAIN child_ids /\ j \in 1 .. MaxSupChildren
        BY <3>2, <1>1, TableFacts
      <4>2. child_ids[j] \in S!Ids /\ child_ids[j] # created + 1
        BY <4>1, TableFacts
      <4>3. child_restart[j] = asked[child_ids[j]]
        BY <2>1, <2>4, <4>1 DEF TableInv, Restarts
      <4> QED BY <3>2, <1>1, <2>3, <4>1, <4>2, <4>3
    <3> QED BY <3>1, <3>2
  <2> QED BY <2>1, <2>4 DEF Restarts
<1>5. TableTypes'
  BY <1>1, <1>3, SupervisorAssumption DEF S!DynsupStartChild, S!Call, TableInv, S!TypeOK, TableTypes
<1> QED BY <1>1, <1>2, <1>4, <1>5, SupTypes DEF TableInv, S!TypeOK, ThreadTypes, TableTypes

LEMMA RemoveChildKeeps ==
  ASSUME TableInv, UNCHANGED kind, NEW t \in SupThreads, NEW i \in 1 .. MaxSupChildren,
         S!SupRemoveChild(t, i) \/ S!DynsupTerminateChild(t, i)
  PROVE  TableInv'
<1>1. /\ i \in DOMAIN child_ids /\ S!KillQuietly(child_ids[i])
      /\ child_ids' = S!RemoveAt(child_ids, i) /\ UNCHANGED <<restart_count, asked, pc, dead, index>>
  BY DEF S!SupRemoveChild, S!DynsupTerminateChild, S!ShiftBoth
<1>2. created \in Nat /\ sup_alive \subseteq 1 .. created /\ Counted /\ Placed /\ UNCHANGED created
  BY <1>1 DEF TableInv, S!TypeOK, S!KillQuietly
<1>3. Placed' /\ Len(child_ids') = Len(child_ids) - 1
  BY <1>1, <1>2, PlacedRemoved
<1>4. Counted' /\ sup_alive' \subseteq 1 .. created'
  BY <1>1, <1>2, CountedQuietly
<1>5. ThreadTypes' /\ Loops'
  BY <1>1, ThreadStays
<1>6. Restarts' /\ child_restart' \in [1 .. MaxSupChildren -> S!RestartTypes]
      /\ mixed' \in {"no", "yes"}
  <2>1. CASE S!SupRemoveChild(t, i)
    <3>1. mixed' = "yes" /\ UNCHANGED <<child_restart, asked>> /\ S!Dynamic' = S!Dynamic
      BY <2>1 DEF S!SupRemoveChild, S!Dynamic
    <3> QED BY <3>1 DEF TableInv, Restarts, S!TypeOK, S!Ids
  <2>2. CASE S!DynsupTerminateChild(t, i)
    <3>1. S!Dynamic /\ S!ShiftBoth(i) /\ UNCHANGED <<created, asked, mixed>>
      BY <2>2, <1>2 DEF S!DynsupTerminateChild
    <3> QED BY <3>1, <1>1, Shifted DEF TableInv, S!TypeOK
  <2> QED BY <2>1, <2>2
<1>7. child_ids' \in Seq(S!Ids)
  BY <1>1, TableFacts, RemovedAt DEF TableInv, S!TypeOK
<1>8. Len(child_ids') <= MaxSupChildren
  BY <1>3, TableFacts
<1>9. sup_calls' \in 0 .. MaxSupCalls
  BY SupervisorAssumption DEF S!SupRemoveChild, S!DynsupTerminateChild, S!Call, TableInv, S!TypeOK
<1>10. removed' \subseteq S!Ids
  BY <1>1, TableFacts DEF S!KillQuietly, TableInv, S!TypeOK
<1>11. TableTypes'
  BY <1>1, <1>2, <1>4, <1>6, <1>7, <1>8, <1>9, <1>10 DEF S!KillQuietly, TableInv, S!TypeOK,
      TableTypes
<1> QED BY <1>3, <1>4, <1>5, <1>6, <1>11, SupTypes DEF TableInv, S!TypeOK, ThreadTypes, TableTypes

LEMMA TableInit == S!Init => TableInv
<1> SUFFICES ASSUME S!Init PROVE TableInv
  OBVIOUS
<1>1. /\ created \in Nat /\ created <= MaxActors /\ created <= MaxSupChildren
      /\ MaxActors \in Nat /\ MaxSupChildren \in Nat
  BY SupervisorAssumption DEF S!Init
<1>2. /\ child_ids = [i \in 1 .. created |-> i] /\ child_ids \in Seq(1 .. created)
      /\ Len(child_ids) = created
  BY <1>1 DEF S!Init
<1>3. child_ids \in Seq(S!Ids)
  BY <1>1, <1>2 DEF S!Ids
<1>4. S!TypeOK
  BY <1>1, <1>2, <1>3, SupervisorAssumption DEF S!Init, S!TypeOK, S!RestartTypes, S!PC
<1>5. Placed
  <2>1. DOMAIN child_ids = 1 .. created /\ \A i \in 1 .. created : child_ids[i] = i
    BY <1>2
  <2> QED BY <1>1, <1>2, <2>1 DEF Placed
<1>6. Counted
  <2>1. Cardinality(sup_alive) = created /\ Cardinality(removed) = 0
    <3>1. sup_alive = 1 .. created /\ removed = {}
      BY DEF S!Init
    <3>2. Cardinality(1 .. created) = created
      BY <1>1, FS_Interval
    <3> QED BY <3>1, <3>2, FS_EmptySet
  <2>2. S!CountDriftExplained
    BY <2>1, <1>1, SameCardinality DEF S!CountDriftExplained, S!Init
  <2> QED BY <2>2 DEF Counted, S!Init
<1>7. Restarts
  BY <1>1, <1>2, <1>3 DEF S!Init, Restarts, S!Ids
<1>8. Loops
  BY DEF S!Init, Loops
<1> QED BY <1>4, <1>5, <1>6, <1>7, <1>8 DEF TableInv

LEMMA TableStep == TableInv /\ [S!Next]_(S!vars) => TableInv'
<1> SUFFICES ASSUME TableInv, [S!Next]_(S!vars) PROVE TableInv'
  OBVIOUS
<1>1. CASE UNCHANGED S!vars
  <2>1. restart_count' \in Nat /\ UNCHANGED <<kind, S!table, S!actors, S!history, sup_calls, pc, dead, index>>
    BY <1>1 DEF S!vars, S!table, S!actors, S!history, TableInv, S!TypeOK
  <2> QED BY <2>1, ThreadStays, TableUntouched
<1>2. ASSUME NEW t \in SupThreads, S!ExitStep(t), UNCHANGED kind PROVE TableInv'
  BY <1>2, ChildDiesKeeps, ExitHandledKeeps, HandleRestartKeeps, KillSiblingKeeps, KillsDoneKeeps,
     RespawnKeeps, RespawnOneKeeps DEF S!ExitStep
<1>3. ASSUME NEW t \in SupThreads, S!TableStep(t), UNCHANGED kind PROVE TableInv'
  BY <1>3, SupAddChildKeeps, DynsupStartChildKeeps, RemoveChildKeeps DEF S!TableStep
<1> QED BY <1>1, <1>2, <1>3 DEF S!Next

-----------------------------------------------------------------------------
(* What is lost and replaced, when one thread handles the exits             *)

LEMMA NoErrors ==
  Spent \/ S!Children \cap errors = {}
    <=> Spent \/ \A j \in DOMAIN child_ids : child_ids[j] \notin errors
  BY IsChild

(* A thread that is idle has nothing left to do.                            *)
LEMMA IdleHandled ==
  ASSUME NEW t, pc'[t] = "idle", sup_alive' \subseteq S!Children',
         (Spent \/ S!Children \cap errors = {})'
  PROVE  Handled(t)'
<1>1. \A a : a \in S!Children' <=> \E j \in DOMAIN child_ids' : child_ids'[j] = a
  BY DEF S!Children, S!Range
<1>2. FailedKnown(t)'
  BY <1>1 DEF FailedKnown
<1> QED BY <1>2 DEF Handled, Handling

(* While an exit is looked at, or nothing happens, no child waits but the   *)
(* dead one.                                                                *)
LEMMA WaitsForHandler ==
  ASSUME NEW t, Handled(t), ~Spent
  PROVE  /\ pc[t] \in {"idle", "normal"} => S!Children \cap errors = {}
         /\ pc[t] = "handle" => S!Children \cap errors \subseteq {dead[t]}
  BY IsChild DEF Handled, FailedKnown, Replaces

LEMMA ChildDiesHandled ==
  ASSUME TableInv, NEW t \in SupThreads, Handled(t), NEW a \in S!Ids, NEW how, S!ChildDies(t, a, how)
  PROVE  Handled(t)'
<1>1. /\ pc'[t] = IF how = "error" THEN "handle" ELSE "normal"
      /\ dead'[t] = a
  BY DEF TableInv, S!TypeOK, S!ChildDies, S!Goto
<1>2. /\ pc[t] = "idle" /\ a \in sup_alive /\ a \notin errors /\ sup_alive' = sup_alive \ {a}
      /\ errors' = (IF how = "error" THEN errors \cup {a} ELSE errors)
      /\ UNCHANGED <<child_ids, restart_count, created>>
  BY DEF S!ChildDies, S!table, TableInv, Counted
<1>3. S!Children' = S!Children
  BY <1>2 DEF S!Children, S!Range
<1>4. Handling(t)'
  BY <1>1, <1>2 DEF Handling
<1>5. FailedKnown(t)'
  BY <1>1, <1>2 DEF Handled, FailedKnown, Replaces, Spent
<1> QED BY <1>2, <1>3, <1>4, <1>5 DEF Handled

(* The handler returns and the dead child is off the table, or was never on *)
(* it, or no child has to be replaced.                                      *)
LEMMA ExitHandledHandled ==
  ASSUME TableInv, NEW t \in SupThreads, Handled(t),
         S!NormalExit(t) \/ S!HandleNothing(t) \/ S!HandleTemporary(t) \/ S!RespawnsDone(t),
         UNCHANGED kind
  PROVE  Handled(t)'
<1> DEFINE i == S!IndexOf(dead[t])
<1>1. pc'[t] = "idle"
  BY DEF TableInv, S!TypeOK, S!NormalExit, S!HandleNothing, S!HandleTemporary, S!RespawnsDone,
     S!HandlerDone, S!Goto
<1>2. UNCHANGED <<sup_alive, created, errors, restart_count>>
  BY DEF S!NormalExit, S!HandleNothing, S!HandleTemporary, S!RespawnsDone, S!actors
<1>3. CASE UNCHANGED S!table /\ (S!NormalExit(t) \/ S!HandleNothing(t))
  <2>1. S!Children' = S!Children
    BY <1>3 DEF S!Children, S!Range, S!table
  <2>2. Spent \/ S!Children \cap errors = {}
    <3>1. CASE S!NormalExit(t)
      BY <3>1, WaitsForHandler DEF S!NormalExit
    <3>2. CASE S!HandleNothing(t)
      BY <3>2, WaitsForHandler, Found DEF S!HandleNothing, TableInv, Spent
    <3> QED BY <1>3, <3>1, <3>2
  <2> QED BY <1>1, <1>2, <2>1, <2>2, IdleHandled DEF Handled, Spent
<1>4. CASE S!RespawnsDone(t)
  <2>1. S!Children' = S!Children
    BY <1>4 DEF S!Children, S!Range, S!table, S!RespawnsDone
  <2>2. Spent \/ S!Children \cap errors = {}
    <3>1. ~Spent => \A j \in DOMAIN child_ids : child_ids[j] \in errors => index[t] <= j
      BY <1>4 DEF Handled, FailedKnown, Replaces, S!RespawnsDone
    <3>2. \A j \in DOMAIN child_ids : ~(index[t] <= j)
      <4>1. index[t] \in Int /\ index[t] > Len(child_ids)
        BY <1>4 DEF S!RespawnsDone, TableInv, S!TypeOK
      <4> QED BY <4>1, TableFacts
    <3> QED BY <3>1, <3>2, NoErrors
  <2> QED BY <1>1, <1>2, <2>1, <2>2, IdleHandled DEF Handled, Spent
<1>5. CASE /\ S!NormalExit(t) \/ S!HandleTemporary(t)
           /\ S!Dynamic /\ i > 0 /\ S!ShiftBoth(i)
  <2>1. i \in DOMAIN child_ids /\ child_ids[i] = dead[t]
    BY <1>5, Found DEF TableInv
  <2>2. S!Children' = S!Children \ {dead[t]}
    BY <1>5, <2>1, Shifted DEF S!NormalExit, S!HandleTemporary, S!actors, S!history
  <2>3. pc[t] \in {"normal", "handle"} /\ dead[t] \notin sup_alive
    BY <1>5 DEF S!NormalExit, S!HandleTemporary, Handled, Handling
  <2>4. Spent \/ (S!Children \ {dead[t]}) \cap errors = {}
    BY <2>3, WaitsForHandler
  <2> QED BY <1>1, <1>2, <2>2, <2>3, <2>4, IdleHandled DEF Handled, Spent
<1> QED BY <1>3, <1>4, <1>5 DEF S!NormalExit, S!HandleNothing, S!HandleTemporary

(* The dead child's place is found. *)
LEMMA HandleRestartHandled ==
  ASSUME TableInv, TableInv', NEW t \in SupThreads, Handled(t), S!HandleRestart(t), UNCHANGED kind
  PROVE  Handled(t)'
<1> DEFINE i == S!IndexOf(dead[t])
<1>1. /\ pc[t] = "handle" /\ i > 0 /\ ~(restart_count >= SupMaxRestarts)
      /\ UNCHANGED <<child_ids, created, sup_alive, errors>> /\ S!Strategy' = S!Strategy
  BY SupervisorAssumption DEF S!HandleRestart, S!table, S!actors, S!Strategy, S!Dynamic,
      TableInv, S!TypeOK
<1>2. i \in DOMAIN child_ids /\ child_ids[i] = dead[t]
  BY <1>1, Found DEF TableInv
<1> HIDE DEF i
<1>3. /\ dead'[t] = i
      /\ S!Strategy = "one_for_one" => pc'[t] = "respawn_one"
      /\ S!Strategy # "one_for_one" => pc'[t] = "kill"
      /\ S!Strategy = "one_for_all" => index'[t] = 1
      /\ S!Strategy \notin {"one_for_one", "one_for_all"} => index'[t] = i + 1
  BY DEF S!HandleRestart, S!Goto, TableInv, S!TypeOK, i
<1>4. S!Children' = S!Children
  BY <1>1 DEF S!Children, S!Range
<1>5. child_ids[i] \notin sup_alive
  BY <1>1, <1>2 DEF Handled, Handling
<1>6. FailedKnown(t)'
  <2>1. ASSUME ~Spent', NEW j \in DOMAIN child_ids, child_ids[j] \in errors PROVE j = i
    <3>1. ~Spent
      BY <1>1, <2>1 DEF Spent
    <3>2. child_ids[j] = dead[t]
      BY <1>1, <2>1, <3>1 DEF Handled, FailedKnown, Replaces
    <3> QED BY <1>2, <3>2 DEF TableInv, Placed
  <2> QED BY <1>1, <1>3, <2>1 DEF FailedKnown, Replaces
<1>7. Handling(t)'
  <2>1. /\ i \in 1 .. Len(child_ids) /\ i + 1 \in 1 .. Len(child_ids) + 1
        /\ 1 \in 1 .. Len(child_ids) + 1 /\ DOMAIN child_ids = 1 .. Len(child_ids)
    BY <1>2, TableFacts
  <2>2. CASE S!Strategy = "one_for_one"
    BY <2>2, <1>1, <1>2, <1>3, <1>5 DEF Handling
  <2>3. CASE S!Strategy = "one_for_all"
    BY <2>3, <2>1, <1>1, <1>2, <1>3, <1>5 DEF Handling, Concerns
  <2>4. CASE S!Strategy \notin {"one_for_one", "one_for_all"}
    BY <2>4, <2>1, <1>1, <1>2, <1>3, <1>5 DEF Handling, Concerns
  <2> QED BY <2>2, <2>3, <2>4
<1> QED BY <1>1, <1>4, <1>6, <1>7 DEF Handled

(* A sibling is killed: the others are not touched. *)
LEMMA KillSiblingHandled ==
  ASSUME TableInv, NEW t \in SupThreads, Handled(t), S!KillSibling(t), UNCHANGED kind
  PROVE  Handled(t)'
<1> DEFINE i == index[t]
<1>1. /\ pc[t] = "kill" /\ i <= Len(child_ids) /\ i \in 1 .. Len(child_ids) + 1
      /\ UNCHANGED <<child_ids, created, errors, restart_count, pc, dead>> /\ S!Strategy' = S!Strategy
      /\ sup_alive' \subseteq sup_alive
      /\ index'[t] = i + 1
  BY DEF S!KillSibling, S!table, S!history, S!Strategy, S!Dynamic, Handled, Handling, TableInv,
      S!TypeOK
<1>2. i \in DOMAIN child_ids /\ DOMAIN child_ids = 1 .. Len(child_ids) /\ Len(child_ids) \in Nat
  BY <1>1, TableFacts
<1>3. i # dead[t] => child_ids[i] \notin sup_alive'
  BY DEF S!KillSibling
<1>4. S!Children' = S!Children
  BY <1>1 DEF S!Children, S!Range
<1>5. FailedKnown(t)'
  BY <1>1 DEF Handled, FailedKnown, Replaces, Spent
<1>6. Handling(t)'
  <2>1. dead[t] \in DOMAIN child_ids /\ Concerns(t, i)
        /\ \A j \in DOMAIN child_ids :
             j = dead[t] \/ (j < i /\ Concerns(t, j)) => child_ids[j] \notin sup_alive
    BY <1>1 DEF Handled, Handling
  <2>2. i + 1 \in 1 .. Len(child_ids) + 1 /\ Concerns(t, index[t])'
    BY <1>1, <1>2, <2>1 DEF Concerns
  <2>3. ASSUME NEW j \in DOMAIN child_ids, j = dead[t] \/ (j < i + 1 /\ Concerns(t, j)')
        PROVE  child_ids[j] \notin sup_alive'
    <3>1. CASE j = dead[t]
      BY <3>1, <1>1, <2>1
    <3>2. CASE j # dead[t] /\ j < i
      BY <3>2, <2>3, <1>1, <2>1 DEF Concerns
    <3>3. CASE j # dead[t] /\ j = i
      BY <3>3, <1>3
    <3> QED BY <3>1, <3>2, <3>3, <2>3, <1>2
  <2> HIDE DEF i
  <2> QED BY <1>1, <2>1, <2>2, <2>3 DEF Handling
<1> QED BY <1>1, <1>4, <1>5, <1>6 DEF Handled

(* All siblings are dead: the respawns start where the kills did, or at the *)
(* dead child.                                                              *)
LEMMA KillsDoneHandled ==
  ASSUME TableInv, NEW t \in SupThreads, Handled(t), S!KillsDone(t), UNCHANGED kind
  PROVE  Handled(t)'
<1> DEFINE x == IF S!Strategy = "one_for_all" THEN 1 ELSE dead[t]
<1>1. /\ pc[t] = "kill" /\ index[t] > Len(child_ids) /\ index[t] \in 1 .. Len(child_ids) + 1
      /\ UNCHANGED <<child_ids, created, sup_alive, errors, restart_count, dead>>
      /\ S!Strategy' = S!Strategy /\ pc'[t] = "respawn" /\ index'[t] = x
  BY DEF S!KillsDone, S!Goto, S!table, S!actors, S!history, S!Strategy, S!Dynamic, Handled,
      Handling,
     TableInv, S!TypeOK
<1>2. DOMAIN child_ids = 1 .. Len(child_ids) /\ Len(child_ids) \in Nat
  BY TableFacts
<1>3. dead[t] \in DOMAIN child_ids
      /\ \A j \in DOMAIN child_ids :
           j = dead[t] \/ (j < index[t] /\ Concerns(t, j)) => child_ids[j] \notin sup_alive
  BY <1>1 DEF Handled, Handling
<1>4. S!Children' = S!Children
  BY <1>1 DEF S!Children, S!Range
<1>5. x \in 1 .. Len(child_ids) + 1 /\ x <= dead[t] /\ Concerns(t, x)
  BY <1>2, <1>3 DEF Concerns
<1>6. FailedKnown(t)'
  BY <1>1, <1>5 DEF Handled, FailedKnown, Replaces, Spent
<1>7. ASSUME NEW j \in DOMAIN child_ids, j >= x PROVE child_ids[j] \notin sup_alive
  <2>1. j < index[t]
    BY <1>1, <1>2
  <2>2. Concerns(t, j)
    BY <1>7 DEF Concerns
  <2> QED BY <2>1, <2>2, <1>3
<1> HIDE DEF x
<1>8. Concerns(t, index[t])'
  BY <1>1, <1>5 DEF Concerns
<1>9. Handling(t)'
  BY <1>1, <1>3, <1>5, <1>7, <1>8 DEF Handling
<1> QED BY <1>1, <1>4, <1>6, <1>9 DEF Handled

(* A dead child gets a successor, if the actor table has room.              *)
LEMMA Reborn ==
  ASSUME TableInv, NEW i \in DOMAIN child_ids, child_ids[i] \notin sup_alive,
         sup_alive \subseteq S!Children, S!Spawn(child_ids, i), UNCHANGED <<errors, restart_count>>
  PROVE  /\ DOMAIN child_ids' = DOMAIN child_ids /\ Len(child_ids') = Len(child_ids)
         /\ sup_alive' \subseteq S!Children'
         /\ \A j \in DOMAIN child_ids \ {i} :
              child_ids'[j] = child_ids[j] /\ (child_ids[j] \in sup_alive' => child_ids[j] \in sup_alive)
         /\ ~Spent' => ~Spent /\ child_ids'[i] \notin errors
         /\ sup_alive \subseteq sup_alive'
<1>1. CASE created < MaxActors
  <2>1. /\ created' = created + 1 /\ sup_alive' = sup_alive \cup {created + 1}
        /\ child_ids' = [child_ids EXCEPT ![i] = created + 1]
    BY <1>1 DEF S!Spawn
  <2>2. created \in Nat /\ Placed /\ MaxActors \in Nat /\ errors \subseteq 1 .. created
    BY TableFacts DEF TableInv, Counted
  <2>3. /\ DOMAIN child_ids' = DOMAIN child_ids /\ Len(child_ids') = Len(child_ids)
        /\ \A j \in DOMAIN child_ids : child_ids'[j] = IF j = i THEN created + 1 ELSE child_ids[j]
        /\ S!Children' = (S!Children \ {child_ids[i]}) \cup {created + 1}
    BY <2>1, <2>2, PlacedReplaced
  <2>4. \A j \in DOMAIN child_ids : child_ids[j] # created + 1
    BY <2>2, TableFacts
  <2>5. created + 1 \notin errors /\ ~Spent' => ~Spent
    BY <1>1, <2>2 DEF Spent
  <2>6. created + 1 \notin errors
    BY <2>2
  <2>7. ~Spent' => ~Spent
    BY <2>5, <2>6
  <2> QED BY <2>1, <2>3, <2>4, <2>6, <2>7
<1>2. CASE ~(created < MaxActors)
  <2>1. UNCHANGED <<child_ids, created, sup_alive>>
    BY <1>2 DEF S!Spawn
  <2>2. created = MaxActors /\ Spent'
    BY <1>2, <2>1, TableFacts DEF Spent
  <2>3. S!Children' = S!Children
    BY <2>1 DEF S!Children, S!Range
  <2> QED BY <2>1, <2>2, <2>3
<1> QED BY <1>1, <1>2

LEMMA RespawnHandled ==
  ASSUME TableInv, NEW t \in SupThreads, Handled(t), S!Respawn(t), UNCHANGED kind
  PROVE  Handled(t)'
<1> DEFINE i == index[t]
<1>1. /\ pc[t] = "respawn" /\ i <= Len(child_ids) /\ i \in 1 .. Len(child_ids) + 1
      /\ UNCHANGED <<errors, restart_count, pc, dead>> /\ S!Strategy' = S!Strategy
      /\ S!Spawn(child_ids, i) /\ index'[t] = i + 1
  BY DEF S!Respawn, S!Strategy, S!Dynamic, Handled, Handling, TableInv, S!TypeOK
<1>2. i \in DOMAIN child_ids /\ DOMAIN child_ids = 1 .. Len(child_ids) /\ Len(child_ids) \in Nat
  BY <1>1, TableFacts
<1>3. /\ dead[t] \in DOMAIN child_ids /\ Concerns(t, i)
      /\ \A j \in DOMAIN child_ids : j >= i => child_ids[j] \notin sup_alive
  BY <1>1 DEF Handled, Handling
<1>4. child_ids[i] \notin sup_alive /\ sup_alive \subseteq S!Children
  BY <1>2, <1>3 DEF Handled
<1> HIDE DEF i
<1>5. /\ DOMAIN child_ids' = DOMAIN child_ids /\ Len(child_ids') = Len(child_ids)
      /\ sup_alive' \subseteq S!Children'
      /\ \A j \in DOMAIN child_ids \ {i} :
           child_ids'[j] = child_ids[j] /\ (child_ids[j] \in sup_alive' => child_ids[j] \in sup_alive)
      /\ ~Spent' => ~Spent /\ child_ids'[i] \notin errors
  BY <1>1, <1>2, <1>4, Reborn
<1>6. FailedKnown(t)'
  <2>1. ASSUME ~Spent', NEW j \in DOMAIN child_ids', child_ids'[j] \in errors
        PROVE  j = dead[t] /\ i + 1 <= j
    <3>1. j \in DOMAIN child_ids /\ j # i /\ child_ids[j] \in errors /\ ~Spent
      BY <2>1, <1>5
    <3>2. j = dead[t] /\ index[t] <= j
      BY <3>1, <1>1 DEF Handled, FailedKnown, Replaces
    <3> QED BY <3>1, <3>2, <1>2 DEF i
  <2> QED BY <2>1, <1>1 DEF FailedKnown, Replaces
<1>7. Handling(t)'
  <2>1. i + 1 \in 1 .. Len(child_ids) + 1 /\ Concerns(t, index[t])'
    BY <1>1, <1>2, <1>3 DEF Concerns
  <2>2. ASSUME NEW j \in DOMAIN child_ids', j >= i + 1 PROVE child_ids'[j] \notin sup_alive'
    <3>1. j \in DOMAIN child_ids /\ j # i /\ j >= i
      BY <2>2, <1>2, <1>5
    <3> QED BY <3>1, <1>3, <1>5
  <2> QED BY <1>1, <1>3, <1>5, <2>1, <2>2 DEF Handling
<1> QED BY <1>5, <1>6, <1>7 DEF Handled

LEMMA RespawnOneHandled ==
  ASSUME TableInv, NEW t \in SupThreads, Handled(t), S!RespawnOne(t), UNCHANGED kind
  PROVE  Handled(t)'
<1> DEFINE i == dead[t]
<1>1. /\ pc[t] = "respawn_one" /\ i \in DOMAIN child_ids /\ child_ids[i] \notin sup_alive
      /\ sup_alive \subseteq S!Children
  BY DEF S!RespawnOne, Handled, Handling
<1>2. S!Spawn(child_ids, i) /\ UNCHANGED <<errors, restart_count>> /\ pc'[t] = "idle"
  BY <1>1, TableFacts DEF S!RespawnOne, S!HandlerDone, S!Goto, TableInv, S!TypeOK
<1>3. /\ DOMAIN child_ids' = DOMAIN child_ids /\ sup_alive' \subseteq S!Children'
      /\ \A j \in DOMAIN child_ids \ {i} : child_ids'[j] = child_ids[j]
      /\ ~Spent' => ~Spent /\ child_ids'[i] \notin errors
  BY <1>1, <1>2, Reborn
<1>4. ASSUME ~Spent', NEW j \in DOMAIN child_ids' PROVE child_ids'[j] \notin errors
  <2>1. CASE j = i
    BY <2>1, <1>3, <1>4
  <2>2. CASE j # i
    BY <2>2, <1>1, <1>3, <1>4 DEF Handled, FailedKnown, Replaces
  <2> QED BY <2>1, <2>2
<1>5. \A a : a \in S!Children' <=> \E j \in DOMAIN child_ids' : child_ids'[j] = a
  BY DEF S!Children, S!Range
<1>6. (Spent \/ S!Children \cap errors = {})'
  BY <1>2, <1>4, <1>5
<1> QED BY <1>2, <1>3, <1>6, IdleHandled

(* The primitives: a child more, or a child less. *)
LEMMA TableStepHandled ==
  ASSUME TableInv, NEW t \in SupThreads, Handled(t), S!TableStep(t), UNCHANGED kind
  PROVE  Handled(t)'
<1>1. pc[t] = "idle" /\ pc' = pc /\ UNCHANGED <<errors, restart_count>>
  BY DEF S!TableStep, S!SupAddChild, S!DynsupStartChild, S!SupRemoveChild, S!DynsupTerminateChild,
     S!Call, S!KillQuietly
<1>2. Spent \/ S!Children \cap errors = {}
  BY <1>1, WaitsForHandler
<1>3. /\ created \in Nat /\ Placed /\ errors \subseteq 1 .. created /\ sup_alive \subseteq S!Children
  BY TableFacts DEF TableInv, Counted, Handled
<1>4. CASE S!SupAddChild(t) \/ \E type \in S!RestartTypes : S!DynsupStartChild(t, type)
  <2>1. /\ S!Children' = S!Children \cup {created + 1}
        /\ created' = created + 1 /\ sup_alive' = sup_alive \cup {created + 1}
        /\ created < MaxActors
    BY <1>4, AddKeeps DEF S!SupAddChild, S!DynsupStartChild
  <2>2. created + 1 \notin errors
    BY <1>3
  <2>3. Spent' \/ ~Spent
    BY <1>1, <1>3, <2>1, TableFacts DEF Spent
  <2> QED BY <1>1, <1>2, <1>3, <2>1, <2>2, <2>3, IdleHandled
<1>5. CASE \E i \in 1 .. MaxSupChildren : S!SupRemoveChild(t, i) \/ S!DynsupTerminateChild(t, i)
  <2>1. PICK i \in DOMAIN child_ids :
          S!KillQuietly(child_ids[i]) /\ child_ids' = S!RemoveAt(child_ids, i)
    BY <1>5 DEF S!SupRemoveChild, S!DynsupTerminateChild, S!ShiftBoth
  <2>2. UNCHANGED created /\ sup_alive' = sup_alive \ {child_ids[i]}
    BY <2>1 DEF S!KillQuietly
  <2>3. S!Children' = S!Children \ {child_ids[i]}
    BY <1>3, <2>1, <2>2, PlacedRemoved
  <2> QED BY <1>1, <1>2, <1>3, <2>2, <2>3, IdleHandled DEF Spent
<1> QED BY <1>4, <1>5 DEF S!TableStep

-----------------------------------------------------------------------------
(* Theorems about supervisors                                               *)

(* One scheduler thread runs all actors.                                    *)
OneThread == \E t : SupThreads = {t}

LEMMA SupervisorStep ==
  ASSUME OneThread, SupInv, [S!Next]_(S!vars)
  PROVE  SupInv'
<1>1. TableInv /\ TableInv'
  BY TableStep DEF SupInv
<1>2. PICK t : SupThreads = {t}
  BY DEF OneThread
<1>3. t \in SupThreads /\ Handled(t)
  BY <1>2 DEF SupInv
<1>4. Handled(t)'
  <2>1. CASE UNCHANGED S!vars
    <3>1. S!Strategy' = S!Strategy /\ S!Children' = S!Children
      BY <2>1 DEF S!vars, S!Strategy, S!Dynamic, S!Children, S!Range
    <3>2. Concerns(t, index[t])' = Concerns(t, index[t])
          /\ \A j \in DOMAIN child_ids : Concerns(t, j)' = Concerns(t, j)
      BY <2>1, <3>1 DEF S!vars, Concerns
    <3>3. Handling(t)'
      BY <1>3, <2>1, <3>1, <3>2 DEF S!vars, Handled, Handling
    <3>4. FailedKnown(t)'
      BY <1>3, <2>1 DEF S!vars, Handled, FailedKnown, Replaces, Spent
    <3> QED BY <1>3, <2>1, <3>1, <3>3, <3>4 DEF S!vars, Handled
  <2>2. CASE S!ExitStep(t) /\ UNCHANGED kind
    BY <1>1, <1>3, <2>2, ChildDiesHandled, ExitHandledHandled, HandleRestartHandled,
       KillSiblingHandled, KillsDoneHandled, RespawnHandled, RespawnOneHandled DEF S!ExitStep
  <2>3. CASE S!TableStep(t) /\ UNCHANGED kind
    BY <1>1, <1>3, <2>3, TableStepHandled
  <2> QED BY <1>2, <2>1, <2>2, <2>3 DEF S!Next
<1> QED BY <1>1, <1>2, <1>4 DEF SupInv

LEMMA SupervisorInit == S!Init => SupInv
<1> SUFFICES ASSUME S!Init PROVE SupInv
  OBVIOUS
<1>1. child_ids = [i \in 1 .. created |-> i] /\ sup_alive = 1 .. created /\ errors = {}
      /\ \A t \in SupThreads : pc[t] = "idle"
  BY DEF S!Init
<1>2. sup_alive \subseteq S!Children
  BY <1>1, IsChild
<1> QED BY <1>1, <1>2, TableInit DEF SupInv, Handled, Handling, FailedKnown

LEMMA DeathSteps ==
  [DeathNext]_<<part, vars, supvars, awaitvars>> => [Next]_vars /\ [S!Next]_(S!vars)
  BY DEF DeathNext, supvars, S!vars

LEMMA TableIsTrue ==
  ASSUME TypeOK, TableInv PROVE TableStaysTrue
<1>1. S!RestartTypeKept
  <2>1. ASSUME mixed = "no", NEW i \in DOMAIN child_ids
        PROVE  child_restart[i] = asked[child_ids[i]]
    <3>1. i \in DOMAIN child_restart /\ child_ids[i] \in S!Ids
      BY TableFacts DEF TableInv, S!TypeOK
    <3> QED BY <2>1, <3>1 DEF TableInv, Restarts
  <2> QED BY <2>1 DEF S!RestartTypeKept
<1> QED BY <1>1 DEF TableInv, Counted, TableStaysTrue

(* The table of a supervisor, its restart types and the counter of living   *)
(* actors stay true through every sequence of exits, restarts and           *)
(* primitives, for any number of threads, children and actors and every     *)
(* kind of supervisor; so do the types of ExitSignals.  The steps of        *)
(* several threads are those of Supervisor: the shift of one array is one   *)
(* step.                                                                    *)
THEOREM TableAlwaysTrue == DeathSpec => []TableStaysTrue
<1>1. DeathInit => ExitInv /\ TableInv
  BY ExitInvInit, TableInit DEF DeathInit
<1>2. ExitInv /\ TableInv /\ [DeathNext]_<<part, vars, supvars, awaitvars>> => (ExitInv /\ TableInv)'
  BY DeathSteps, ExitInvNext, TableStep
<1>3. ExitInv /\ TableInv => TableStaysTrue
  BY TableIsTrue DEF ExitInv
<1> QED BY <1>1, <1>2, <1>3, PTL DEF DeathSpec

(* At every step of supervisor_handle_exit and of the primitives, on one     *)
(* thread, the living children are in the table and each child that died of *)
(* an error is one the handler under way has still to replace, unless no    *)
(* restart is left.                                                         *)
THEOREM SupervisorInvariant == ASSUME OneThread PROVE DeathSpec => []SupInv
<1>1. DeathInit => SupInv
  BY SupervisorInit DEF DeathInit
<1>2. SupInv /\ [DeathNext]_<<part, vars, supvars, awaitvars>> => SupInv'
  BY DeathSteps, SupervisorStep
<1> QED BY <1>1, <1>2, PTL DEF DeathSpec

(* On one scheduler thread a restart forgets no child it did not kill: every *)
(* living child is in the table, whatever was killed, replaced, added or    *)
(* removed, with the actor table full or not.                               *)
THEOREM NobodyOrphaned == ASSUME OneThread PROVE DeathSpec => []NoOrphans
<1>1. SupInv => NoOrphans
  <2> SUFFICES ASSUME SupInv PROVE sup_alive \subseteq S!Children
    BY DEF NoOrphans, S!NoOrphans
  <2> QED BY DEF OneThread, SupInv, Handled
<1> QED BY <1>1, SupervisorInvariant, PTL

(* On one scheduler thread a child that died of an error has been replaced  *)
(* when its exit is handled, unless the restart budget or the actor table   *)
(* is exhausted.                                                            *)
THEOREM FailedReplaced == ASSUME OneThread PROVE DeathSpec => []FailedAreReplaced
<1>1. SupInv => FailedAreReplaced
  <2> SUFFICES ASSUME SupInv, \A t \in SupThreads : pc[t] = "idle", ~Spent
               PROVE  S!Children \cap errors = {}
    BY DEF FailedAreReplaced, S!FailedAreReplaced, S!Quiet, Spent
  <2> QED BY WaitsForHandler DEF OneThread, SupInv
<1> QED BY <1>1, SupervisorInvariant, PTL

(* On one scheduler thread a step of a handler leaves every child alone that *)
(* the strategy does not name: it keeps its place and stays alive.          *)
Spared(t) ==
  pc[t] \in {"kill", "respawn", "respawn_one"} =>
    \A i \in DOMAIN child_ids :
      \/ S!Strategy = "one_for_all" \/ i = dead[t]
      \/ S!Strategy = "rest_for_one" /\ i > dead[t]
      \/ child_ids'[i] = child_ids[i] /\ (child_ids[i] \in sup_alive => child_ids[i] \in sup_alive')

LEMMA HandlerSpares ==
  ASSUME TableInv, NEW t \in SupThreads, Handled(t), S!ExitStep(t) \/ S!TableStep(t)
  PROVE  Spared(t)
<1> SUFFICES ASSUME pc[t] \in {"kill", "respawn", "respawn_one"}, S!Strategy # "one_for_all",
                    NEW i \in DOMAIN child_ids, i # dead[t],
                    ~(S!Strategy = "rest_for_one" /\ i > dead[t])
             PROVE  child_ids'[i] = child_ids[i] /\ (child_ids[i] \in sup_alive => child_ids[i] \in sup_alive')
  BY DEF Spared
<1>1. sup_alive \subseteq S!Children /\ dead[t] \in DOMAIN child_ids
  BY DEF Handled, Handling
<1>2. S!KillSibling(t) \/ S!KillsDone(t) \/ S!Respawn(t) \/ S!RespawnsDone(t) \/ S!RespawnOne(t)
  BY DEF S!ExitStep, S!TableStep, S!ChildDies, S!NormalExit, S!HandleNothing, S!HandleTemporary,
     S!HandleRestart, S!SupAddChild, S!DynsupStartChild, S!SupRemoveChild, S!DynsupTerminateChild,
     S!Call
<1>3. pc[t] \in {"kill", "respawn"} => S!Strategy = "rest_for_one" /\ index[t] >= dead[t]
      /\ index[t] \in 1 .. Len(child_ids) + 1
  <2>1. kind \in {"one_for_one", "one_for_all", "rest_for_one", "dynamic"}
    BY SupervisorAssumption DEF TableInv, S!TypeOK
  <2>2. pc[t] \in {"kill", "respawn"} => S!Strategy # "one_for_one"
    BY DEF TableInv, Loops
  <2> QED BY <2>1, <2>2 DEF S!Strategy, S!Dynamic, Handled, Handling, Concerns
<1>4. i \in Int /\ dead[t] \in Int
  BY TableFacts, <1>1
<1>5. CASE S!KillSibling(t)
  <2>1. UNCHANGED child_ids /\ i # index[t] /\ index[t] \in DOMAIN child_ids
    BY <1>3, <1>4, <1>5, TableFacts DEF S!KillSibling, S!table
  <2>2. child_ids[i] # child_ids[index[t]]
    BY <2>1 DEF TableInv, Placed
  <2> QED BY <1>5, <2>1, <2>2 DEF S!KillSibling
<1>6. CASE S!KillsDone(t) \/ S!RespawnsDone(t)
  BY <1>6 DEF S!KillsDone, S!RespawnsDone, S!table, S!actors
<1>7. CASE S!Respawn(t)
  <2>1. i # index[t] /\ index[t] \in DOMAIN child_ids
    BY <1>3, <1>4, <1>7, TableFacts DEF S!Respawn
  <2>2. child_ids[index[t]] \notin sup_alive
    BY <1>7, <2>1, TableFacts DEF S!Respawn, Handled, Handling
  <2> QED BY <1>1, <1>7, <2>1, <2>2, Reborn DEF S!Respawn
<1>8. CASE S!RespawnOne(t)
  <2>1. child_ids[dead[t]] \notin sup_alive /\ S!Spawn(child_ids, dead[t])
        /\ UNCHANGED <<errors, restart_count>>
    BY <1>1, <1>8, TableFacts DEF S!RespawnOne, Handled, Handling
  <2> QED BY <1>1, <2>1, Reborn
<1> QED BY <1>2, <1>5, <1>6, <1>7, <1>8

(* Handling an exit moves only the children the strategy names: those       *)
(* before the dead child are left alone by rest-for-one, all others by      *)
(* one-for-one (supervisor_handle_exit), for any number of children.        *)
THEOREM StrategySpares == ASSUME OneThread PROVE DeathSpec => SiblingsSpared
<1>1. SupInv /\ [DeathNext]_<<part, vars, supvars, awaitvars>>
        => [\A t \in SupThreads : Spared(t)]_<<child_ids, sup_alive>>
  <2> SUFFICES ASSUME SupInv, [S!Next]_(S!vars), ~UNCHANGED <<child_ids, sup_alive>>,
                      NEW t \in SupThreads
               PROVE  Spared(t)
    BY DeathSteps
  <2>1. PICK u \in SupThreads : S!ExitStep(u) \/ S!TableStep(u)
    BY DEF S!Next, S!vars
  <2>2. u = t
    BY DEF OneThread
  <2> QED BY <2>1, <2>2, HandlerSpares DEF SupInv
<1>2. [][\A t \in SupThreads : Spared(t)]_<<child_ids, sup_alive>> => SiblingsSpared
  BY DEF Spared, SiblingsSpared, S!SiblingsSpared
<1> QED BY <1>1, <1>2, SupervisorInvariant, PTL DEF DeathSpec

-----------------------------------------------------------------------------
(* Tasks and their awaiters                                                 *)

Results == {Nil, "result", "reason"}

(* The fields keep their types. *)
Fields ==
  /\ obj \in [mode : {"poll", "threads"}, alive : BOOLEAN, result : Results, scan : SUBSET Awaiters,
              at : [Awaiters -> {"running", "recorded", "flagged", "suspended", "done"}],
              wait_flag : [Awaiters -> {0, 1}], queued : [Awaiters -> Nat], mail : [Awaiters -> Nat],
              got : [Awaiters -> Results]]
  /\ spec \in [killed : BOOLEAN, missed : SUBSET Awaiters, messaged : SUBSET Awaiters]

(* Nobody has a result before the task has one, all have the same, and     *)
(* nothing is scanned before the end.                                       *)
OneResult ==
  /\ obj.alive <=> obj.result = Nil
  /\ obj.alive => obj.scan = {}
  /\ \A w \in Awaiters : obj.got[w] # Nil => ~obj.alive /\ obj.got[w] = obj.result

(* The flag and the queue entry are one token, made once. *)
OneToken ==
  \A w \in Awaiters :
    /\ obj.queued[w] + obj.wait_flag[w] <= 1
    /\ obj.at[w] \in {"running", "recorded"} => obj.queued[w] = 0 /\ obj.wait_flag[w] = 0

(* A waiting awaiter has its token, or a message took it while the task     *)
(* lived.                                                                   *)
TokenKept ==
  \A w \in Awaiters :
    /\ obj.at[w] \in {"flagged", "suspended"} /\ obj.queued[w] + obj.wait_flag[w] = 0 => w \in spec.messaged
    /\ obj.alive /\ obj.queued[w] > 0 => w \in spec.messaged

(* Whoever still waits with its flag up after the scan came behind it. *)
ScanFinds ==
  obj.mode = "threads" /\ ~obj.alive /\ ~spec.killed =>
    \A w \in Awaiters \ obj.scan :
      \/ obj.at[w] \in {"recorded", "flagged"}
      \/ obj.at[w] = "suspended" /\ obj.wait_flag[w] = 1
      => w \in spec.missed

AwaitInv == Fields /\ OneResult /\ OneToken /\ TokenKept /\ ScanFinds

USE AwaitAssumption

(* Every step keeps the invariant. *)
LEMMA AwaitStep ==
  ASSUME AwaitInv, A!Next
  PROVE  AwaitInv'
<1>1. ASSUME A!actor_finish PROVE AwaitInv'
  <2>1. Fields' BY <1>1 DEF AwaitInv, Fields, OneResult, Results, A!actor_finish
  <2>2. OneResult' BY <1>1 DEF AwaitInv, Fields, OneResult, Results, A!actor_finish
  <2>3. OneToken' BY <1>1 DEF AwaitInv, Fields, OneToken, Results, A!actor_finish
  <2>4. TokenKept'
    BY <1>1 DEF AwaitInv, Fields, OneResult, OneToken, TokenKept, Results, A!actor_finish
  <2>5. ScanFinds'
    BY <1>1 DEF AwaitInv, Fields, OneResult, OneToken, ScanFinds, Results, A!actor_finish
  <2> QED BY <2>1, <2>2, <2>3, <2>4, <2>5 DEF AwaitInv
<1>2. ASSUME A!actor_exit_signal PROVE AwaitInv'
  <2>1. Fields' BY <1>2 DEF AwaitInv, Fields, OneResult, Results, A!actor_exit_signal
  <2>2. OneResult' BY <1>2 DEF AwaitInv, Fields, OneResult, Results, A!actor_exit_signal
  <2>3. OneToken' BY <1>2 DEF AwaitInv, Fields, OneToken, Results, A!actor_exit_signal
  <2>4. TokenKept'
    BY <1>2 DEF AwaitInv, Fields, OneResult, OneToken, TokenKept, Results, A!actor_exit_signal
  <2>5. ScanFinds'
    BY <1>2 DEF AwaitInv, Fields, OneResult, OneToken, ScanFinds, Results, A!actor_exit_signal
  <2> QED BY <2>1, <2>2, <2>3, <2>4, <2>5 DEF AwaitInv
<1>3. ASSUME NEW w \in Awaiters, A!prim_task_await(w) PROVE AwaitInv'
  <2>1. Fields' BY <1>3 DEF AwaitInv, Fields, OneResult, Results, A!prim_task_await
  <2>2. OneResult' BY <1>3 DEF AwaitInv, Fields, OneResult, Results, A!prim_task_await
  <2>3. OneToken' BY <1>3 DEF AwaitInv, Fields, OneToken, Results, A!prim_task_await
  <2>4. TokenKept'
    BY <1>3 DEF AwaitInv, Fields, OneResult, OneToken, TokenKept, Results, A!prim_task_await
  <2>5. ScanFinds'
    BY <1>3 DEF AwaitInv, Fields, OneResult, OneToken, ScanFinds, Results, A!prim_task_await
  <2> QED BY <2>1, <2>2, <2>3, <2>4, <2>5 DEF AwaitInv
<1>4. ASSUME NEW w \in Awaiters, A!RaiseFlag(w) PROVE AwaitInv'
  <2>1. Fields' BY <1>4 DEF AwaitInv, Fields, OneResult, Results, A!RaiseFlag
  <2>2. OneResult' BY <1>4 DEF AwaitInv, Fields, OneResult, Results, A!RaiseFlag
  <2>3. OneToken' BY <1>4 DEF AwaitInv, Fields, OneToken, Results, A!RaiseFlag
  <2>4. TokenKept'
    BY <1>4 DEF AwaitInv, Fields, OneResult, OneToken, TokenKept, Results, A!RaiseFlag
  <2>5. ScanFinds'
    BY <1>4 DEF AwaitInv, Fields, OneResult, OneToken, ScanFinds, Results, A!RaiseFlag
  <2> QED BY <2>1, <2>2, <2>3, <2>4, <2>5 DEF AwaitInv
<1>5. ASSUME NEW w \in Awaiters, A!fiber_yield(w) PROVE AwaitInv'
  <2>1. Fields' BY <1>5 DEF AwaitInv, Fields, OneResult, Results, A!fiber_yield
  <2>2. OneResult' BY <1>5 DEF AwaitInv, Fields, OneResult, Results, A!fiber_yield
  <2>3. OneToken' BY <1>5 DEF AwaitInv, Fields, OneToken, Results, A!fiber_yield
  <2>4. TokenKept'
    BY <1>5 DEF AwaitInv, Fields, OneResult, OneToken, TokenKept, Results, A!fiber_yield
  <2>5. ScanFinds'
    BY <1>5 DEF AwaitInv, Fields, OneResult, OneToken, ScanFinds, Results, A!fiber_yield
  <2> QED BY <2>1, <2>2, <2>3, <2>4, <2>5 DEF AwaitInv
<1>6. ASSUME NEW w \in Awaiters, A!WakeAwaiter(w) PROVE AwaitInv'
  <2>1. Fields'
    <3>1. obj.queued[w] \in Nat /\ obj.wait_flag[w] \in {0, 1} /\ obj.queued[w] + obj.wait_flag[w] \in Nat
     BY DEF AwaitInv, Fields
    <3>3. spec' \in [killed : BOOLEAN, missed : SUBSET Awaiters, messaged : SUBSET Awaiters]
     BY <1>6 DEF AwaitInv, Fields, A!WakeAwaiter
    <3> QED BY <1>6, <3>1, <3>3 DEF AwaitInv, Fields, OneResult, Results, A!WakeAwaiter
  <2>2. OneResult' BY <1>6 DEF AwaitInv, Fields, OneResult, Results, A!WakeAwaiter
  <2>3. OneToken' BY <1>6 DEF AwaitInv, Fields, OneToken, Results, A!WakeAwaiter
  <2>4. TokenKept'
    BY <1>6 DEF AwaitInv, Fields, OneResult, OneToken, TokenKept, Results, A!WakeAwaiter
  <2>5. ScanFinds'
    BY <1>6 DEF AwaitInv, Fields, OneResult, OneToken, ScanFinds, Results, A!WakeAwaiter
  <2> QED BY <2>1, <2>2, <2>3, <2>4, <2>5 DEF AwaitInv
<1>7. ASSUME NEW w \in Awaiters, A!actor_send(w) PROVE AwaitInv'
  <2>1. Fields'
    <3>1. obj.queued[w] \in Nat /\ obj.wait_flag[w] \in {0, 1} /\ obj.queued[w] + obj.wait_flag[w] \in Nat
     BY DEF AwaitInv, Fields
    <3>2. obj.mail[w] + 1 \in Nat BY DEF AwaitInv, Fields
    <3>3. spec' \in [killed : BOOLEAN, missed : SUBSET Awaiters, messaged : SUBSET Awaiters]
     BY <1>7 DEF AwaitInv, Fields, A!actor_send
    <3> QED
      BY <1>7, <3>1, <3>2, <3>3 DEF AwaitInv, Fields, OneResult, Results, A!actor_send
  <2>2. OneResult' BY <1>7 DEF AwaitInv, Fields, OneResult, Results, A!actor_send
  <2>3. OneToken' BY <1>7 DEF AwaitInv, Fields, OneToken, Results, A!actor_send
  <2>4. TokenKept'
    BY <1>7 DEF AwaitInv, Fields, OneResult, OneToken, TokenKept, Results, A!actor_send
  <2>5. ScanFinds'
    BY <1>7 DEF AwaitInv, Fields, OneResult, OneToken, ScanFinds, Results, A!actor_send
  <2> QED BY <2>1, <2>2, <2>3, <2>4, <2>5 DEF AwaitInv
<1>8. ASSUME NEW w \in Awaiters, A!sched_run_one_quantum(w) PROVE AwaitInv'
  <2>1. Fields'
    <3>1. obj.queued[w] \in Nat /\ obj.wait_flag[w] \in {0, 1} /\ obj.queued[w] + obj.wait_flag[w] \in Nat
     BY DEF AwaitInv, Fields
    <3>2. obj.queued[w] - 1 \in Nat BY <1>8, <3>1 DEF A!sched_run_one_quantum
    <3>3. spec' \in [killed : BOOLEAN, missed : SUBSET Awaiters, messaged : SUBSET Awaiters]
     BY <1>8 DEF AwaitInv, Fields, A!sched_run_one_quantum
    <3> QED
      BY <1>8, <3>1, <3>2, <3>3 DEF AwaitInv, Fields, OneResult, Results,
          A!sched_run_one_quantum, A!Resume
  <2>2. OneResult'
    BY <1>8 DEF AwaitInv, Fields, OneResult, Results, A!sched_run_one_quantum, A!Resume
  <2>3. OneToken'
    BY <1>8 DEF AwaitInv, Fields, OneToken, Results, A!sched_run_one_quantum, A!Resume
  <2>4. TokenKept'
    BY <1>8 DEF AwaitInv, Fields, OneResult, OneToken, TokenKept, Results,
        A!sched_run_one_quantum, A!Resume
  <2>5. ScanFinds'
    BY <1>8 DEF AwaitInv, Fields, OneResult, OneToken, ScanFinds, Results,
        A!sched_run_one_quantum, A!Resume
  <2> QED BY <2>1, <2>2, <2>3, <2>4, <2>5 DEF AwaitInv
<1>9. ASSUME NEW w \in Awaiters, A!actor_run_all(w) PROVE AwaitInv'
  <2>1. Fields'
    BY <1>9 DEF AwaitInv, Fields, OneResult, Results, A!actor_run_all, A!Resume
  <2>2. OneResult'
    BY <1>9 DEF AwaitInv, Fields, OneResult, Results, A!actor_run_all, A!Resume
  <2>3. OneToken'
    BY <1>9 DEF AwaitInv, Fields, OneToken, Results, A!actor_run_all, A!Resume
  <2>4. TokenKept'
    BY <1>9 DEF AwaitInv, Fields, OneResult, OneToken, TokenKept, Results, A!actor_run_all, A!Resume
  <2>5. ScanFinds'
    BY <1>9 DEF AwaitInv, Fields, OneResult, OneToken, ScanFinds, Results, A!actor_run_all, A!Resume
  <2> QED BY <2>1, <2>2, <2>3, <2>4, <2>5 DEF AwaitInv
<1> QED BY <1>1, <1>2, <1>3, <1>4, <1>5, <1>6, <1>7, <1>8, <1>9 DEF A!Next

(* The initial states, and what the invariant says of the awaiters. *)
LEMMA AwaitInit ==
  ASSUME A!Init
  PROVE  AwaitInv
BY DEF A!Init, AwaitInv, Fields, OneResult, OneToken, TokenKept, ScanFinds, Results

LEMMA AwaitImplies ==
  ASSUME AwaitInv
  PROVE  A!AwaitSound
BY DEF AwaitInv, Fields, OneResult, OneToken, TokenKept, ScanFinds, Results, A!AwaitSound,
    A!Stranded

(* An awaiter has the result of a task that has ended, is in one run queue  *)
(* at most, and is stranded only by a killed task, by a registration        *)
(* behind the scan of actor_finish, or by a message that took its flag.     *)
THEOREM AwaitersAreWoken == DeathSpec => []AwaitSound
<1> DEFINE Inv == part = "await" => AwaitInv
<1>1. DeathInit => Inv
 BY AwaitInit DEF DeathInit
<1>2. Inv /\ [DeathNext]_<<part, vars, supvars, awaitvars>> => Inv'
  <2>1. ASSUME AwaitInv, A!Next PROVE AwaitInv'
   BY <2>1, AwaitStep
  <2>2. ASSUME AwaitInv, UNCHANGED awaitvars PROVE AwaitInv'
   BY <2>2 DEF awaitvars, AwaitInv, Fields, OneResult, OneToken, TokenKept, ScanFinds
  <2> QED BY <2>1, <2>2 DEF DeathNext
<1>3. Inv => AwaitSound
 BY AwaitImplies DEF AwaitSound
<1> QED BY <1>1, <1>2, <1>3, PTL DEF DeathSpec
=============================================================================
