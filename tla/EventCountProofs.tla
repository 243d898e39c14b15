-------------------------- MODULE EventCountProofs ---------------------------
(***************************************************************************)
(* The waiter count of the eventcount is exact for any finite set of       *)
(* scheduler threads, any producers and every platform.                    *)
(*                                                                         *)
(* The invariant is inductive together with the types.  Every step of a    *)
(* worker leaves the set of registered threads alone, adds the worker to   *)
(* it or takes it out, and changes the count to match; a notifier moves    *)
(* sleepers to "unregister", where they are still registered.              *)
(***************************************************************************)
EXTENDS EventCount, FiniteSetTheorems, TLAPS

(* The registered threads, and the types of everything but their number. *)
Reg == {w \in Waiters : Registered(w)}
Rest ==
  /\ epoch \in Nat /\ posts \in 0 .. MaxPosts
  /\ work \in [Waiters -> {"empty", "full"}] /\ {stop, alive} \subseteq {"no", "yes"}
  /\ wpc \in [Waiters -> WaiterPC] /\ npc \in [Notifiers -> NotifierPC]
  /\ seen \in [Waiters -> Nat] /\ val \in [Waiters -> Nat] /\ platform \in Platforms

(* Three ways in which a step may treat the count and the set together. *)
Kept == waiters' = waiters /\ Reg' = Reg
Entered(w) == waiters' = waiters + 1 /\ w \notin Reg /\ Reg' = Reg \cup {w}
Left(w) == waiters' = waiters - 1 /\ w \in Reg /\ Reg' = Reg \ {w}

(* A worker's step of eventcount.h, park.c or the loop around them treats   *)
(* its own registration in one of the three ways, and keeps the types.      *)
LEMMA WaiterSteps ==
  ASSUME TypeOK, NEW w \in Waiters, WaiterStep(w), UNCHANGED platform
  PROVE  Rest' /\ (Kept \/ Entered(w) \/ Left(w))
<1>1. CASE TakeWork(w)
  <2>1. Rest'
    BY <1>1 DEF TakeWork, Goto, TypeOK, Rest, WaiterPC
  <2>2. Kept
    BY <1>1 DEF TakeWork, Goto, TypeOK, Reg, Registered, Kept, WaiterPC
  <2> QED BY <2>1, <2>2
<1>2. CASE Leave(w)
  <2>1. Rest'
    BY <1>2 DEF Leave, Goto, TypeOK, Rest, WaiterPC
  <2>2. Kept
    BY <1>2 DEF Leave, Goto, TypeOK, Reg, Registered, Kept, WaiterPC
  <2> QED BY <2>1, <2>2
<1>3. CASE GoIdle(w)
  <2>1. Rest'
    BY <1>3 DEF GoIdle, Goto, TypeOK, Rest, WaiterPC
  <2>2. Kept
    BY <1>3 DEF GoIdle, Goto, TypeOK, Reg, Registered, Kept, WaiterPC
  <2> QED BY <2>1, <2>2
<1>4. CASE PrepareWait(w)
  <2>1. Rest'
    BY <1>4 DEF PrepareWait, Goto, TypeOK, Rest, WaiterPC
  <2>2. Entered(w)
    BY <1>4 DEF PrepareWait, Goto, TypeOK, Reg, Registered, Entered, WaiterPC
  <2> QED BY <2>1, <2>2
<1>5. CASE CancelForStop(w)
  <2>1. Rest'
    BY <1>5 DEF CancelForStop, Goto, Deregister, TypeOK, Rest, WaiterPC
  <2>2. Left(w)
    BY <1>5 DEF CancelForStop, Goto, Deregister, TypeOK, Reg, Registered, Left, WaiterPC
  <2> QED BY <2>1, <2>2
<1>6. CASE CancelForWork(w)
  <2>1. Rest'
    BY <1>6 DEF CancelForWork, Goto, Deregister, TypeOK, Rest, WaiterPC
  <2>2. Left(w)
    BY <1>6 DEF CancelForWork, Goto, Deregister, TypeOK, Reg, Registered, Left, WaiterPC
  <2> QED BY <2>1, <2>2
<1>7. CASE NothingFound(w)
  <2>1. Rest'
    BY <1>7 DEF NothingFound, Goto, TypeOK, Rest, WaiterPC
  <2>2. Kept
    BY <1>7 DEF NothingFound, Goto, TypeOK, Reg, Registered, Kept, WaiterPC
  <2> QED BY <2>1, <2>2
<1>8. CASE CommitWait(w)
  <2>1. Rest'
    BY <1>8 DEF CommitWait, Goto, TypeOK, Rest, WaiterPC
  <2>2. Kept
    BY <1>8 DEF CommitWait, Goto, TypeOK, Reg, Registered, Kept, WaiterPC
  <2> QED BY <2>1, <2>2
<1>9. CASE SpinSeesEpoch(w)
  <2>1. Rest'
    BY <1>9 DEF SpinSeesEpoch, Goto, TypeOK, Rest, WaiterPC
  <2>2. Kept
    BY <1>9 DEF SpinSeesEpoch, Goto, TypeOK, Reg, Registered, Kept, WaiterPC
  <2> QED BY <2>1, <2>2
<1>10. CASE LastLook(w)
  <2>1. Rest'
    BY <1>10 DEF LastLook, Goto, TypeOK, Rest, WaiterPC
  <2>2. Kept
    BY <1>10 DEF LastLook, Goto, TypeOK, Reg, Registered, Kept, WaiterPC
  <2> QED BY <2>1, <2>2
<1>11. CASE SystemWait(w)
  <2>1. Rest'
    BY <1>11 DEF SystemWait, Goto, TypeOK, Rest, WaiterPC
  <2>2. Kept
    BY <1>11 DEF SystemWait, Goto, TypeOK, Reg, Registered, Kept, WaiterPC
  <2> QED BY <2>1, <2>2
<1>12. CASE FallbackWait(w)
  <2>1. Rest'
    BY <1>12 DEF FallbackWait, Goto, TypeOK, Rest, WaiterPC
  <2>2. Kept
    BY <1>12 DEF FallbackWait, Goto, TypeOK, Reg, Registered, Kept, WaiterPC
  <2> QED BY <2>1, <2>2
<1>13. CASE WaitTimeout(w)
  <2>1. Rest'
    BY <1>13 DEF WaitTimeout, Goto, TypeOK, Rest, WaiterPC
  <2>2. Kept
    BY <1>13 DEF WaitTimeout, Goto, TypeOK, Reg, Registered, Kept, WaiterPC
  <2> QED BY <2>1, <2>2
<1>14. CASE Unregister(w)
  <2>1. Rest'
    BY <1>14 DEF Unregister, Goto, Deregister, TypeOK, Rest, WaiterPC
  <2>2. Left(w)
    BY <1>14 DEF Unregister, Goto, Deregister, TypeOK, Reg, Registered, Left, WaiterPC
  <2> QED BY <2>1, <2>2
<1> QED BY <1>1, <1>2, <1>3, <1>4, <1>5, <1>6, <1>7, <1>8, <1>9, <1>10, <1>11, <1>12, <1>13, <1>14 DEF WaiterStep

(* A notifier's step registers nobody and forgets nobody. *)
LEMMA NotifierSteps ==
  ASSUME TypeOK, NEW n \in Notifiers, Produce(n) \/ NotifyStep(n), UNCHANGED platform
  PROVE  Rest' /\ Kept
<1>1. CASE \E w \in Waiters : Post(n, w)
  <2>1. PICK w \in Waiters : Post(n, w) BY <1>1
  <2>2. Rest' BY <2>1, MaxPostsAssumption DEF Post, TypeOK, Rest, NotifierPC
  <2>3. Kept BY <2>1 DEF Post, Kept, Reg, Registered
  <2> QED BY <2>2, <2>3
<1>2. CASE Nudge(n)
  <2>1. Rest' BY <1>2, MaxPostsAssumption DEF Nudge, TypeOK, Rest, NotifierPC
  <2>2. Kept BY <1>2 DEF Nudge, Kept, Reg, Registered
  <2> QED BY <2>1, <2>2
<1>3. CASE Shutdown(n)
  <2>1. Rest' BY <1>3 DEF Shutdown, TypeOK, Rest, NotifierPC
  <2>2. Kept BY <1>3 DEF Shutdown, Kept, Reg, Registered
  <2> QED BY <2>1, <2>2
<1>7. CASE AliveChanges(n)
  <2>1. Rest' BY <1>7, MaxPostsAssumption DEF AliveChanges, TypeOK, Rest, NotifierPC
  <2>2. Kept BY <1>7 DEF AliveChanges, Kept, Reg, Registered
  <2> QED BY <2>1, <2>2
<1>4. CASE Bump(n)
  <2>1. Rest' BY <1>4 DEF Bump, TypeOK, Rest, NotifierPC
  <2>2. Kept BY <1>4 DEF Bump, Kept, Reg, Registered
  <2> QED BY <2>1, <2>2
<1>5. CASE WakeAll(n)
  <2>1. Rest' BY <1>5 DEF WakeAll, TypeOK, Rest, NotifierPC, WaiterPC
  <2>2. Kept BY <1>5 DEF WakeAll, Asleep, TypeOK, Kept, Reg, Registered
  <2> QED BY <2>1, <2>2
<1>6. CASE WakeOne(n)
  <2>1. CASE Asleep = {}
    BY <1>6, <2>1 DEF WakeOne, TypeOK, Rest, NotifierPC, Kept, Reg, Registered
  <2>2. CASE Asleep # {}
    <3>1. PICK w \in Asleep : Goto(w, "unregister") BY <1>6, <2>2 DEF WakeOne
    <3>2. Rest' BY <1>6, <3>1 DEF WakeOne, Goto, Asleep, TypeOK, Rest, NotifierPC, WaiterPC
    <3>3. Kept BY <1>6, <3>1 DEF WakeOne, Goto, Asleep, TypeOK, Kept, Reg, Registered
    <3> QED BY <3>2, <3>3
  <2> QED BY <2>1, <2>2
<1> QED BY <1>1, <1>2, <1>3, <1>4, <1>5, <1>6, <1>7 DEF Produce, NotifyStep

(* The number of registered threads follows the set. *)
LEMMA CountFollows ==
  ASSUME WaitersExact, Rest',
         Kept \/ \E w \in Waiters : Entered(w) \/ Left(w)
  PROVE  TypeOK' /\ WaitersExact'
<1>1. IsFiniteSet(Reg) /\ IsFiniteSet(Reg') /\ waiters = Cardinality(Reg)
  <2>1. Reg \subseteq Waiters /\ Reg' \subseteq Waiters BY DEF Reg
  <2> QED BY <2>1, WaitersFinite, FS_Subset DEF WaitersExact, Reg
<1>2. waiters' = Cardinality(Reg')
  <2>1. CASE Kept BY <1>1, <2>1 DEF Kept
  <2>2. ASSUME NEW w \in Waiters, Entered(w) PROVE waiters' = Cardinality(Reg')
    <3>1. Cardinality(Reg \cup {w}) = Cardinality(Reg) + 1
      BY <1>1, <2>2, FS_AddElement DEF Entered
    <3> QED BY <1>1, <2>2, <3>1 DEF Entered
  <2>3. ASSUME NEW w \in Waiters, Left(w) PROVE waiters' = Cardinality(Reg')
    <3>1. Cardinality(Reg \ {w}) = Cardinality(Reg) - 1
      BY <1>1, <2>3, FS_RemoveElement DEF Left
    <3> QED BY <1>1, <2>3, <3>1 DEF Left
  <2> QED BY <2>1, <2>2, <2>3
<1>3. waiters' \in Nat BY <1>1, <1>2, FS_CardinalityType
<1>4. TypeOK' BY <1>3 DEF Rest, TypeOK
<1>5. WaitersExact' BY <1>2 DEF WaitersExact, Reg
<1> QED BY <1>4, <1>5

(* The lower half of the state word of eventcount.h is the number of        *)
(* registered threads, and every variable keeps its type, in every          *)
(* reachable state.                                                         *)
THEOREM WaiterCountExact == Spec => [](TypeOK /\ WaitersExact)
<1>1. Init => TypeOK /\ WaitersExact
  <2> SUFFICES ASSUME Init PROVE TypeOK /\ WaitersExact OBVIOUS
  <2>1. TypeOK BY MaxPostsAssumption DEF Init, TypeOK, WaiterPC, NotifierPC
  <2>2. {w \in Waiters : Registered(w)} = {} BY DEF Init, Registered
  <2>3. WaitersExact BY <2>2, FS_EmptySet DEF Init, WaitersExact
  <2> QED BY <2>1, <2>3
<1>2. TypeOK /\ WaitersExact /\ [Next]_<<vars, platform>> => TypeOK' /\ WaitersExact'
  <2> SUFFICES ASSUME TypeOK, WaitersExact, [Next]_<<vars, platform>>
               PROVE  TypeOK' /\ WaitersExact'
    OBVIOUS
  <2>1. ASSUME NEW w \in Waiters, WaiterStep(w), UNCHANGED platform PROVE TypeOK' /\ WaitersExact'
    BY <2>1, WaiterSteps, CountFollows
  <2>2. ASSUME NEW n \in Notifiers, Produce(n) \/ NotifyStep(n), UNCHANGED platform
        PROVE  TypeOK' /\ WaitersExact'
    BY <2>2, NotifierSteps, CountFollows
  <2>3. CASE UNCHANGED <<vars, platform>>
    BY <2>3 DEF vars, TypeOK, WaitersExact, Registered
  <2> QED BY <2>1, <2>2, <2>3 DEF Next
<1> QED BY <1>1, <1>2, PTL DEF Spec
=============================================================================
