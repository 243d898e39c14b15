--------------------------- MODULE CellRefsProofs ---------------------------
(***************************************************************************)
(* The counts of one cell, for any finite set of threads and any number of *)
(* operations below half the range of the shared count.                    *)
(*                                                                         *)
(* The shared count and its flag are one word: a count below zero reads as *)
(* a large count with the flag turned over.  Signed undoes this, and the   *)
(* sum of both counts then follows the number of references: it is never   *)
(* below, and above only by references transferred where they had been     *)
(* counted.  While the four ways of RefsSound to let the counts disagree   *)
(* have not been used (Clean), whoever drops the children has seen the sum *)
(* at zero, so no reference is left and none can be made.                  *)
(***************************************************************************)
EXTENDS CellRefs, Functions, FiniteSetTheorems, TLAPS

-----------------------------------------------------------------------------
(* The invariant *)

Places == {"idle", "zero", "merge", "free", "alive", "failed"}

(* The fields keep their types. *)
Fields ==
  /\ obj \in [biased : Nat, owner : {RefOwner, Nil}, shared : 0 .. CountMod - 1, merged : BOOLEAN,
              weak : Nat, frees : Nat, dropped : BOOLEAN, refs : [RefThreads -> [Domains -> Nat]],
              at : [RefThreads -> Places], ops : 0 .. MaxRefOps]
  /\ spec \in [left : BOOLEAN, taken : BOOLEAN, failed : BOOLEAN, reowned : BOOLEAN, raced : BOOLEAN,
               revived : BOOLEAN, weak_raced : BOOLEAN]

(* The threads that have found the cell alive and are about to retain it.   *)
Reviving == {t \in RefThreads : obj.at[t] = "alive"}

(* Every reference was paid for with an operation.                          *)
Paid ==
  /\ obj.biased + Cardinality(Reviving) <= obj.ops + 1
  /\ \A t \in RefThreads, d \in Domains : obj.refs[t][d] + Cardinality(Reviving) <= obj.ops + 1

(* The owner has counted what the others have, unless it was given a        *)
(* reference counted elsewhere.                                             *)
OwnersCount ==
  ~spec.taken /\ obj.owner # Nil =>
    obj.refs[obj.owner]["shared"] = 0 /\ obj.biased >= Cardinality(References({"biased"}))

Failures ==
  /\ spec.failed => spec.taken
  /\ obj.frees > 0 => obj.dropped \/ spec.weak_raced

(* The shared count as a number that may be below zero.                     *)
Signed == IF obj.shared <= MaxRefOps THEN obj.shared ELSE obj.shared - CountMod
Merged == obj.merged /\ Signed >= 0
NoCounts == obj.biased = 0 /\ Signed = 0

Freeing(t) == obj.at[t] = "free"
Releasing(t) == obj.at[t] \in {"zero", "merge"}

(* The counts against the references. *)
Balanced ==
  /\ obj.biased + Signed >= AllHeld
  /\ ~spec.left => /\ obj.biased + Signed = AllHeld
                   /\ Signed >= Cardinality(References({"shared", "moved"}))
  /\ Signed + Cardinality(Reviving) <= obj.ops
  /\ Signed < 0 => obj.merged

(* The flag says that the owner has gone; until it is set the owner is in   *)
(* its last release.                                                        *)
Disowned ==
  /\ Merged => obj.biased = 0
  /\ \A t \in RefThreads : Releasing(t) =>
       /\ obj.owner = t /\ obj.biased = 0 /\ ~obj.merged /\ ~obj.dropped
       /\ \A u \in RefThreads : ~Freeing(u)
  /\ obj.biased = 0 /\ ~Merged => obj.dropped \/ \E t \in RefThreads : Releasing(t) \/ Freeing(t)

(* One thread frees, once, when both counts are zero; and it does.          *)
Gone ==
  /\ \A t \in RefThreads : Freeing(t) => NoCounts /\ ~obj.dropped
  /\ \A t, u \in RefThreads : Freeing(t) /\ Freeing(u) => t = u
  /\ obj.dropped => NoCounts
  /\ NoCounts => \/ spec.left \/ spec.raced \/ obj.dropped
                 \/ \E t \in RefThreads : Releasing(t) \/ Freeing(t)

FreedOnce ==
  /\ obj.dropped /\ obj.weak = 0 => obj.frees > 0
  /\ ~spec.weak_raced => obj.frees = IF obj.dropped /\ obj.weak = 0 THEN 1 ELSE 0

Clean == ~spec.reowned /\ ~spec.revived
Sane == Balanced /\ Disowned /\ Gone /\ FreedOnce

RefsInv == Fields /\ Paid /\ OwnersCount /\ Failures /\ (Clean => Sane)

-----------------------------------------------------------------------------
(* Counting references *)

Counts == [RefThreads -> [Domains -> Nat]]
Kept(f, in) == {r \in RefThreads \X in \X (1 .. MaxRefOps + 1) : r[3] <= f[r[1]][r[2]]}

LEMMA ReferencesAreKept ==
  ASSUME NEW in
  PROVE  References(in) = Kept(obj.refs, in) /\ References(in)' = Kept(obj'.refs, in)
BY DEF References, Kept

LEMMA KeptFinite ==
  ASSUME CellConstants, NEW f, NEW in \in SUBSET Domains
  PROVE  IsFiniteSet(Kept(f, in)) /\ Cardinality(Kept(f, in)) \in Nat
<1>1. IsFiniteSet(Domains)
  <2>1. Domains = {"biased"} \cup {"shared"} \cup {"moved"}
    BY DEF Domains
  <2> QED BY <2>1, FS_Singleton, FS_Union
<1>2. IsFiniteSet(in) /\ IsFiniteSet(RefThreads) /\ IsFiniteSet(1 .. MaxRefOps + 1)
  BY <1>1, FS_Subset, FS_Interval DEF CellConstants
<1>3. IsFiniteSet(RefThreads \X (in \X (1 .. MaxRefOps + 1)))
  BY <1>2, FS_Product
<1>4. IsFiniteSet(RefThreads \X in \X (1 .. MaxRefOps + 1))
  <2> DEFINE S == RefThreads \X in \X (1 .. MaxRefOps + 1)
             T == RefThreads \X (in \X (1 .. MaxRefOps + 1))
             h == [r \in T |-> <<r[1], r[2][1], r[2][2]>>]
  <2>1. \A s \in S : \E r \in T : h[r] = s
    <3> SUFFICES ASSUME NEW s \in S
                 PROVE  <<s[1], <<s[2], s[3]>>>> \in T /\ h[<<s[1], <<s[2], s[3]>>>>] = s
      OBVIOUS
    <3> QED OBVIOUS
  <2>2. S \subseteq {h[r] : r \in T}
    BY <2>1
  <2>3. IsFiniteSet({h[r] : r \in T})
    <3> HIDE DEF T, h
    <3>1. h \in [T -> {h[r] : r \in T}]
      BY DEF h
    <3>2. h \in Surjection(T, {h[r] : r \in T})
      BY <3>1 DEF Surjection
    <3> QED BY <1>3, <3>2, FS_Surjection DEF T
  <2> QED BY <2>2, <2>3, FS_Subset
<1>5. Kept(f, in) \subseteq RefThreads \X in \X (1 .. MaxRefOps + 1)
  BY DEF Kept
<1> QED BY <1>4, <1>5, FS_Subset, FS_CardinalityType

LEMMA KeptUp ==
  ASSUME CellConstants, NEW f \in Counts, NEW in \in SUBSET Domains, NEW t \in RefThreads, NEW d \in Domains,
         f[t][d] <= MaxRefOps
  PROVE  Cardinality(Kept([f EXCEPT ![t][d] = @ + 1], in))
           = Cardinality(Kept(f, in)) + (IF d \in in THEN 1 ELSE 0)
<1> DEFINE g == [f EXCEPT ![t][d] = @ + 1]
           new == <<t, d, f[t][d] + 1>>
<1>1. \A u \in RefThreads, e \in Domains :
        g[u][e] = IF u = t /\ e = d THEN f[u][e] + 1 ELSE f[u][e]
  BY DEF Counts
<1>2. f[t][d] \in Nat /\ \A u \in RefThreads, e \in Domains : f[u][e] \in Nat
  BY DEF Counts
<1> HIDE DEF g
<1>3. CASE d \in in
  <2>1. Kept(g, in) = Kept(f, in) \cup {new}
    BY <1>1, <1>2, <1>3 DEF Kept, CellConstants
  <2>2. new \notin Kept(f, in)
    BY <1>2 DEF Kept
  <2>3. Cardinality(Kept(f, in) \cup {new}) = Cardinality(Kept(f, in)) + 1
    BY <2>2, KeptFinite, FS_AddElement
  <2> QED BY <1>3, <2>1, <2>3 DEF g
<1>4. CASE d \notin in
  <2>1. Kept(g, in) = Kept(f, in)
    BY <1>1, <1>4 DEF Kept
  <2> QED BY <1>4, <2>1, KeptFinite DEF g
<1> QED BY <1>3, <1>4

LEMMA KeptDown ==
  ASSUME CellConstants, NEW f \in Counts, NEW in \in SUBSET Domains, NEW t \in RefThreads, NEW d \in Domains,
         f[t][d] > 0, f[t][d] <= MaxRefOps + 1
  PROVE  /\ Cardinality(Kept([f EXCEPT ![t][d] = @ - 1], in))
              = Cardinality(Kept(f, in)) - (IF d \in in THEN 1 ELSE 0)
         /\ [f EXCEPT ![t][d] = @ - 1] \in Counts
         /\ d \in in => Cardinality(Kept(f, in)) >= 1
<1> DEFINE g == [f EXCEPT ![t][d] = @ - 1]
<1>1. f[t][d] \in Nat
  BY DEF Counts
<1>2. g \in Counts
  BY <1>1 DEF Counts
<1>3. g[t][d] = f[t][d] - 1
  BY <1>1 DEF Counts
<1>4. [g EXCEPT ![t][d] = @ + 1] = f
  <2> DEFINE back == [g EXCEPT ![t][d] = @ + 1]
  <2>1. \A u \in RefThreads, e \in Domains : back[u][e] = f[u][e]
    <3> SUFFICES ASSUME NEW u \in RefThreads, NEW e \in Domains PROVE back[u][e] = f[u][e]
      OBVIOUS
    <3>1. f[u][e] \in Nat
      BY DEF Counts
    <3> QED BY <1>1, <3>1 DEF Counts
  <2>2. back \in [RefThreads -> [Domains -> Int]] /\ f \in [RefThreads -> [Domains -> Int]]
    BY <1>1, <1>2 DEF Counts
  <2> HIDE DEF back
  <2>3. \A u \in RefThreads : back[u] = f[u]
    BY <2>1, <2>2
  <2> QED BY <2>2, <2>3 DEF back
<1>5. g[t][d] <= MaxRefOps
  BY <1>1, <1>3 DEF CellConstants
<1> HIDE DEF g
<1>6. Cardinality(Kept(f, in)) = Cardinality(Kept(g, in)) + (IF d \in in THEN 1 ELSE 0)
  <2>1. Cardinality(Kept([g EXCEPT ![t][d] = @ + 1], in)) = Cardinality(Kept(g, in)) + (IF d \in in THEN 1 ELSE 0)
    BY <1>2, <1>5, KeptUp, SMTT(30)
  <2> QED BY <1>4, <2>1
<1>7. Cardinality(Kept(f, in)) \in Nat /\ Cardinality(Kept(g, in)) \in Nat
  BY KeptFinite
<1> QED BY <1>2, <1>6, <1>7 DEF g

-----------------------------------------------------------------------------
(* What the state says, and what a step changes of it *)

OfOwner == Cardinality(References({"biased"}))
OfOthers == Cardinality(References({"shared", "moved"}))

LEMMA SomeCounts ==
  ASSUME CellConstants
  PROVE  /\ AllHeld \in Nat /\ OfOwner \in Nat /\ OfOthers \in Nat
         /\ AllHeld' \in Nat /\ OfOwner' \in Nat /\ OfOthers' \in Nat
         /\ IsFiniteSet(Reviving) /\ Cardinality(Reviving) \in Nat
         /\ Cardinality(Reviving)' \in Nat
<1>1. /\ {"biased"} \in SUBSET Domains /\ {"shared", "moved"} \in SUBSET Domains
      /\ Domains \in SUBSET Domains
  BY DEF Domains
<1>2. Reviving \subseteq RefThreads /\ Reviving' \subseteq RefThreads
  BY DEF Reviving
<1>3. IsFiniteSet(Reviving) /\ IsFiniteSet(Reviving')
  BY <1>2, FS_Subset DEF CellConstants
<1> QED BY <1>1, <1>3, KeptFinite, ReferencesAreKept, FS_CardinalityType DEF AllHeld, OfOwner, OfOthers

LEMMA CellFacts ==
  ASSUME CellConstants, RefsInv
  PROVE  /\ obj.biased \in Nat /\ obj.ops \in Nat /\ obj.ops <= MaxRefOps /\ obj.shared \in Nat
         /\ obj.shared < CountMod /\ Signed \in Int /\ obj.biased <= MaxRefOps + 1
         /\ \A t \in RefThreads, d \in Domains :
              obj.refs[t][d] \in Nat /\ obj.refs[t][d] + Cardinality(Reviving) <= obj.ops + 1
         /\ Clean => /\ Signed >= -obj.biased /\ Signed >= -MaxRefOps - 1
                     /\ Signed <= MaxRefOps
<1>1. /\ obj.biased \in Nat /\ obj.ops \in Nat /\ obj.ops <= MaxRefOps /\ obj.shared \in Nat
      /\ obj.shared < CountMod /\ obj.refs \in [RefThreads -> [Domains -> Nat]]
  BY DEF CellConstants, RefsInv, Fields
<1>2. Signed \in Int
  BY <1>1 DEF Signed, CellConstants
<1>3. obj.biased <= MaxRefOps + 1
  BY <1>1, SomeCounts DEF RefsInv, Paid, CellConstants
<1>4. ASSUME Clean
      PROVE  Signed >= -obj.biased /\ Signed >= -MaxRefOps - 1 /\ Signed <= MaxRefOps
  BY <1>1, <1>2, <1>3, <1>4, SomeCounts DEF RefsInv, Sane, Balanced, CellConstants
<1> QED BY <1>1, <1>2, <1>3, <1>4 DEF RefsInv, Paid

\* fetch_add and fetch_sub on the word
Up == /\ obj'.shared = IF obj.shared < CountMod - 1 THEN obj.shared + 1 ELSE 0
      /\ obj'.merged = IF obj.shared < CountMod - 1 THEN obj.merged ELSE ~obj.merged
Down == /\ obj'.shared = IF obj.shared > 0 THEN obj.shared - 1 ELSE CountMod - 1
        /\ obj'.merged = IF obj.shared > 0 THEN obj.merged ELSE ~obj.merged

LEMMA SignedUp ==
  ASSUME CellConstants, RefsInv, Clean, Up, Signed < MaxRefOps
  PROVE  Signed' = Signed + 1 /\ obj'.merged = IF Signed = -1 THEN ~obj.merged ELSE obj.merged
BY CellFacts DEF Up, Signed, CellConstants

LEMMA SignedDown ==
  ASSUME CellConstants, RefsInv, Clean, Down, Signed > -MaxRefOps - 1
  PROVE  Signed' = Signed - 1 /\ obj'.merged = IF Signed = 0 THEN ~obj.merged ELSE obj.merged
BY CellFacts DEF Down, Signed, CellConstants

(* The flag keeps its meaning while the count goes through zero.            *)
LEMMA MergedUp ==
  ASSUME CellConstants, RefsInv, Clean, Up, Signed < MaxRefOps
  PROVE  /\ Signed' = Signed + 1 /\ (Merged' <=> Merged)
         /\ Signed' < 0 => obj'.merged
         /\ Signed >= 0 => obj'.merged = obj.merged
<1>1. Signed' = Signed + 1 /\ obj'.merged = IF Signed = -1 THEN ~obj.merged ELSE obj.merged
  BY SignedUp
<1>2. (Signed < 0 => obj.merged) /\ obj.merged \in BOOLEAN
  BY DEF RefsInv, Sane, Balanced, Fields
<1>3. CASE Signed = -1
  <2>1. ~obj'.merged
    <3>1. obj.merged /\ obj'.merged = ~obj.merged
      BY <1>1, <1>2, <1>3
    <3> QED BY <3>1
  <2>2. Signed' = 0 /\ ~(Signed >= 0)
    BY <1>1, <1>3
  <2> QED BY <1>1, <2>1, <2>2 DEF Merged
<1>4. CASE Signed # -1
  <2>1. (Signed' >= 0 <=> Signed >= 0) /\ (Signed' < 0 <=> Signed < 0)
    BY <1>1, <1>4, CellFacts
  <2> QED BY <1>1, <1>2, <1>4, <2>1 DEF Merged
<1> QED BY <1>3, <1>4

LEMMA MergedDown ==
  ASSUME CellConstants, RefsInv, Clean, Down, Signed > -MaxRefOps - 1, Signed = 0 => ~obj.merged
  PROVE  /\ Signed' = Signed - 1 /\ (Merged' <=> Merged)
         /\ Signed' < 0 => obj'.merged
         /\ Signed >= 1 => obj'.merged = obj.merged
<1>1. Signed' = Signed - 1 /\ obj'.merged = IF Signed = 0 THEN ~obj.merged ELSE obj.merged
  BY SignedDown
<1>2. Signed < 0 => obj.merged
  BY DEF RefsInv, Sane, Balanced
<1>3. CASE Signed = 0
  <2>1. obj'.merged /\ ~obj.merged
    BY <1>1, <1>3
  <2>2. Signed' = -1 /\ ~(Signed' >= 0) /\ ~(Signed >= 1)
    BY <1>1, <1>3
  <2> QED BY <1>1, <2>1, <2>2 DEF Merged
<1>4. CASE Signed # 0
  <2>1. (Signed' >= 0 <=> Signed >= 0) /\ (Signed' < 0 <=> Signed < 0)
    BY <1>1, <1>4, CellFacts
  <2> QED BY <1>1, <1>2, <1>4, <2>1 DEF Merged
<1> QED BY <1>3, <1>4

\* A reference more or less.
One(b) == IF b THEN 1 ELSE 0
Gains(t, d) == obj'.refs = [obj.refs EXCEPT ![t][d] = @ + 1]
Loses(t, d) == obj'.refs = [obj.refs EXCEPT ![t][d] = @ - 1]

LEMMA RefGained ==
  ASSUME CellConstants, RefsInv, NEW t \in RefThreads, NEW d \in Domains, Gains(t, d),
         obj.refs[t][d] <= MaxRefOps
  PROVE  /\ AllHeld' = AllHeld + 1
         /\ OfOwner' = OfOwner + One(d = "biased")
         /\ OfOthers' = OfOthers + One(d # "biased")
<1>1. obj.refs \in Counts
  BY DEF RefsInv, Fields, Counts
<1>2. {"biased"} \in SUBSET Domains /\ {"shared", "moved"} \in SUBSET Domains /\ Domains \in SUBSET Domains
  BY DEF Domains
<1>3. \A in \in SUBSET Domains :
        Cardinality(Kept(obj'.refs, in)) = Cardinality(Kept(obj.refs, in)) + (IF d \in in THEN 1 ELSE 0)
  <2> DEFINE f == obj.refs
  <2>1. f \in Counts /\ f[t][d] <= MaxRefOps /\ obj'.refs = [f EXCEPT ![t][d] = @ + 1]
    BY <1>1 DEF Gains
  <2> HIDE DEF f
  <2>2. \A in \in SUBSET Domains :
          Cardinality(Kept(obj'.refs, in)) = Cardinality(Kept(f, in)) + (IF d \in in THEN 1 ELSE 0)
    BY <2>1, KeptUp
  <2> QED BY <2>2 DEF f
<1> QED BY <1>2, <1>3, ReferencesAreKept DEF AllHeld, OfOwner, OfOthers, One, Domains

LEMMA RefLost ==
  ASSUME CellConstants, RefsInv, NEW t \in RefThreads, NEW d \in Domains, Loses(t, d), obj.refs[t][d] > 0
  PROVE  /\ AllHeld' = AllHeld - 1
         /\ OfOwner' = OfOwner - One(d = "biased")
         /\ OfOthers' = OfOthers - One(d # "biased")
<1>1. obj.refs \in Counts /\ obj.refs[t][d] <= MaxRefOps + 1
  BY CellFacts, SomeCounts DEF RefsInv, Fields, Counts, CellConstants
<1>2. {"biased"} \in SUBSET Domains /\ {"shared", "moved"} \in SUBSET Domains /\ Domains \in SUBSET Domains
  BY DEF Domains
<1>3. \A in \in SUBSET Domains :
        Cardinality(Kept(obj'.refs, in)) = Cardinality(Kept(obj.refs, in)) - (IF d \in in THEN 1 ELSE 0)
  <2> DEFINE f == obj.refs
  <2>1. f \in Counts /\ f[t][d] > 0 /\ f[t][d] <= MaxRefOps + 1 /\ obj'.refs = [f EXCEPT ![t][d] = @ - 1]
    BY <1>1 DEF Loses
  <2> HIDE DEF f
  <2>2. \A in \in SUBSET Domains :
          Cardinality(Kept(obj'.refs, in)) = Cardinality(Kept(f, in)) - (IF d \in in THEN 1 ELSE 0)
    BY <2>1, KeptDown
  <2> QED BY <2>2 DEF f
<1> QED BY <1>2, <1>3, ReferencesAreKept DEF AllHeld, OfOwner, OfOthers, One, Domains

(* Whoever has a reference is counted. *)
LEMMA Holding ==
  ASSUME CellConstants, RefsInv, NEW t \in RefThreads, NEW d \in Domains, obj.refs[t][d] > 0
  PROVE  /\ AllHeld >= 1
         /\ d = "biased" => OfOwner >= 1
         /\ d # "biased" => OfOthers >= 1
<1>1. obj.refs \in Counts /\ obj.refs[t][d] <= MaxRefOps + 1
  BY CellFacts, SomeCounts DEF RefsInv, Fields, Counts, CellConstants
<1>2. {"biased"} \in SUBSET Domains /\ {"shared", "moved"} \in SUBSET Domains /\ Domains \in SUBSET Domains
  BY DEF Domains
<1>3. \A in \in SUBSET Domains : d \in in => Cardinality(Kept(obj.refs, in)) >= 1
  <2> DEFINE f == obj.refs
  <2>1. f \in Counts /\ f[t][d] > 0 /\ f[t][d] <= MaxRefOps + 1
    BY <1>1
  <2> HIDE DEF f
  <2>2. \A in \in SUBSET Domains : d \in in => Cardinality(Kept(f, in)) >= 1
    BY <2>1, KeptDown
  <2> QED BY <2>2 DEF f
<1> QED BY <1>2, <1>3, ReferencesAreKept DEF AllHeld, OfOwner, OfOthers, Domains

\* A reference that changes hands, or the count it is in.
Moves(t, d, u, e) ==
  obj'.refs = [[obj.refs EXCEPT ![t][d] = @ - 1] EXCEPT ![u][e] = @ + 1]

LEMMA RefMoved ==
  ASSUME CellConstants, RefsInv, NEW t \in RefThreads, NEW d \in Domains, NEW u \in RefThreads, NEW e \in Domains,
         <<t, d>> # <<u, e>>, Moves(t, d, u, e), obj.refs[t][d] > 0, obj.refs[u][e] <= MaxRefOps
  PROVE  /\ AllHeld' = AllHeld
         /\ OfOwner' = OfOwner - One(d = "biased") + One(e = "biased")
         /\ OfOthers' = OfOthers - One(d # "biased") + One(e # "biased")
<1> DEFINE f == obj.refs
           g == [f EXCEPT ![t][d] = @ - 1]
<1>1. f \in Counts /\ f[t][d] <= MaxRefOps + 1 /\ f[t][d] > 0
  BY CellFacts, SomeCounts DEF RefsInv, Fields, Counts, CellConstants
<1>2. {"biased"} \in SUBSET Domains /\ {"shared", "moved"} \in SUBSET Domains /\ Domains \in SUBSET Domains
  BY DEF Domains
<1>3. /\ g \in Counts
      /\ \A in \in SUBSET Domains : Cardinality(Kept(g, in)) = Cardinality(Kept(f, in)) - (IF d \in in THEN 1 ELSE 0)
  <2> HIDE DEF f
  <2>1. g \in Counts
    BY <1>1, KeptDown
  <2>2. ASSUME NEW in \in SUBSET Domains
        PROVE  Cardinality(Kept(g, in)) = Cardinality(Kept(f, in)) - (IF d \in in THEN 1 ELSE 0)
    BY <1>1, KeptDown, SMTT(30)
  <2> QED BY <2>1, <2>2
<1>4. g[u][e] <= MaxRefOps
  BY <1>1 DEF Counts
<1>5. obj'.refs = [g EXCEPT ![u][e] = @ + 1]
  BY DEF Moves
<1> HIDE DEF g, f
<1>6. \A in \in SUBSET Domains :
        Cardinality(Kept(obj'.refs, in)) = Cardinality(Kept(g, in)) + (IF e \in in THEN 1 ELSE 0)
  BY <1>3, <1>4, <1>5, KeptUp
<1>7. \A in \in SUBSET Domains : Cardinality(Kept(f, in)) \in Nat
  BY KeptFinite
<1>8. \A in \in SUBSET Domains :
        Cardinality(Kept(obj'.refs, in))
          = Cardinality(Kept(f, in)) - (IF d \in in THEN 1 ELSE 0) + (IF e \in in THEN 1 ELSE 0)
  BY <1>3, <1>6
<1> QED BY <1>2, <1>7, <1>8, ReferencesAreKept DEF AllHeld, OfOwner, OfOthers, One, Domains, f

-----------------------------------------------------------------------------
(* Retaining *)

SamePaths == \A u \in RefThreads : (Releasing(u)' <=> Releasing(u)) /\ (Freeing(u)' <=> Freeing(u))
SameMemory == UNCHANGED <<obj.weak, obj.frees, obj.dropped>>

(* A new reference: counted by the owner in its count, by others in the     *)
(* shared one.  It needs a cell that still has a count, and one the owner   *)
(* has not merged if it is the owner's.                                     *)
Retains(t) ==
  /\ SamePaths /\ SameMemory /\ UNCHANGED obj.owner /\ ~Releasing(t)
  /\ UNCHANGED <<spec.left, spec.taken, spec.failed, spec.raced, spec.weak_raced>>
  /\ Clean' => Clean /\ ~NoCounts /\ ~obj.dropped /\ ~(obj.owner = t /\ obj.merged)
  /\ \/ /\ obj.owner = t /\ obj'.biased = obj.biased + 1 /\ Gains(t, "biased")
        /\ UNCHANGED <<obj.shared, obj.merged>>
     \/ /\ obj.owner # t /\ Up /\ Gains(t, "shared")
        /\ UNCHANGED obj.biased
  /\ obj'.ops - Cardinality(Reviving)' = obj.ops - Cardinality(Reviving) + 1

LEMMA RetainsKept ==
  ASSUME CellConstants, RefsInv, Fields', NEW t \in RefThreads, Retains(t)
  PROVE  RefsInv'
<1>1. /\ obj'.ops \in Nat /\ obj'.ops <= MaxRefOps
      /\ obj.ops - Cardinality(Reviving) + 1 <= MaxRefOps
  BY SomeCounts DEF Fields, CellConstants, Retains
<1>2. \A d \in Domains : obj.refs[t][d] <= MaxRefOps
  BY <1>1, CellFacts, SomeCounts DEF CellConstants
<1>3. "biased" \in Domains /\ "shared" \in Domains
  BY DEF Domains
<1>4. CASE obj.owner = t /\ obj'.biased = obj.biased + 1 /\ Gains(t, "biased")
           /\ UNCHANGED <<obj.shared, obj.merged>>
  <2>1. AllHeld' = AllHeld + 1 /\ OfOwner' = OfOwner + 1 /\ OfOthers' = OfOthers
    BY <1>2, <1>3, <1>4, SomeCounts, RefGained DEF One
  <2>2. Signed' = Signed
    BY <1>4 DEF Signed
  <2>3. Paid'
    BY <1>1, <1>3, <1>4, CellFacts, SomeCounts DEF RefsInv, Fields, Paid, Retains, Gains
  <2>4. OwnersCount'
    <3>1. obj'.refs[t]["shared"] = obj.refs[t]["shared"]
      BY <1>3, <1>4 DEF Gains, RefsInv, Fields
    <3> QED BY <2>1, <3>1, <1>4, SomeCounts, CellFacts DEF RefsInv, OwnersCount, OfOwner, Retains
  <2>5. Failures'
    BY DEF RefsInv, Failures, Retains, SameMemory
  <2>6. ASSUME Clean' PROVE Sane'
    <3>1. Sane /\ ~NoCounts /\ ~obj.dropped /\ ~obj.merged
      BY <1>4, <2>6 DEF RefsInv, Retains
    <3>2. Balanced'
      <4>1. /\ obj'.biased + Signed' >= AllHeld'
            /\ ~spec'.left => obj'.biased + Signed' = AllHeld' /\ Signed' >= OfOthers'
        BY <2>1, <2>2, <3>1, <1>4, CellFacts, SomeCounts DEF Sane, Balanced, OfOthers, Retains
      <4>2. Signed' + Cardinality(Reviving)' <= obj'.ops
        BY <2>2, <3>1, CellFacts, SomeCounts, <1>1 DEF Sane, Balanced, Retains
      <4>3. Signed >= 0
        BY <3>1, CellFacts DEF Sane, Balanced
      <4> QED BY <2>2, <4>1, <4>2, <4>3, CellFacts DEF Balanced, OfOthers
    <3>3. Disowned'
      <4>1. ~obj'.merged /\ obj'.biased # 0
        BY <3>1, <1>4, CellFacts
      <4>3. \A u \in RefThreads : ~Releasing(u)'
        BY <3>1, <1>4 DEF Sane, Disowned, Retains, SamePaths
      <4> QED BY <4>1, <4>3 DEF Disowned, Merged
    <3>4. Gone'
      BY <2>2, <3>1, <1>4, CellFacts DEF Sane, Gone, NoCounts, Retains, SamePaths, SameMemory
    <3>5. FreedOnce'
      BY <3>1 DEF Sane, FreedOnce, Retains, SameMemory
    <3> QED BY <3>2, <3>3, <3>4, <3>5 DEF Sane
  <2> QED BY <2>3, <2>4, <2>5, <2>6 DEF RefsInv
<1>5. CASE obj.owner # t /\ Up /\ Gains(t, "shared") /\ UNCHANGED obj.biased
  <2>1. AllHeld' = AllHeld + 1 /\ OfOwner' = OfOwner /\ OfOthers' = OfOthers + 1
    BY <1>2, <1>3, <1>5, SomeCounts, RefGained DEF One
  <2>2. Paid'
    BY <1>1, <1>3, <1>5, CellFacts, SomeCounts DEF RefsInv, Fields, Paid, Retains, Gains
  <2>3. OwnersCount'
    <3>1. obj'.refs[obj.owner] = obj.refs[obj.owner]
      BY <1>5 DEF Gains, RefsInv, Fields
    <3> QED BY <2>1, <3>1, <1>5, SomeCounts, CellFacts DEF RefsInv, OwnersCount, OfOwner, Retains
  <2>4. Failures'
    BY DEF RefsInv, Failures, Retains, SameMemory
  <2>5. ASSUME Clean' PROVE Sane'
    <3>1. Clean /\ Sane /\ ~NoCounts /\ ~obj.dropped
      BY <2>5 DEF RefsInv, Retains
    <3>2. Signed < MaxRefOps
      BY <3>1, <1>1, CellFacts, SomeCounts DEF Sane, Balanced, CellConstants
    <3>3. /\ Signed' = Signed + 1 /\ (Merged' <=> Merged)
          /\ Signed' < 0 => obj'.merged
          /\ Signed >= 0 => obj'.merged = obj.merged
      BY <1>5, <3>1, <3>2, MergedUp
    <3>4. Balanced'
      <4>1. /\ obj'.biased + Signed' >= AllHeld'
            /\ ~spec'.left => obj'.biased + Signed' = AllHeld' /\ Signed' >= OfOthers'
        BY <2>1, <3>1, <3>3, <1>5, CellFacts, SomeCounts DEF Sane, Balanced, OfOthers, Retains
      <4>2. Signed' + Cardinality(Reviving)' <= obj'.ops
        BY <3>1, <3>3, CellFacts, SomeCounts, <1>1 DEF Sane, Balanced, Retains
      <4> QED BY <3>3, <4>1, <4>2 DEF Balanced, OfOthers
    <3>5. ~\E u \in RefThreads : Freeing(u)
      BY <3>1 DEF Sane, Gone
    <3>6. obj.biased = 0 => Signed >= 0
      BY <3>1, CellFacts
    <3>7. Disowned'
      BY <3>1, <3>3, <3>5, <3>6, <1>5 DEF Sane, Disowned, Retains, SamePaths, SameMemory
    <3>8. Gone'
      BY <3>1, <3>3, <3>5, <3>6, <1>5, CellFacts DEF Sane, Gone, NoCounts, Retains, SamePaths, SameMemory
    <3>9. FreedOnce'
      BY <3>1 DEF Sane, FreedOnce, Retains, SameMemory
    <3> QED BY <3>4, <3>7, <3>8, <3>9 DEF Sane
  <2> QED BY <2>2, <2>3, <2>4, <2>5 DEF RefsInv
<1> QED BY <1>4, <1>5 DEF Retains

-----------------------------------------------------------------------------
(* Releasing *)

(* A release outside the owner's path. *)
Releases(t, d) ==
  /\ obj.at[t] = "idle" /\ obj.refs[t][d] > 0 /\ Loses(t, d) /\ Down
  /\ obj.owner # t \/ d = "moved"
  /\ UNCHANGED <<obj.biased, obj.owner, obj.ops>> /\ SameMemory
  /\ UNCHANGED <<spec.taken, spec.failed, spec.raced, spec.weak_raced, spec.reowned, spec.revived>>
  /\ spec.left => spec'.left
  /\ d = "biased" => spec'.left
  /\ obj'.at = IF obj.merged /\ obj.shared = 1 THEN [obj.at EXCEPT ![t] = "free"] ELSE obj.at

LEMMA ReleasesKept ==
  ASSUME CellConstants, RefsInv, Fields', NEW t \in RefThreads, NEW d \in Domains, Releases(t, d)
  PROVE  RefsInv'
<1>1. /\ AllHeld' = AllHeld - 1 /\ AllHeld >= 1
      /\ OfOwner' = OfOwner - One(d = "biased") /\ OfOthers' = OfOthers - One(d # "biased")
  BY RefLost, Holding DEF Releases
<1>2. Reviving' = Reviving
  BY DEF Reviving, Releases, RefsInv, Fields
<1>3. Paid'
  BY <1>2, CellFacts, SomeCounts DEF RefsInv, Fields, Paid, Releases, Loses
<1>4. OwnersCount'
  <2>1. obj.owner # Nil => obj'.refs[obj.owner]["shared"] = obj.refs[obj.owner]["shared"]
    BY DEF Releases, Loses, RefsInv, Fields, Domains, CellConstants
  <2>2. OfOwner' <= OfOwner
    BY <1>1, SomeCounts DEF One
  <2> QED BY <2>1, <2>2, SomeCounts, CellFacts DEF RefsInv, OwnersCount, OfOwner, Releases
<1>5. Failures'
  BY DEF RefsInv, Failures, Releases, SameMemory
<1>6. ASSUME Clean' PROVE Sane'
  <2>1. Clean /\ Sane
    BY <1>6 DEF RefsInv, Clean, Releases
  <2>2. obj.biased + Signed >= 1
    BY <1>1, <2>1, SomeCounts, CellFacts DEF Sane, Balanced
  <2>3. ~NoCounts /\ ~obj.dropped /\ \A u \in RefThreads : ~Freeing(u)
    BY <2>1, <2>2 DEF Sane, Gone, NoCounts
  <2>4. Signed = 0 => ~obj.merged
    BY <2>1, <2>2 DEF Sane, Disowned, Merged
  <2>5. Signed > -MaxRefOps - 1
    BY <2>1, <2>2, CellFacts DEF CellConstants
  <2>6. /\ Signed' = Signed - 1 /\ (Merged' <=> Merged)
        /\ Signed' < 0 => obj'.merged
        /\ Signed >= 1 => obj'.merged = obj.merged
    BY <2>1, <2>4, <2>5, MergedDown DEF Releases
  <2>7. Balanced'
    <3>1. obj'.biased + Signed' >= AllHeld'
      BY <1>1, <2>1, <2>6, CellFacts, SomeCounts DEF Sane, Balanced, Releases
    <3>2. ~spec'.left => obj'.biased + Signed' = AllHeld' /\ Signed' >= OfOthers'
      BY <1>1, <2>1, <2>6, CellFacts, SomeCounts DEF Sane, Balanced, OfOthers, Releases, One
    <3>3. Signed' + Cardinality(Reviving)' <= obj'.ops
      BY <1>2, <2>1, <2>6, CellFacts, SomeCounts DEF Sane, Balanced, Releases
    <3> QED BY <2>6, <3>1, <3>2, <3>3 DEF Balanced, OfOthers
  <2>8. FreedOnce'
    BY <2>1 DEF Sane, FreedOnce, Releases, SameMemory
  <2>9. CASE obj.merged /\ obj.shared = 1
    <3>1. Signed = 1
      BY <2>9, <2>1, CellFacts DEF Signed, CellConstants
    <3>2. Merged /\ obj.biased = 0
      BY <2>1, <2>9, <3>1 DEF Sane, Disowned, Merged
    <3>3. \A u \in RefThreads : ~Releasing(u)
      BY <2>1, <2>9 DEF Sane, Disowned
    <3>4. \A u \in RefThreads : ~Releasing(u)' /\ (Freeing(u)' <=> u = t)
      BY <2>3, <2>9, <3>3 DEF Releasing, Freeing, Releases, RefsInv, Fields
    <3>5. NoCounts'
      BY <2>6, <3>1, <3>2 DEF NoCounts, Releases
    <3>6. Disowned'
      BY <2>6, <3>2, <3>4 DEF Disowned, Releases
    <3>7. Gone'
      BY <2>3, <3>4, <3>5 DEF Gone, Releases, SameMemory
    <3> QED BY <2>7, <2>8, <3>6, <3>7 DEF Sane
  <2>10. CASE ~(obj.merged /\ obj.shared = 1)
    <3>1. \A u \in RefThreads : (Releasing(u)' <=> Releasing(u)) /\ ~Freeing(u)'
      BY <2>3, <2>10 DEF Releasing, Freeing, Releases
    <3>2. obj.biased = 0 => Signed >= 1
      BY <2>2, CellFacts
    <3>3. Disowned'
      BY <2>1, <2>3, <2>6, <3>1, <3>2 DEF Sane, Disowned, Releases, SameMemory
    <3>4. ASSUME NoCounts' PROVE \E u \in RefThreads : Releasing(u)'
      <4>1. obj.biased = 0 /\ Signed = 1
        BY <2>6, <3>4, CellFacts DEF NoCounts, Releases
      <4>2. obj.shared = 1
        BY <2>1, <4>1, CellFacts DEF Signed, CellConstants
      <4>3. ~Merged
        BY <4>2, <2>10 DEF Merged
      <4> QED BY <2>1, <2>3, <4>1, <4>3, <3>1 DEF Sane, Disowned
    <3>5. Gone'
      BY <2>3, <3>1, <3>4 DEF Gone, Releases, SameMemory
    <3> QED BY <2>7, <2>8, <3>3, <3>5 DEF Sane
  <2> QED BY <2>9, <2>10
<1> QED BY <1>3, <1>4, <1>5, <1>6 DEF RefsInv

(* The owner's release: its count goes down, and at zero its last release   *)
(* begins.                                                                  *)
OwnerReleases(t, d) ==
  /\ obj.at[t] = "idle" /\ obj.owner = t /\ d \in {"biased", "shared"}
  /\ obj.refs[t][d] > 0 /\ Loses(t, d)
  /\ obj.biased # 0 /\ obj'.biased = obj.biased - 1
  /\ UNCHANGED <<obj.shared, obj.merged, obj.owner, obj.ops>> /\ SameMemory /\ UNCHANGED spec
  /\ obj'.at = IF obj.biased = 1 THEN [obj.at EXCEPT ![t] = "zero"] ELSE obj.at

LEMMA OwnerReleasesKept ==
  ASSUME CellConstants, RefsInv, Fields', NEW t \in RefThreads, NEW d \in Domains, OwnerReleases(t, d)
  PROVE  RefsInv'
<1>1. /\ AllHeld' = AllHeld - 1 /\ AllHeld >= 1
      /\ OfOwner' = OfOwner - One(d = "biased") /\ OfOthers' = OfOthers - One(d # "biased")
  BY RefLost, Holding DEF OwnerReleases
<1>2. Reviving' = Reviving /\ Signed' = Signed
  BY DEF Reviving, OwnerReleases, RefsInv, Fields, Signed
<1>3. obj.biased >= 1 /\ obj'.biased = obj.biased - 1
  BY CellFacts DEF OwnerReleases
<1>4. Paid'
  BY <1>2, <1>3, CellFacts, SomeCounts DEF RefsInv, Fields, Paid, OwnerReleases, Loses
<1>5. OwnersCount'
  <2>1. d = "biased" => obj'.refs[t]["shared"] = obj.refs[t]["shared"]
    BY DEF OwnerReleases, Loses, RefsInv, Fields, Domains
  <2>2. d = "biased" => OfOwner' = OfOwner - 1
    BY <1>1 DEF One
  <2>3. ~spec.taken /\ obj.owner # Nil => d = "biased"
    BY DEF RefsInv, OwnersCount, OwnerReleases
  <2> QED BY <1>3, <2>1, <2>2, <2>3, SomeCounts, CellFacts DEF RefsInv, OwnersCount, OfOwner, OwnerReleases
<1>6. Failures'
  BY DEF RefsInv, Failures, OwnerReleases, SameMemory
<1>7. ASSUME Clean' PROVE Sane'
  <2>1. Clean /\ Sane
    BY <1>7 DEF RefsInv, Clean, OwnerReleases
  <2>2. ~Merged /\ ~NoCounts
    BY <1>3, <2>1 DEF Sane, Disowned, NoCounts
  <2>3. ~obj.dropped /\ \A u \in RefThreads : ~Freeing(u) /\ ~Releasing(u)
    BY <1>3, <2>1, <2>2 DEF Sane, Gone, Disowned
  <2>4. Balanced'
    <3>1. obj'.biased + Signed' >= AllHeld'
      BY <1>1, <1>2, <1>3, <2>1, CellFacts, SomeCounts DEF Sane, Balanced
    <3>2. ~spec'.left => obj'.biased + Signed' = AllHeld' /\ Signed' >= OfOthers'
      BY <1>1, <1>2, <1>3, <2>1, CellFacts, SomeCounts DEF Sane, Balanced, OfOthers, OwnerReleases, One
    <3>3. Signed' + Cardinality(Reviving)' <= obj'.ops /\ (Signed' < 0 => obj'.merged)
      BY <1>2, <2>1 DEF Sane, Balanced, OwnerReleases
    <3> QED BY <3>1, <3>2, <3>3 DEF Balanced, OfOthers
  <2>5. ~Merged'
    BY <1>2, <2>2 DEF Merged, OwnerReleases
  <2>6. CASE obj.biased = 1
    <3>1. obj'.biased = 0
      BY <1>3, <2>6
    <3>2. Signed >= 0
      BY <1>1, <2>1, <2>6, CellFacts, SomeCounts DEF Sane, Balanced
    <3>3. ~obj'.merged
      BY <2>2, <3>2 DEF Merged, OwnerReleases
    <3>4. \A u \in RefThreads : ~Freeing(u)' /\ (Releasing(u)' <=> u = t)
      BY <2>3, <2>6 DEF Freeing, Releasing, OwnerReleases, RefsInv, Fields
    <3>5. Disowned'
      BY <2>3, <2>5, <3>1, <3>3, <3>4 DEF Disowned, OwnerReleases, SameMemory
    <3>6. Gone'
      BY <2>3, <3>4 DEF Gone, OwnerReleases, SameMemory
    <3>7. FreedOnce'
      BY <2>1 DEF Sane, FreedOnce, OwnerReleases, SameMemory
    <3> QED BY <2>4, <3>5, <3>6, <3>7 DEF Sane
  <2>7. CASE obj.biased # 1
    <3>1. obj'.biased # 0 /\ ~NoCounts'
      BY <1>3, <2>7, CellFacts DEF NoCounts
    <3>2. \A u \in RefThreads : ~Freeing(u)' /\ ~Releasing(u)'
      BY <2>3, <2>7 DEF Freeing, Releasing, OwnerReleases
    <3>3. Disowned'
      BY <2>5, <3>1, <3>2 DEF Disowned
    <3>4. Gone'
      BY <2>3, <3>1, <3>2 DEF Gone, OwnerReleases, SameMemory
    <3>5. FreedOnce'
      BY <2>1 DEF Sane, FreedOnce, OwnerReleases, SameMemory
    <3> QED BY <2>4, <3>3, <3>4, <3>5 DEF Sane
  <2> QED BY <2>6, <2>7
<1> QED BY <1>4, <1>5, <1>6, <1>7 DEF RefsInv

-----------------------------------------------------------------------------
(* References that change hands or count *)

HandsOver(t, u, d) ==
  /\ t # u /\ obj.refs[t][d] > 0 /\ Moves(t, d, u, d)
  /\ obj'.ops = obj.ops + 1 /\ SameMemory
  /\ UNCHANGED <<obj.biased, obj.shared, obj.merged, obj.owner, obj.at>>
  /\ spec' = [spec EXCEPT !.taken = @ \/ (u = obj.owner /\ d = "shared")]

LEMMA HandsOverKept ==
  ASSUME CellConstants, RefsInv, Fields', NEW t \in RefThreads, NEW u \in RefThreads, NEW d \in Domains,
         HandsOver(t, u, d)
  PROVE  RefsInv'
<1>1. obj'.ops = obj.ops + 1 /\ obj.ops + 1 <= MaxRefOps
  BY DEF HandsOver, Fields, CellConstants
<1>2. obj.refs[u][d] <= MaxRefOps
  BY <1>1, CellFacts, SomeCounts DEF CellConstants
<1>3. AllHeld' = AllHeld /\ OfOwner' = OfOwner /\ OfOthers' = OfOthers
  BY <1>2, RefMoved, SomeCounts DEF HandsOver, One
<1>4. Reviving' = Reviving /\ Signed' = Signed
  BY DEF Reviving, Signed, HandsOver
<1>5. /\ spec'.left = spec.left /\ spec'.failed = spec.failed /\ spec'.raced = spec.raced
      /\ spec'.weak_raced = spec.weak_raced /\ (Clean' <=> Clean)
      /\ ~spec'.taken => ~spec.taken /\ ~(u = obj.owner /\ d = "shared")
  BY DEF HandsOver, RefsInv, Fields, Clean
<1>6. \A v \in RefThreads, e \in Domains :
        obj'.refs[v][e] = IF v = t /\ e = d THEN obj.refs[v][e] - 1
                          ELSE IF v = u /\ e = d THEN obj.refs[v][e] + 1 ELSE obj.refs[v][e]
  BY DEF HandsOver, Moves, RefsInv, Fields
<1>7. Paid'
  BY <1>1, <1>4, <1>6, CellFacts, SomeCounts DEF RefsInv, Paid, HandsOver
<1>8. OwnersCount'
  <2> SUFFICES ASSUME ~spec'.taken, obj.owner # Nil
               PROVE  obj'.refs[obj.owner]["shared"] = 0 /\ obj.biased >= OfOwner'
    BY DEF OwnersCount, OfOwner, HandsOver
  <2>1. obj.refs[obj.owner]["shared"] = 0 /\ obj.biased >= OfOwner
    BY <1>5 DEF RefsInv, OwnersCount, OfOwner
  <2>2. obj.owner \in RefThreads /\ "shared" \in Domains
    BY DEF RefsInv, Fields, CellConstants, Domains
  <2>3. obj'.refs[obj.owner]["shared"] = obj.refs[obj.owner]["shared"]
    BY <1>5, <1>6, <2>1, <2>2 DEF HandsOver
  <2> QED BY <1>3, <2>1, <2>3
<1>9. Failures'
  BY <1>5 DEF RefsInv, Failures, HandsOver, SameMemory
<1>10. ASSUME Clean' PROVE Sane'
  <2>1. Sane
    BY <1>5, <1>10 DEF RefsInv
  <2>2. Balanced'
    BY <1>1, <1>3, <1>4, <1>5, <2>1, CellFacts, SomeCounts DEF Sane, Balanced, OfOthers, HandsOver
  <2>3. Disowned' /\ Gone' /\ FreedOnce'
    BY <1>4, <1>5, <2>1
       DEF Sane, Disowned, Gone, FreedOnce, HandsOver, SameMemory, Merged, NoCounts, Releasing, Freeing
  <2> QED BY <2>2, <2>3 DEF Sane
<1> QED BY <1>7, <1>8, <1>9, <1>10 DEF RefsInv

(* cell_transfer_to_shared by the owner, which disowns the cell with its    *)
(* last reference.                                                          *)
OwnerTransfers(t) ==
  /\ obj.at[t] = "idle" /\ obj.owner = t /\ obj.refs[t]["biased"] > 0 /\ obj.biased > 0
  /\ Moves(t, "biased", t, "moved") /\ obj'.biased = obj.biased - 1 /\ obj'.ops = obj.ops + 1
  /\ obj'.shared = IF obj.shared < CountMod - 1 THEN obj.shared + 1 ELSE 0
  /\ IF obj.biased = 1 THEN obj'.merged = TRUE /\ obj'.owner = Nil
     ELSE /\ obj'.merged = (IF obj.shared < CountMod - 1 THEN obj.merged ELSE ~obj.merged)
          /\ UNCHANGED obj.owner
  /\ SameMemory /\ UNCHANGED <<spec, obj.at>>

LEMMA OwnerTransfersKept ==
  ASSUME CellConstants, RefsInv, Fields', NEW t \in RefThreads, OwnerTransfers(t)
  PROVE  RefsInv'
<1>0. "biased" \in Domains /\ "shared" \in Domains /\ "moved" \in Domains
  BY DEF Domains
<1>1. /\ obj'.ops = obj.ops + 1 /\ obj.ops + 1 <= MaxRefOps
      /\ obj.biased >= 1 /\ obj'.biased = obj.biased - 1
  BY CellFacts DEF OwnerTransfers, Fields, CellConstants
<1>2. obj.refs[t]["moved"] <= MaxRefOps
  BY <1>0, <1>1, CellFacts, SomeCounts DEF CellConstants
<1>3. AllHeld' = AllHeld /\ OfOwner' = OfOwner - 1 /\ OfOthers' = OfOthers + 1 /\ AllHeld >= 1
  BY <1>0, <1>2, RefMoved, Holding, SomeCounts DEF OwnerTransfers, One
<1>4. Reviving' = Reviving
  BY DEF Reviving, OwnerTransfers
<1>5. \A v \in RefThreads, e \in Domains :
        obj'.refs[v][e] = IF v = t /\ e = "biased" THEN obj.refs[v][e] - 1
                          ELSE IF v = t /\ e = "moved" THEN obj.refs[v][e] + 1 ELSE obj.refs[v][e]
  BY <1>0 DEF OwnerTransfers, Moves, RefsInv, Fields
<1>6. Paid'
  BY <1>1, <1>4, <1>5, CellFacts, SomeCounts DEF RefsInv, Paid
<1>7. OwnersCount'
  <2> SUFFICES ASSUME ~spec.taken, obj'.owner # Nil
               PROVE  obj'.refs[obj'.owner]["shared"] = 0 /\ obj'.biased >= OfOwner'
    BY DEF OwnersCount, OfOwner, OwnerTransfers
  <2>1. obj'.owner = t /\ obj.owner = t /\ t # Nil
    BY DEF OwnerTransfers, CellConstants
  <2>2. obj.refs[t]["shared"] = 0 /\ obj.biased >= OfOwner
    BY <2>1 DEF RefsInv, OwnersCount, OfOwner
  <2>3. obj'.refs[t]["shared"] = 0
    BY <1>0, <1>5, <2>2
  <2> QED BY <1>1, <1>3, <2>1, <2>2, <2>3, CellFacts, SomeCounts
<1>8. Failures'
  BY DEF RefsInv, Failures, OwnerTransfers, SameMemory
<1>9. ASSUME Clean' PROVE Sane'
  <2>1. Clean /\ Sane
    BY <1>9 DEF RefsInv, Clean, OwnerTransfers
  <2>2. ~Merged /\ ~NoCounts
    BY <1>1, <2>1 DEF Sane, Disowned, NoCounts
  <2>3. ~obj.dropped /\ \A u \in RefThreads : ~Freeing(u)' /\ ~Releasing(u)'
    BY <1>1, <2>1, <2>2 DEF Sane, Gone, Disowned, OwnerTransfers, Freeing, Releasing
  <2>4. Signed < MaxRefOps
    BY <1>1, <2>1, CellFacts, SomeCounts DEF Sane, Balanced, CellConstants
  <2>5. Signed' = Signed + 1
    BY <2>1, <2>4, CellFacts DEF OwnerTransfers, Signed, CellConstants
  <2>6. /\ obj'.biased + Signed' >= AllHeld' /\ Signed' + Cardinality(Reviving)' <= obj'.ops
        /\ ~spec'.left => obj'.biased + Signed' = AllHeld' /\ Signed' >= OfOthers'
    BY <1>1, <1>3, <1>4, <2>1, <2>5, CellFacts, SomeCounts DEF Sane, Balanced, OfOthers, OwnerTransfers
  <2>7. FreedOnce'
    BY <2>1 DEF Sane, FreedOnce, OwnerTransfers, SameMemory
  <2>8. CASE obj.biased = 1
    <3>1. obj'.biased = 0 /\ obj'.merged
      BY <1>1, <2>8 DEF OwnerTransfers
    <3>2. Signed' >= 1
      BY <1>3, <2>6, <3>1, <2>5, CellFacts, SomeCounts
    <3>3. Balanced'
      BY <2>6, <3>1 DEF Balanced, OfOthers
    <3>4. Merged'
      BY <2>5, <3>1, <3>2, CellFacts DEF Merged
    <3>5. ~NoCounts'
      BY <3>2 DEF NoCounts
    <3>6. Disowned' /\ Gone'
      BY <2>3, <3>1, <3>4, <3>5 DEF Disowned, Gone, OwnerTransfers, SameMemory
    <3> QED BY <2>7, <3>3, <3>6 DEF Sane
  <2>9. CASE obj.biased # 1
    <3>1. obj'.biased # 0
      BY <1>1, <2>9, CellFacts
    <3>2. Up
      BY <2>9 DEF Up, OwnerTransfers
    <3>3. (Merged' <=> Merged) /\ (Signed' < 0 => obj'.merged)
      BY <2>1, <2>4, <3>2, MergedUp
    <3>4. Balanced'
      BY <2>6, <3>3 DEF Balanced, OfOthers
    <3>5. ~NoCounts'
      BY <3>1 DEF NoCounts
    <3>6. Disowned' /\ Gone'
      BY <2>2, <2>3, <3>1, <3>3, <3>5 DEF Disowned, Gone, OwnerTransfers, SameMemory
    <3> QED BY <2>7, <3>4, <3>6 DEF Sane
  <2> QED BY <2>8, <2>9
<1> QED BY <1>6, <1>7, <1>8, <1>9 DEF RefsInv

(* On another thread the shared count grows although the reference was      *)
(* counted there before.                                                    *)
OthersTransfer(t) ==
  /\ obj.at[t] = "idle" /\ obj.owner # t /\ obj.refs[t]["shared"] > 0
  /\ Moves(t, "shared", t, "moved") /\ Up /\ obj'.ops = obj.ops + 1
  /\ SameMemory /\ UNCHANGED <<obj.biased, obj.owner, obj.at>>
  /\ spec' = [spec EXCEPT !.left = TRUE]

LEMMA OthersTransferKept ==
  ASSUME CellConstants, RefsInv, Fields', NEW t \in RefThreads, OthersTransfer(t)
  PROVE  RefsInv'
<1>0. "shared" \in Domains /\ "moved" \in Domains
  BY DEF Domains
<1>1. obj'.ops = obj.ops + 1 /\ obj.ops + 1 <= MaxRefOps
  BY DEF OthersTransfer, Fields, CellConstants
<1>2. obj.refs[t]["moved"] <= MaxRefOps
  BY <1>0, <1>1, CellFacts, SomeCounts DEF CellConstants
<1>3. AllHeld' = AllHeld /\ OfOwner' = OfOwner /\ AllHeld >= 1
  BY <1>0, <1>2, RefMoved, Holding, SomeCounts DEF OthersTransfer, One
<1>4. Reviving' = Reviving
  BY DEF Reviving, OthersTransfer
<1>5. \A v \in RefThreads, e \in Domains :
        obj'.refs[v][e] = IF v = t /\ e = "shared" THEN obj.refs[v][e] - 1
                          ELSE IF v = t /\ e = "moved" THEN obj.refs[v][e] + 1 ELSE obj.refs[v][e]
  BY <1>0 DEF OthersTransfer, Moves, RefsInv, Fields
<1>6. /\ spec'.left /\ spec'.failed = spec.failed /\ spec'.raced = spec.raced /\ spec'.taken = spec.taken
      /\ spec'.weak_raced = spec.weak_raced /\ (Clean' <=> Clean)
  BY DEF OthersTransfer, RefsInv, Fields, Clean
<1>7. Paid'
  BY <1>1, <1>4, <1>5, CellFacts, SomeCounts DEF RefsInv, Paid, OthersTransfer
<1>8. OwnersCount'
  <2> SUFFICES ASSUME ~spec.taken, obj.owner # Nil
               PROVE  obj'.refs[obj.owner]["shared"] = 0 /\ obj.biased >= OfOwner'
    BY <1>6 DEF OwnersCount, OfOwner, OthersTransfer
  <2>1. obj.refs[obj.owner]["shared"] = 0 /\ obj.biased >= OfOwner
    BY DEF RefsInv, OwnersCount, OfOwner
  <2>2. obj.owner \in RefThreads
    BY DEF RefsInv, Fields, CellConstants
  <2> QED BY <1>0, <1>3, <1>5, <2>1, <2>2 DEF OthersTransfer
<1>9. Failures'
  BY <1>6 DEF RefsInv, Failures, OthersTransfer, SameMemory
<1>10. ASSUME Clean' PROVE Sane'
  <2>1. Clean /\ Sane
    BY <1>6, <1>10 DEF RefsInv
  <2>2. Signed < MaxRefOps
    BY <1>1, <2>1, CellFacts, SomeCounts DEF Sane, Balanced, CellConstants
  <2>3. /\ Signed' = Signed + 1 /\ (Merged' <=> Merged) /\ (Signed' < 0 => obj'.merged)
        /\ Signed >= 0 => obj'.merged = obj.merged
    BY <2>1, <2>2, MergedUp DEF OthersTransfer
  <2>4. Balanced'
    <3>1. obj'.biased + Signed' >= AllHeld' /\ Signed' + Cardinality(Reviving)' <= obj'.ops
      BY <1>1, <1>3, <1>4, <2>1, <2>3, CellFacts, SomeCounts DEF Sane, Balanced, OthersTransfer
    <3> QED BY <1>6, <2>3, <3>1 DEF Balanced
  <2>5. obj.biased + Signed >= 1
    BY <1>3, <2>1, CellFacts, SomeCounts DEF Sane, Balanced
  <2>6. ~NoCounts /\ (obj.biased = 0 => Signed >= 0)
    BY <2>5, CellFacts DEF NoCounts
  <2>7. \A u \in RefThreads : ~Freeing(u)' /\ ~Freeing(u) /\ (Releasing(u)' <=> Releasing(u))
    BY <2>1, <2>6 DEF Sane, Gone, OthersTransfer, Freeing, Releasing
  <2>8. ~obj.dropped
    BY <2>1, <2>6 DEF Sane, Gone
  <2>9. Disowned'
    BY <2>1, <2>3, <2>6, <2>7, <2>8 DEF Sane, Disowned, OthersTransfer, SameMemory
  <2>10. Gone'
    BY <1>6, <2>7, <2>8 DEF Gone, OthersTransfer, SameMemory
  <2>11. FreedOnce'
    BY <1>6, <2>1 DEF Sane, FreedOnce, OthersTransfer, SameMemory
  <2> QED BY <2>4, <2>9, <2>10, <2>11 DEF Sane
<1> QED BY <1>7, <1>8, <1>9, <1>10 DEF RefsInv

-----------------------------------------------------------------------------
(* Steps that leave the references alone *)

SameCounts ==
  /\ UNCHANGED <<obj.biased, obj.shared, obj.owner, obj.refs>>
  /\ UNCHANGED <<spec.left, spec.taken, spec.reowned, spec.revived>>
  /\ obj.merged => obj'.merged
  /\ obj'.ops - Cardinality(Reviving)' >= obj.ops - Cardinality(Reviving)

LEMMA CountsKept ==
  ASSUME CellConstants, RefsInv, Fields', SameCounts
  PROVE  /\ AllHeld' = AllHeld /\ Signed' = Signed /\ (NoCounts' <=> NoCounts) /\ (Clean' <=> Clean)
         /\ Paid' /\ OwnersCount'
         /\ Clean => Balanced'
<1>1. AllHeld' = AllHeld /\ OfOwner' = OfOwner /\ OfOthers' = OfOthers
  BY ReferencesAreKept DEF SameCounts, AllHeld, OfOwner, OfOthers
<1>2. Signed' = Signed /\ (NoCounts' <=> NoCounts) /\ (Clean' <=> Clean)
  BY DEF SameCounts, Signed, NoCounts, Clean
<1>3. obj'.ops \in Nat
  BY DEF Fields, CellConstants
<1>4. Paid'
  BY <1>3, CellFacts, SomeCounts DEF RefsInv, Paid, SameCounts
<1>5. OwnersCount'
  BY <1>1 DEF RefsInv, OwnersCount, OfOwner, SameCounts
<1>6. ASSUME Clean PROVE Balanced'
  <2>1. Balanced
    BY <1>6 DEF RefsInv, Sane
  <2>2. Signed' + Cardinality(Reviving)' <= obj'.ops
    BY <1>2, <1>3, <1>6, <2>1, CellFacts, SomeCounts DEF Balanced, SameCounts
  <2> QED BY <1>1, <1>2, <2>1, <2>2 DEF Balanced, OfOthers, SameCounts
<1> QED BY <1>1, <1>2, <1>4, <1>5, <1>6

(* A count of zero reads as zero. *)
LEMMA ZeroReads ==
  ASSUME CellConstants, RefsInv
  PROVE  Signed = 0 <=> obj.shared = 0
BY CellFacts DEF Signed, CellConstants

(* The end of a release, on one thread. *)
LEMMA LoadSharedKept ==
  ASSUME CellConstants, RefsInv, Fields', NEW t \in RefThreads, LoadShared(t)
  PROVE  RefsInv'
<1>1. /\ UNCHANGED <<obj.biased, obj.shared, obj.owner, obj.refs, obj.merged, obj.ops>>
      /\ SameMemory /\ spec' = spec
      /\ obj'.at = [obj.at EXCEPT ![t] = IF obj.shared = 0 THEN "free" ELSE "merge"]
  BY DEF LoadShared, Goto, SameMemory, RefsInv, Fields
<1>2. Reviving' = Reviving
  BY <1>1 DEF Reviving, LoadShared, RefsInv, Fields
<1>3. SameCounts
  BY <1>1, <1>2, CellFacts, SomeCounts DEF SameCounts
<1>4. Failures'
  BY <1>1 DEF RefsInv, Failures, SameMemory
<1>5. ASSUME Clean' PROVE Sane'
  <2>1. Clean /\ Sane
    BY <1>3, <1>5, CountsKept DEF RefsInv
  <2>2. /\ Releasing(t) /\ obj.owner = t /\ obj.biased = 0 /\ ~obj.merged /\ ~obj.dropped
        /\ \A u \in RefThreads : ~Freeing(u) /\ (Releasing(u) => u = t)
    BY <2>1 DEF Sane, Disowned, Releasing, LoadShared
  <2>3. ~Merged' /\ Balanced'
    BY <1>1, <1>3, <2>1, <2>2, CountsKept DEF Merged
  <2>4. FreedOnce'
    BY <1>1, <2>1 DEF Sane, FreedOnce, SameMemory
  <2>5. CASE obj.shared = 0
    <3>1. \A u \in RefThreads : ~Releasing(u)' /\ (Freeing(u)' <=> u = t)
      BY <1>1, <2>2, <2>5 DEF Releasing, Freeing, RefsInv, Fields
    <3>2. NoCounts'
      BY <1>3, <2>2, <2>5, ZeroReads, CountsKept DEF NoCounts
    <3>3. Disowned'
      BY <2>3, <3>1 DEF Disowned
    <3>4. Gone'
      BY <1>1, <2>2, <3>1, <3>2 DEF Gone, SameMemory
    <3> QED BY <2>3, <2>4, <3>3, <3>4 DEF Sane
  <2>6. CASE obj.shared # 0
    <3>1. \A u \in RefThreads : ~Freeing(u)' /\ (Releasing(u)' <=> u = t)
      BY <1>1, <2>2, <2>6 DEF Releasing, Freeing, RefsInv, Fields
    <3>2. Disowned'
      BY <1>1, <2>2, <2>3, <3>1 DEF Disowned, SameMemory
    <3>3. Gone'
      BY <1>1, <2>2, <3>1 DEF Gone, SameMemory
    <3> QED BY <2>3, <2>4, <3>2, <3>3 DEF Sane
  <2> QED BY <2>5, <2>6
<1> QED BY <1>3, <1>4, <1>5, CountsKept DEF RefsInv

LEMMA SetMergedKept ==
  ASSUME CellConstants, RefsInv, Fields', NEW t \in RefThreads, SetMerged(t)
  PROVE  RefsInv'
<1>1. /\ UNCHANGED <<obj.biased, obj.shared, obj.owner, obj.refs, obj.ops>> /\ obj'.merged
      /\ SameMemory /\ obj'.at = [obj.at EXCEPT ![t] = "idle"]
      /\ UNCHANGED <<spec.left, spec.taken, spec.failed, spec.reowned, spec.revived, spec.weak_raced>>
      /\ obj.shared = 0 => spec'.raced
  BY DEF SetMerged, Goto, Merge, SameMemory, RefsInv, Fields
<1>2. Reviving' = Reviving
  BY <1>1 DEF Reviving, SetMerged, RefsInv, Fields
<1>3. SameCounts
  BY <1>1, <1>2, CellFacts, SomeCounts DEF SameCounts
<1>4. Failures'
  BY <1>1 DEF RefsInv, Failures, SameMemory
<1>5. ASSUME Clean' PROVE Sane'
  <2>1. Clean /\ Sane
    BY <1>3, <1>5, CountsKept DEF RefsInv
  <2>2. /\ obj.biased = 0 /\ ~obj.merged /\ ~obj.dropped
        /\ \A u \in RefThreads : ~Freeing(u) /\ (Releasing(u) => u = t)
    BY <2>1 DEF Sane, Disowned, Releasing, SetMerged
  <2>3. \A u \in RefThreads : ~Freeing(u)' /\ ~Releasing(u)'
    BY <1>1, <2>2 DEF Releasing, Freeing, RefsInv, Fields
  <2>4. Balanced' /\ Signed' >= 0
    <3>1. Signed >= 0
      BY <2>1, <2>2, CellFacts DEF Sane, Balanced
    <3> QED BY <1>3, <2>1, <3>1, CountsKept
  <2>5. Disowned'
    BY <1>1, <2>2, <2>3, <2>4 DEF Disowned, Merged
  <2>6. NoCounts' => spec'.raced
    BY <1>1, <1>3, ZeroReads, CountsKept DEF NoCounts
  <2>7. Gone'
    BY <1>1, <2>2, <2>3, <2>6 DEF Gone, SameMemory
  <2>8. FreedOnce'
    BY <1>1, <2>1 DEF Sane, FreedOnce, SameMemory
  <2> QED BY <2>4, <2>5, <2>7, <2>8 DEF Sane
<1> QED BY <1>3, <1>4, <1>5, CountsKept DEF RefsInv

LEMMA DoFreeKept ==
  ASSUME CellConstants, RefsInv, Fields', NEW t \in RefThreads, DoFree(t)
  PROVE  RefsInv'
<1>1. /\ UNCHANGED <<obj.biased, obj.shared, obj.owner, obj.refs, obj.merged, obj.ops, obj.weak>>
      /\ obj'.dropped /\ obj'.frees = (IF obj.weak = 0 THEN obj.frees + 1 ELSE obj.frees)
      /\ obj'.at = [obj.at EXCEPT ![t] = "idle"] /\ spec' = spec
  BY DEF DoFree, Goto, RefsInv, Fields
<1>2. Reviving' = Reviving
  BY <1>1 DEF Reviving, DoFree, RefsInv, Fields
<1>3. SameCounts
  BY <1>1, <1>2, CellFacts, SomeCounts DEF SameCounts
<1>4. Failures'
  BY <1>1 DEF RefsInv, Failures
<1>5. ASSUME Clean' PROVE Sane'
  <2>1. Clean /\ Sane
    BY <1>3, <1>5, CountsKept DEF RefsInv
  <2>2. /\ NoCounts /\ ~obj.dropped
        /\ \A u \in RefThreads : ~Releasing(u) /\ (Freeing(u) => u = t)
    BY <2>1 DEF Sane, Disowned, Gone, Freeing, DoFree
  <2>3. \A u \in RefThreads : ~Freeing(u)' /\ ~Releasing(u)'
    BY <1>1, <2>2 DEF Releasing, Freeing, RefsInv, Fields
  <2>4. Balanced' /\ NoCounts'
    BY <1>3, <2>1, <2>2, CountsKept
  <2>5. Disowned'
    BY <1>1, <2>3, <2>4 DEF Disowned, NoCounts
  <2>6. Gone'
    BY <2>3, <2>4, <1>1 DEF Gone
  <2>7. FreedOnce'
    <3>1. obj.frees \in Nat /\ (~spec.weak_raced => obj.frees = 0)
      BY <2>1, <2>2 DEF Sane, FreedOnce, RefsInv, Fields
    <3> QED BY <1>1, <3>1 DEF FreedOnce
  <2> QED BY <2>4, <2>5, <2>6, <2>7 DEF Sane
<1> QED BY <1>3, <1>4, <1>5, CountsKept DEF RefsInv

-----------------------------------------------------------------------------
(* Weak references *)

(* A cell that somebody holds has not been dropped. *)
LEMMA HeldIsAlive ==
  ASSUME CellConstants, RefsInv, NEW t \in RefThreads, Holds(t), Clean
  PROVE  ~NoCounts /\ ~obj.dropped /\ obj.biased + Signed >= 1
<1>1. AllHeld >= 1
  BY Holding DEF Holds
<1>2. obj.biased + Signed >= 1
  BY <1>1, CellFacts, SomeCounts DEF RefsInv, Sane, Balanced
<1> QED BY <1>2 DEF NoCounts, RefsInv, Sane, Gone

LEMMA WeakRefKept ==
  ASSUME CellConstants, RefsInv, Fields', NEW t \in RefThreads, cell_weak_ref(t)
  PROVE  RefsInv'
<1>1. /\ UNCHANGED <<obj.biased, obj.shared, obj.owner, obj.refs, obj.merged, obj.at, obj.frees, obj.dropped>>
      /\ obj'.weak = obj.weak + 1 /\ obj'.ops = obj.ops + 1 /\ spec' = spec
  BY DEF cell_weak_ref, RefsInv, Fields
<1>2. Reviving' = Reviving /\ SamePaths
  BY <1>1 DEF Reviving, SamePaths, Releasing, Freeing
<1>3. SameCounts
  BY <1>1, <1>2, CellFacts, SomeCounts DEF SameCounts
<1>4. Failures'
  BY <1>1 DEF RefsInv, Failures
<1>5. ASSUME Clean' PROVE Sane'
  <2>1. Clean /\ Sane /\ ~obj.dropped
    BY <1>3, <1>5, CountsKept, HeldIsAlive DEF RefsInv, cell_weak_ref
  <2>2. Balanced' /\ (NoCounts' <=> NoCounts) /\ (Merged' <=> Merged)
    BY <1>1, <1>3, <2>1, CountsKept DEF Merged
  <2>3. Disowned' /\ Gone'
    BY <1>1, <1>2, <2>1, <2>2 DEF Sane, Disowned, Gone, SamePaths
  <2>4. FreedOnce'
    BY <1>1, <2>1 DEF Sane, FreedOnce
  <2> QED BY <2>2, <2>3, <2>4 DEF Sane
<1> QED BY <1>3, <1>4, <1>5, CountsKept DEF RefsInv

LEMMA WeakReleaseKept ==
  ASSUME CellConstants, RefsInv, Fields', cell_weak_release
  PROVE  RefsInv'
<1> DEFINE last == obj.weak = 1 /\ obj.biased = 0 /\ obj.shared = 0
<1>1. /\ UNCHANGED <<obj.biased, obj.shared, obj.owner, obj.refs, obj.merged, obj.at, obj.dropped, obj.ops>>
      /\ obj'.weak = obj.weak - 1 /\ obj.weak > 0
      /\ obj'.frees = IF last THEN obj.frees + 1 ELSE obj.frees
  BY DEF cell_weak_release, RefsInv, Fields
<1>2. /\ UNCHANGED <<spec.left, spec.taken, spec.failed, spec.reowned, spec.raced, spec.revived>>
      /\ spec'.weak_raced <=> spec.weak_raced \/ (last /\ ~obj.dropped)
  BY DEF cell_weak_release, RefsInv, Fields
<1>3. Reviving' = Reviving /\ SamePaths
  BY <1>1 DEF Reviving, SamePaths, Releasing, Freeing
<1>4. SameCounts
  BY <1>1, <1>2, <1>3, CellFacts, SomeCounts DEF SameCounts
<1>5. obj.weak \in Nat /\ obj.frees \in Nat
  BY DEF RefsInv, Fields
<1>6. Failures'
  BY <1>1, <1>2, <1>5 DEF RefsInv, Failures
<1>7. ASSUME Clean' PROVE Sane'
  <2>1. Clean /\ Sane
    BY <1>4, <1>7, CountsKept DEF RefsInv
  <2>2. Balanced' /\ (NoCounts' <=> NoCounts) /\ (Merged' <=> Merged)
    BY <1>1, <1>4, <2>1, CountsKept DEF Merged
  <2>3. Disowned' /\ Gone'
    BY <1>1, <1>2, <1>3, <2>1, <2>2 DEF Sane, Disowned, Gone, SamePaths
  <2>4. obj.dropped => obj.biased = 0 /\ obj.shared = 0
    BY <2>1, ZeroReads DEF Sane, Gone, NoCounts
  <2>5. FreedOnce'
    <3>1. CASE last
      BY <1>1, <1>2, <1>5, <2>1, <3>1 DEF Sane, FreedOnce
    <3>2. CASE ~last
      <4>1. obj.dropped => obj.weak > 1 /\ obj'.weak > 0
        BY <1>1, <1>5, <2>4, <3>2
      <4> QED BY <1>1, <1>2, <1>5, <2>1, <3>2, <4>1 DEF Sane, FreedOnce
    <3> QED BY <3>1, <3>2
  <2> QED BY <2>2, <2>3, <2>5 DEF Sane
<1> QED BY <1>4, <1>6, <1>7, CountsKept DEF RefsInv

LEMMA WeakDerefKept ==
  ASSUME CellConstants, RefsInv, Fields', NEW t \in RefThreads, prim_weak_deref(t)
  PROVE  RefsInv'
<1>1. /\ UNCHANGED <<obj.biased, obj.shared, obj.owner, obj.refs, obj.merged>> /\ SameMemory
      /\ obj.at[t] = "idle" /\ obj'.at = [obj.at EXCEPT ![t] = "alive"]
      /\ obj'.ops = obj.ops + 1 /\ spec' = spec
  BY DEF prim_weak_deref, Goto, Idle, SameMemory, RefsInv, Fields
<1>2. Cardinality(Reviving)' = Cardinality(Reviving) + 1
  <2>1. Reviving' = Reviving \cup {t} /\ t \notin Reviving
    BY <1>1 DEF Reviving, RefsInv, Fields
  <2>2. Cardinality(Reviving \cup {t}) = Cardinality(Reviving) + 1
    BY <2>1, SomeCounts, FS_AddElement
  <2> QED BY <2>1, <2>2
<1>3. SamePaths
  BY <1>1 DEF SamePaths, Releasing, Freeing, RefsInv, Fields
<1>4. SameCounts
  BY <1>1, <1>2, CellFacts, SomeCounts DEF SameCounts
<1>5. Failures'
  BY <1>1 DEF RefsInv, Failures, SameMemory
<1>6. ASSUME Clean' PROVE Sane'
  <2>1. Clean /\ Sane
    BY <1>4, <1>6, CountsKept DEF RefsInv
  <2>2. Balanced' /\ (NoCounts' <=> NoCounts) /\ (Merged' <=> Merged)
    BY <1>1, <1>4, <2>1, CountsKept DEF Merged
  <2>3. Disowned' /\ Gone' /\ FreedOnce'
    BY <1>1, <1>3, <2>1, <2>2 DEF Sane, Disowned, Gone, FreedOnce, SamePaths, SameMemory
  <2> QED BY <2>2, <2>3 DEF Sane
<1> QED BY <1>4, <1>5, <1>6, CountsKept DEF RefsInv

(* The owner's assertion: only a reference that others had counted, given   *)
(* to the owner, finds its count at zero.                                   *)
OwnerFails(t, d) ==
  /\ obj.at[t] = "idle" /\ obj.owner = t /\ d \in {"biased", "shared"} /\ obj.refs[t][d] > 0 /\ obj.biased = 0
  /\ obj' = Goto(obj, t, "failed") /\ spec' = [spec EXCEPT !.failed = TRUE]

LEMMA OwnerFailsKept ==
  ASSUME CellConstants, RefsInv, Fields', NEW t \in RefThreads, NEW d \in Domains, OwnerFails(t, d)
  PROVE  RefsInv'
<1>1. /\ UNCHANGED <<obj.biased, obj.shared, obj.owner, obj.refs, obj.merged, obj.ops>> /\ SameMemory
      /\ obj'.at = [obj.at EXCEPT ![t] = "failed"]
      /\ UNCHANGED <<spec.left, spec.taken, spec.raced, spec.reowned, spec.revived, spec.weak_raced>>
  BY DEF OwnerFails, Goto, SameMemory, RefsInv, Fields
<1>2. Reviving' = Reviving /\ SamePaths
  BY <1>1 DEF Reviving, SamePaths, Releasing, Freeing, OwnerFails, RefsInv, Fields
<1>3. SameCounts
  BY <1>1, <1>2, CellFacts, SomeCounts DEF SameCounts
<1>4. spec.taken
  <2> SUFFICES ASSUME ~spec.taken PROVE FALSE
    OBVIOUS
  <2>1. obj.refs[t]["shared"] = 0 /\ obj.biased >= OfOwner
    BY DEF RefsInv, OwnersCount, OfOwner, OwnerFails, CellConstants
  <2>2. d = "biased"
    BY <2>1 DEF OwnerFails
  <2>3. OfOwner >= 1
    BY <2>2, Holding DEF OwnerFails
  <2> QED BY <2>1, <2>3, SomeCounts DEF OwnerFails
<1>5. Failures'
  BY <1>1, <1>4 DEF RefsInv, Failures, SameMemory
<1>6. ASSUME Clean' PROVE Sane'
  <2>1. Clean /\ Sane
    BY <1>3, <1>6, CountsKept DEF RefsInv
  <2>2. Balanced' /\ (NoCounts' <=> NoCounts) /\ (Merged' <=> Merged)
    BY <1>1, <1>3, <2>1, CountsKept DEF Merged
  <2>3. Disowned' /\ Gone' /\ FreedOnce'
    BY <1>1, <1>2, <2>1, <2>2 DEF Sane, Disowned, Gone, FreedOnce, SamePaths, SameMemory
  <2> QED BY <2>2, <2>3 DEF Sane
<1> QED BY <1>3, <1>5, <1>6, CountsKept DEF RefsInv

-----------------------------------------------------------------------------
(* The actions *)

(* The parts of a step: what the counters' helpers keep of the types.       *)
Obj == [biased : Nat, owner : {RefOwner, Nil}, shared : 0 .. CountMod - 1, merged : BOOLEAN,
        weak : Nat, frees : Nat, dropped : BOOLEAN, refs : [RefThreads -> [Domains -> Nat]],
        at : [RefThreads -> Places], ops : 0 .. MaxRefOps]

LEMMA HelpersTyped ==
  ASSUME CellConstants, NEW o \in Obj
  PROVE  /\ Increment(o) \in Obj /\ Decrement(o) \in Obj /\ Merge(o) \in Obj
         /\ \A t \in RefThreads, l \in Places : Goto(o, t, l) \in Obj
         /\ \A t \in RefThreads, d \in Domains : [o EXCEPT !.refs[t][d] = @ + 1] \in Obj
         /\ \A t \in RefThreads, d \in Domains : o.refs[t][d] > 0 => [o EXCEPT !.refs[t][d] = @ - 1] \in Obj
         /\ [o EXCEPT !.biased = @ + 1] \in Obj
         /\ o.biased > 0 => [o EXCEPT !.biased = @ - 1] \in Obj
         /\ o.ops < MaxRefOps => [o EXCEPT !.ops = @ + 1] \in Obj
<1>0. o.shared \in Nat /\ o.shared < CountMod /\ CountMod \in Nat /\ CountMod > 2 /\ (~o.merged) \in BOOLEAN
  <2>1. o.shared \in Nat /\ o.shared < CountMod /\ CountMod \in Nat /\ CountMod > 2
    BY DEF Obj, CellConstants
  <2>2. (~o.merged) \in BOOLEAN
    OBVIOUS
  <2> QED BY <2>1, <2>2
<1>1. Increment(o) \in Obj
  <2>1. CASE o.shared < CountMod - 1
    <3>1. o.shared + 1 \in 0 .. CountMod - 1
      BY <1>0, <2>1
    <3>2. [o EXCEPT !.shared = o.shared + 1] \in Obj
      BY <3>1 DEF Obj
    <3> QED BY <2>1, <3>2 DEF Increment
  <2>2. CASE ~(o.shared < CountMod - 1)
    <3>1. 0 \in 0 .. CountMod - 1
      BY <1>0
    <3>2. [o EXCEPT !.shared = 0, !.merged = ~o.merged] \in Obj
      BY <1>0, <3>1 DEF Obj
    <3> QED BY <2>2, <3>2 DEF Increment
  <2> QED BY <2>1, <2>2
<1>2. Decrement(o) \in Obj
  <2>1. CASE o.shared > 0
    <3>1. o.shared - 1 \in 0 .. CountMod - 1
      BY <1>0, <2>1
    <3>2. [o EXCEPT !.shared = o.shared - 1] \in Obj
      BY <3>1 DEF Obj
    <3> QED BY <2>1, <3>2 DEF Decrement
  <2>2. CASE ~(o.shared > 0)
    <3>1. CountMod - 1 \in 0 .. CountMod - 1
      BY <1>0
    <3>2. [o EXCEPT !.shared = CountMod - 1, !.merged = ~o.merged] \in Obj
      BY <1>0, <3>1 DEF Obj
    <3> QED BY <2>2, <3>2 DEF Decrement
  <2> QED BY <2>1, <2>2
<1>3. Merge(o) \in Obj
  BY DEF Merge, Obj
<1>4. ASSUME NEW t \in RefThreads, NEW l \in Places PROVE Goto(o, t, l) \in Obj
  BY DEF Goto, Obj
<1>5. ASSUME NEW t \in RefThreads, NEW d \in Domains
      PROVE  /\ [o EXCEPT !.refs[t][d] = @ + 1] \in Obj
             /\ o.refs[t][d] > 0 => [o EXCEPT !.refs[t][d] = @ - 1] \in Obj
  <2>1. o.refs \in [RefThreads -> [Domains -> Nat]] /\ o.refs[t] \in [Domains -> Nat] /\ o.refs[t][d] \in Nat
    BY DEF Obj
  <2>2. \A n \in Nat : [o.refs EXCEPT ![t][d] = n] \in [RefThreads -> [Domains -> Nat]]
    BY <2>1
  <2>3. \A f \in [RefThreads -> [Domains -> Nat]] : [o EXCEPT !.refs = f] \in Obj
    BY DEF Obj
  <2>4. /\ [o EXCEPT !.refs[t][d] = @ + 1] = [o EXCEPT !.refs = [o.refs EXCEPT ![t][d] = o.refs[t][d] + 1]]
        /\ [o EXCEPT !.refs[t][d] = @ - 1] = [o EXCEPT !.refs = [o.refs EXCEPT ![t][d] = o.refs[t][d] - 1]]
    OBVIOUS
  <2> QED BY <2>1, <2>2, <2>3, <2>4
<1>6. [o EXCEPT !.biased = @ + 1] \in Obj /\ (o.biased > 0 => [o EXCEPT !.biased = @ - 1] \in Obj)
  BY DEF Obj
<1>7. o.ops < MaxRefOps => [o EXCEPT !.ops = @ + 1] \in Obj
  BY DEF Obj, CellConstants
<1> QED BY <1>1, <1>2, <1>3, <1>4, <1>5, <1>6, <1>7

Notes == [left : BOOLEAN, taken : BOOLEAN, failed : BOOLEAN, reowned : BOOLEAN, raced : BOOLEAN,
          revived : BOOLEAN, weak_raced : BOOLEAN]

LEMMA NotesTyped ==
  ASSUME NEW n \in Notes, NEW b \in BOOLEAN, NEW c \in BOOLEAN
  PROVE  /\ [n EXCEPT !.left = b] \in Notes /\ [n EXCEPT !.taken = b] \in Notes
         /\ [n EXCEPT !.failed = b] \in Notes /\ [n EXCEPT !.reowned = b] \in Notes
         /\ [n EXCEPT !.raced = b] \in Notes /\ [n EXCEPT !.weak_raced = b] \in Notes
         /\ [n EXCEPT !.revived = b, !.reowned = c] \in Notes
BY DEF Notes

LEMMA RetainedTyped ==
  ASSUME CellConstants, obj \in Obj, NEW t \in RefThreads
  PROVE  Retained(obj, t) \in Obj
<1>1. "biased" \in Domains /\ "shared" \in Domains
  BY DEF Domains
<1>2. cell_retain_slow(obj, t, "shared") \in Obj
  BY <1>1, HelpersTyped DEF cell_retain_slow
<1> DEFINE a == [obj EXCEPT !.biased = @ + 1]
<1>3. a \in Obj
  BY HelpersTyped
<1>4. [a EXCEPT !.refs[t]["biased"] = @ + 1] \in Obj
  <2> HIDE DEF a
  <2> QED BY <1>1, <1>3, HelpersTyped
<1>5. [obj EXCEPT !.biased = @ + 1, !.refs[t]["biased"] = @ + 1] = [a EXCEPT !.refs[t]["biased"] = @ + 1]
  OBVIOUS
<1> QED BY <1>2, <1>4, <1>5 DEF Retained

LEMMA FieldsKept ==
  ASSUME CellConstants, Fields, Next
  PROVE  Fields'
<1> SUFFICES obj' \in Obj /\ spec' \in Notes
  BY DEF Fields, Obj, Notes
<1>1. obj \in Obj /\ spec \in Notes /\ obj.biased \in Nat /\ obj.weak \in Nat /\ obj.frees \in Nat
  BY DEF Fields, Obj, Notes
<1>2. /\ "biased" \in Domains /\ "shared" \in Domains /\ "moved" \in Domains
      /\ \A l \in {"idle", "zero", "merge", "free", "alive", "failed"} : l \in Places
  BY DEF Domains, Places
<1>3. \A t \in RefThreads : Retained(obj, t) \in Obj
  BY <1>1, RetainedTyped
<1>4. ASSUME NEW t \in RefThreads, cell_retain(t) PROVE obj' \in Obj /\ spec' \in Notes
  <2> DEFINE r == Retained(obj, t)
  <2>1. r \in Obj /\ r.ops < MaxRefOps
    <3>1. r.ops = obj.ops
      BY <1>1 DEF Retained, cell_retain_slow, Increment, Obj
    <3> QED BY <1>3, <1>4, <3>1 DEF cell_retain, Budget
  <2>2. [r EXCEPT !.ops = @ + 1] \in Obj
    <3> HIDE DEF r
    <3> QED BY <2>1, HelpersTyped
  <2>3. spec' \in Notes
    BY <1>1, <1>4, NotesTyped DEF cell_retain
  <2> QED BY <1>4, <2>2, <2>3 DEF cell_retain
<1>5. ASSUME NEW t \in RefThreads, RetainAlive(t) PROVE obj' \in Obj /\ spec' \in Notes
  <2> DEFINE r == Retained(obj, t)
  <2>1. r \in Obj
    BY <1>3
  <2>2. Goto(r, t, "idle") \in Obj
    <3> HIDE DEF r
    <3> QED BY <1>2, <2>1, HelpersTyped
  <2>3. spec' \in Notes
    <3> DEFINE b == spec.revived \/ (obj.biased = 0 /\ obj.shared = 0) \/ obj.dropped
               c == spec.reowned \/ (obj.owner = t /\ obj.merged)
    <3>1. b \in BOOLEAN /\ c \in BOOLEAN
      OBVIOUS
    <3>2. spec' = [spec EXCEPT !.revived = b, !.reowned = c]
      BY <1>5 DEF RetainAlive
    <3> HIDE DEF b, c
    <3> QED BY <1>1, <3>1, <3>2, NotesTyped
  <2> QED BY <1>5, <2>2, <2>3 DEF RetainAlive
<1>6. ASSUME NEW t \in RefThreads, NEW u \in RefThreads, NEW d \in Domains, HandOver(t, u, d)
      PROVE obj' \in Obj /\ spec' \in Notes
  <2> DEFINE a == [obj EXCEPT !.refs[t][d] = @ - 1]
             b == [a EXCEPT !.refs[u][d] = @ + 1]
  <2>1. a \in Obj
    BY <1>1, <1>6, HelpersTyped DEF HandOver
  <2>2. b \in Obj
    <3> HIDE DEF a
    <3> QED BY <2>1, HelpersTyped
  <2>3. b.ops < MaxRefOps
    BY <1>1, <1>6 DEF HandOver, Budget, Obj
  <2>4. [b EXCEPT !.ops = @ + 1] \in Obj
    <3> HIDE DEF b
    <3> QED BY <2>2, <2>3, HelpersTyped
  <2>5. obj' = [b EXCEPT !.ops = @ + 1]
    BY <1>6 DEF HandOver
  <2>6. spec' \in Notes
    <3> DEFINE c == spec.taken \/ (u = obj.owner /\ d = "shared")
    <3>1. c \in BOOLEAN /\ spec' = [spec EXCEPT !.taken = c]
      BY <1>6 DEF HandOver
    <3> HIDE DEF c
    <3> QED BY <1>1, <3>1, NotesTyped
  <2> QED BY <2>4, <2>5, <2>6
<1>7. ASSUME NEW t \in RefThreads, cell_transfer_to_shared(t) PROVE obj' \in Obj /\ spec' \in Notes
  <2> DEFINE r == cell_retain_slow(obj, t, "moved")
             a(d) == [r EXCEPT !.refs[t][d] = @ - 1]
             moved(d) == [a(d) EXCEPT !.ops = @ + 1]
             owned == [moved("biased") EXCEPT !.biased = @ - 1]
  <2>1. /\ r \in Obj /\ r.ops = obj.ops /\ r.biased = obj.biased /\ obj.ops < MaxRefOps
        /\ \A d \in {"biased", "shared"} : r.refs[t][d] = obj.refs[t][d]
    <3>1. Increment(obj) \in Obj
      BY <1>1, HelpersTyped
    <3>2. r \in Obj
      BY <1>2, <3>1, HelpersTyped DEF cell_retain_slow
    <3>3. Increment(obj).ops = obj.ops /\ Increment(obj).biased = obj.biased /\ Increment(obj).refs = obj.refs
      BY <1>1 DEF Increment, Obj
    <3>4. r.ops = obj.ops /\ r.biased = obj.biased
      BY <3>1, <3>3 DEF cell_retain_slow, Obj
    <3>5. ASSUME NEW d \in {"biased", "shared"} PROVE r.refs[t][d] = obj.refs[t][d]
      BY <3>1, <3>3, <1>2 DEF cell_retain_slow, Obj, Domains
    <3> QED BY <1>7, <3>2, <3>4, <3>5 DEF cell_transfer_to_shared, Budget
  <2>2. ASSUME NEW d \in {"biased", "shared"}, obj.refs[t][d] > 0
        PROVE  moved(d) \in Obj /\ moved(d).biased = obj.biased
    <3> HIDE DEF r
    <3>1. d \in Domains /\ r.refs[t][d] > 0
      BY <1>2, <2>1, <2>2
    <3>2. a(d) \in Obj
      BY <2>1, <3>1, HelpersTyped
    <3>3. a(d).ops < MaxRefOps /\ a(d).biased = obj.biased
      BY <2>1 DEF Obj
    <3> HIDE DEF a
    <3>4. moved(d) \in Obj
      BY <3>2, <3>3, HelpersTyped
    <3> QED BY <3>2, <3>3, <3>4 DEF Obj
  <2>3. CASE obj.owner = t
    <3>1. obj.refs[t]["biased"] > 0 /\ obj.biased > 0
      BY <1>7, <2>3 DEF cell_transfer_to_shared
    <3>2. owned \in Obj
      <4> DEFINE m == moved("biased")
      <4>1. m \in Obj /\ m.biased > 0
        BY <2>2, <3>1
      <4> HIDE DEF m, moved
      <4>2. [m EXCEPT !.biased = @ - 1] \in Obj
        BY <4>1, HelpersTyped
      <4> QED BY <4>2 DEF m
    <3>3. Merge([owned EXCEPT !.owner = Nil]) \in Obj
      <4> HIDE DEF owned
      <4>1. [owned EXCEPT !.owner = Nil] \in Obj
        BY <3>2 DEF Obj
      <4> QED BY <4>1, HelpersTyped
    <3>4. (obj' = Merge([owned EXCEPT !.owner = Nil]) \/ obj' = owned) /\ spec' = spec
      BY <1>7, <2>3 DEF cell_transfer_to_shared
    <3> HIDE DEF owned
    <3> QED BY <1>1, <3>2, <3>3, <3>4
  <2>4. CASE obj.owner # t
    <3>1. obj.refs[t]["shared"] > 0 /\ obj' = moved("shared") /\ spec' = [spec EXCEPT !.left = TRUE]
      BY <1>7, <2>4 DEF cell_transfer_to_shared
    <3> HIDE DEF moved
    <3> QED BY <1>1, <2>2, <3>1, NotesTyped
  <2> QED BY <2>3, <2>4
<1>8. ASSUME NEW t \in RefThreads, NEW d \in Domains, obj.refs[t][d] > 0
      PROVE  cell_release_slow(Dropping(t, d), t) \in Obj
  <2>1. Dropping(t, d) \in Obj
    BY <1>1, <1>8, HelpersTyped DEF Dropping
  <2>2. Decrement(Dropping(t, d)) \in Obj
    BY <2>1, HelpersTyped
  <2>3. Goto(Decrement(Dropping(t, d)), t, "free") \in Obj
    BY <1>2, <2>2, HelpersTyped
  <2> QED BY <2>2, <2>3 DEF cell_release_slow
<1>9. ASSUME NEW t \in RefThreads, cell_release_shared(t) PROVE obj' \in Obj /\ spec' \in Notes
  BY <1>1, <1>2, <1>8, <1>9 DEF cell_release_shared
<1>10. ASSUME NEW t \in RefThreads, NEW d \in {"biased", "shared"}, cell_release_other(t, d)
       PROVE  obj' \in Obj /\ spec' \in Notes
  <2> DEFINE b == spec.left \/ d = "biased"
  <2>1. b \in BOOLEAN /\ spec' = [spec EXCEPT !.left = b]
    BY <1>10 DEF cell_release_other
  <2>2. obj' \in Obj
    BY <1>2, <1>8, <1>10 DEF cell_release_other
  <2> HIDE DEF b
  <2> QED BY <1>1, <2>1, <2>2, NotesTyped
<1>11. ASSUME NEW t \in RefThreads, NEW d \in {"biased", "shared"}, cell_release_owner(t, d)
       PROVE  obj' \in Obj /\ spec' \in Notes
  <2>1. CASE obj.biased = 0
    <3>1. Goto(obj, t, "failed") \in Obj
      BY <1>1, <1>2, HelpersTyped
    <3> QED BY <1>1, <1>11, <2>1, <3>1, NotesTyped DEF cell_release_owner
  <2>2. CASE obj.biased # 0
    <3> DEFINE r == Dropping(t, d)
               o == [r EXCEPT !.biased = @ - 1]
    <3>0. d \in Domains /\ obj.refs[t][d] > 0 /\ obj.biased > 0
      BY <1>1, <1>2, <1>11, <2>2 DEF cell_release_owner
    <3>1. r \in Obj /\ r.biased = obj.biased
      <4>1. r \in Obj
        BY <1>1, <3>0, HelpersTyped DEF Dropping
      <4> QED BY <1>1, <4>1 DEF Dropping, Obj
    <3>2. o \in Obj
      <4> HIDE DEF r
      <4> QED BY <3>0, <3>1, HelpersTyped
    <3>3. Goto(o, t, "zero") \in Obj
      <4> HIDE DEF o
      <4> QED BY <1>2, <3>2, HelpersTyped
    <3>4. (obj' = Goto(o, t, "zero") \/ obj' = o) /\ spec' = spec
      BY <1>11, <2>2 DEF cell_release_owner
    <3> QED BY <1>1, <3>2, <3>3, <3>4
  <2> QED BY <2>1, <2>2
<1>12. ASSUME NEW t \in RefThreads, LoadShared(t) \/ SetMerged(t) \/ prim_weak_deref(t)
       PROVE  obj' \in Obj /\ spec' \in Notes
  <2>1. ASSUME NEW o \in Obj PROVE Goto(o, t, "free") \in Obj /\ Goto(o, t, "merge") \in Obj
                                  /\ Goto(o, t, "idle") \in Obj /\ Goto(o, t, "alive") \in Obj
    BY <1>2, HelpersTyped
  <2>2. CASE LoadShared(t)
    BY <1>1, <2>1, <2>2 DEF LoadShared
  <2>3. CASE SetMerged(t)
    <3>1. Merge(obj) \in Obj
      BY <1>1, HelpersTyped
    <3> DEFINE b == spec.raced \/ obj.shared = 0
    <3>2. b \in BOOLEAN /\ spec' = [spec EXCEPT !.raced = b]
      BY <2>3 DEF SetMerged
    <3> HIDE DEF b
    <3>3. spec' \in Notes
      BY <1>1, <3>2, NotesTyped
    <3> QED BY <2>1, <2>3, <3>1, <3>3 DEF SetMerged
  <2>4. CASE prim_weak_deref(t)
    <3> DEFINE o == Goto(obj, t, "alive")
    <3>1. o \in Obj /\ o.ops < MaxRefOps
      BY <1>1, <2>1, <2>4 DEF prim_weak_deref, Budget, Goto, Obj
    <3>2. [o EXCEPT !.ops = @ + 1] \in Obj
      <4> HIDE DEF o
      <4> QED BY <3>1, HelpersTyped
    <3> QED BY <1>1, <2>4, <3>2 DEF prim_weak_deref
  <2> QED BY <1>12, <2>2, <2>3, <2>4
<1>13. ASSUME NEW t \in RefThreads, DoFree(t) \/ cell_weak_ref(t) PROVE obj' \in Obj /\ spec' \in Notes
  <2>1. CASE DoFree(t)
    <3> DEFINE o == Goto(obj, t, "idle")
    <3>1. o \in Obj
      BY <1>1, <1>2, HelpersTyped
    <3>2. /\ spec' = spec
          /\ \/ obj' = [o EXCEPT !.dropped = TRUE, !.frees = @ + 1]
             \/ obj' = [o EXCEPT !.dropped = TRUE, !.frees = @]
      BY <2>1 DEF DoFree
    <3> HIDE DEF o
    <3>3. \A n \in Nat : [o EXCEPT !.dropped = TRUE, !.frees = n] \in Obj
      BY <3>1 DEF Obj
    <3>4. o.frees \in Nat /\ o.frees + 1 \in Nat
      BY <3>1 DEF Obj
    <3>5. \/ obj' = [o EXCEPT !.dropped = TRUE, !.frees = o.frees + 1]
          \/ obj' = [o EXCEPT !.dropped = TRUE, !.frees = o.frees]
      BY <3>1, <3>2 DEF Obj
    <3> QED BY <1>1, <3>2, <3>3, <3>4, <3>5
  <2>2. CASE cell_weak_ref(t)
    <3>1. obj.ops + 1 \in 0 .. MaxRefOps
      BY <1>1, <2>2 DEF cell_weak_ref, Budget, Obj, CellConstants
    <3>2. obj' = [obj EXCEPT !.weak = obj.weak + 1, !.ops = obj.ops + 1] /\ spec' = spec /\ obj.weak + 1 \in Nat
      BY <1>1, <2>2 DEF cell_weak_ref
    <3>3. \A w \in Nat, n \in 0 .. MaxRefOps : [obj EXCEPT !.weak = w, !.ops = n] \in Obj
      BY <1>1 DEF Obj
    <3> QED BY <1>1, <3>1, <3>2, <3>3
  <2> QED BY <1>13, <2>1, <2>2
<1>14. ASSUME cell_weak_release PROVE obj' \in Obj /\ spec' \in Notes
  <2>1. obj' \in Obj
    <3>1. \A w, n \in Nat : [obj EXCEPT !.weak = w, !.frees = n] \in Obj
      BY <1>1 DEF Obj
    <3>2. obj.weak - 1 \in Nat /\ obj.frees + 1 \in Nat
      BY <1>1, <1>14 DEF cell_weak_release
    <3>3. \/ obj' = [obj EXCEPT !.weak = obj.weak - 1, !.frees = obj.frees + 1]
          \/ obj' = [obj EXCEPT !.weak = obj.weak - 1, !.frees = obj.frees]
      BY <1>14 DEF cell_weak_release
    <3> QED BY <1>1, <3>1, <3>2, <3>3
  <2> DEFINE b == spec.weak_raced \/ (obj.weak = 1 /\ (obj.biased = 0 /\ obj.shared = 0) /\ ~obj.dropped)
  <2>2. b \in BOOLEAN /\ spec' = [spec EXCEPT !.weak_raced = b]
    BY <1>14 DEF cell_weak_release
  <2> HIDE DEF b
  <2> QED BY <1>1, <2>1, <2>2, NotesTyped
<1> QED BY <1>2, <1>4, <1>5, <1>6, <1>7, <1>9, <1>10, <1>11, <1>12, <1>13, <1>14 DEF Next

(* What the two functions of a retain and a release change. *)
LEMMA RetainedShape ==
  ASSUME obj \in Obj, NEW t \in RefThreads, NEW r, r = Retained(obj, t)
  PROVE  /\ r.owner = obj.owner /\ r.weak = obj.weak /\ r.frees = obj.frees /\ r.dropped = obj.dropped
         /\ r.at = obj.at /\ r.ops = obj.ops
         /\ \/ /\ obj.owner = t /\ r.biased = obj.biased + 1
               /\ r.refs = [obj.refs EXCEPT ![t]["biased"] = @ + 1]
               /\ r.shared = obj.shared /\ r.merged = obj.merged
            \/ /\ obj.owner # t /\ r.biased = obj.biased
               /\ r.refs = [obj.refs EXCEPT ![t]["shared"] = @ + 1]
               /\ r.shared = (IF obj.shared < CountMod - 1 THEN obj.shared + 1 ELSE 0)
               /\ r.merged = (IF obj.shared < CountMod - 1 THEN obj.merged ELSE ~obj.merged)
<1>1. CASE obj.owner = t
  <2>1. r = [obj EXCEPT !.biased = @ + 1, !.refs[t]["biased"] = @ + 1]
    BY <1>1 DEF Retained
  <2> QED BY <1>1, <2>1 DEF Obj
<1>2. CASE obj.owner # t
  <2>1. r = [Increment(obj) EXCEPT !.refs[t]["shared"] = @ + 1]
    BY <1>2 DEF Retained, cell_retain_slow
  <2>2. CASE obj.shared < CountMod - 1
    <3>1. r = [[obj EXCEPT !.shared = @ + 1] EXCEPT !.refs[t]["shared"] = @ + 1]
      BY <2>1, <2>2 DEF Increment
    <3> QED BY <1>2, <2>2, <3>1 DEF Obj
  <2>3. CASE ~(obj.shared < CountMod - 1)
    <3>1. r = [[obj EXCEPT !.shared = 0, !.merged = ~@] EXCEPT !.refs[t]["shared"] = @ + 1]
      BY <2>1, <2>3 DEF Increment
    <3> QED BY <1>2, <2>3, <3>1 DEF Obj
  <2> QED BY <2>2, <2>3
<1> QED BY <1>1, <1>2

LEMMA ReleasedShape ==
  ASSUME obj \in Obj, NEW t \in RefThreads, NEW d \in Domains, NEW r, r = cell_release_slow(Dropping(t, d), t)
  PROVE  /\ r.owner = obj.owner /\ r.weak = obj.weak /\ r.frees = obj.frees /\ r.dropped = obj.dropped
         /\ r.ops = obj.ops /\ r.biased = obj.biased
         /\ r.refs = [obj.refs EXCEPT ![t][d] = @ - 1]
         /\ r.shared = (IF obj.shared > 0 THEN obj.shared - 1 ELSE CountMod - 1)
         /\ r.merged = (IF obj.shared > 0 THEN obj.merged ELSE ~obj.merged)
         /\ r.at = IF obj.merged /\ obj.shared = 1 THEN [obj.at EXCEPT ![t] = "free"] ELSE obj.at
<1> DEFINE o == Dropping(t, d)
<1>1. o = [obj EXCEPT !.refs = [obj.refs EXCEPT ![t][d] = @ - 1]]
  BY DEF Dropping
<1>2. /\ o.owner = obj.owner /\ o.weak = obj.weak /\ o.frees = obj.frees /\ o.dropped = obj.dropped
      /\ o.ops = obj.ops /\ o.biased = obj.biased /\ o.refs = [obj.refs EXCEPT ![t][d] = @ - 1]
      /\ o.shared = obj.shared /\ o.merged = obj.merged /\ o.at = obj.at
  BY <1>1 DEF Obj
<1>3. r = IF obj.merged /\ obj.shared = 1 THEN Goto(Decrement(o), t, "free") ELSE Decrement(o)
  BY <1>2 DEF cell_release_slow
<1>4. Decrement(o) = IF obj.shared > 0
                     THEN [obj EXCEPT !.refs = [obj.refs EXCEPT ![t][d] = @ - 1], !.shared = obj.shared - 1]
                     ELSE [obj EXCEPT !.refs = [obj.refs EXCEPT ![t][d] = @ - 1],
                                      !.shared = CountMod - 1, !.merged = ~obj.merged]
  BY <1>1, <1>2 DEF Decrement, Obj
<1> HIDE DEF o
<1>5. CASE ~(obj.merged /\ obj.shared = 1)
  <2>1. CASE obj.shared > 0
    BY <1>3, <1>4, <1>5, <2>1 DEF Obj
  <2>2. CASE ~(obj.shared > 0)
    BY <1>3, <1>4, <1>5, <2>2 DEF Obj
  <2> QED BY <2>1, <2>2
<1>6. CASE obj.merged /\ obj.shared = 1
  <2> DEFINE e == Decrement(o)
             at == [obj.at EXCEPT ![t] = "free"]
             refs == [obj.refs EXCEPT ![t][d] = @ - 1]
  <2>1. e = [obj EXCEPT !.refs = refs, !.shared = obj.shared - 1] /\ e.at = obj.at
    BY <1>4, <1>6 DEF Obj
  <2>2. r = [e EXCEPT !.at[t] = "free"]
    BY <1>3, <1>6 DEF Goto
  <2>3. r = [e EXCEPT !.at = at]
    <3> HIDE DEF e
    <3> QED BY <2>1, <2>2
  <2>4. r = [obj EXCEPT !.refs = refs, !.shared = obj.shared - 1, !.at = at]
    <3> HIDE DEF e, at, refs
    <3> QED BY <2>1, <2>3
  <2>5. /\ r.refs = refs /\ r.shared = obj.shared - 1 /\ r.at = at
        /\ r.owner = obj.owner /\ r.weak = obj.weak /\ r.frees = obj.frees /\ r.dropped = obj.dropped
        /\ r.ops = obj.ops /\ r.biased = obj.biased /\ r.merged = obj.merged
    <3> HIDE DEF at, refs, e
    <3> QED BY <2>4 DEF Obj
  <2> HIDE DEF e
  <2> QED BY <1>6, <2>5
<1> QED BY <1>5, <1>6

LEMMA StepKept ==
  ASSUME CellConstants, RefsInv, Next
  PROVE  RefsInv'
<1>1. Fields'
  BY FieldsKept DEF RefsInv
<1>2. /\ "biased" \in Domains /\ "shared" \in Domains /\ "moved" \in Domains
      /\ obj \in Obj /\ spec \in Notes
  BY DEF Domains, RefsInv, Fields, Obj, Notes
<1>3. obj.refs \in Counts /\ obj.at \in [RefThreads -> Places]
  BY DEF RefsInv, Fields, Counts
<1>4. ASSUME NEW t \in RefThreads, cell_retain(t) PROVE RefsInv'
  <2> DEFINE r == Retained(obj, t)
  <2>1. r \in Obj /\ obj' = [r EXCEPT !.ops = @ + 1]
    BY <1>2, <1>4, RetainedTyped DEF cell_retain
  <2> HIDE DEF r
  <2>2. /\ obj'.ops = r.ops + 1 /\ obj'.at = r.at /\ obj'.weak = r.weak /\ obj'.frees = r.frees
        /\ obj'.dropped = r.dropped /\ obj'.owner = r.owner /\ obj'.biased = r.biased
        /\ obj'.shared = r.shared /\ obj'.merged = r.merged /\ obj'.refs = r.refs
    BY <2>1 DEF Obj
  <2> USE DEF r
  <2>3. obj'.ops = obj.ops + 1 /\ obj'.at = obj.at /\ SameMemory
    BY <1>2, <2>2, RetainedShape DEF SameMemory
  <2>4. SamePaths /\ Reviving' = Reviving /\ ~Releasing(t)
    BY <1>4, <2>3 DEF SamePaths, Releasing, Freeing, Reviving, cell_retain, Idle
  <2>5. /\ UNCHANGED <<spec.left, spec.taken, spec.failed, spec.raced, spec.weak_raced>>
        /\ Clean' => Clean /\ ~(obj.owner = t /\ obj.merged)
    BY <1>2, <1>4 DEF cell_retain, Clean, Notes
  <2>6. Clean => ~NoCounts /\ ~obj.dropped
    BY <1>4, HeldIsAlive DEF cell_retain
  <2>7. /\ UNCHANGED obj.owner
        /\ \/ /\ obj.owner = t /\ obj'.biased = obj.biased + 1 /\ Gains(t, "biased")
              /\ UNCHANGED <<obj.shared, obj.merged>>
           \/ /\ obj.owner # t /\ Up /\ Gains(t, "shared")
              /\ UNCHANGED obj.biased
    BY <1>2, <2>2, RetainedShape DEF Gains, Up
  <2>8. Retains(t)
    BY <2>3, <2>4, <2>5, <2>6, <2>7, SomeCounts, CellFacts DEF Retains
  <2> QED BY <1>1, <2>8, RetainsKept
<1>5. ASSUME NEW t \in RefThreads, RetainAlive(t) PROVE RefsInv'
  <2> DEFINE r == Retained(obj, t)
  <2>1. r \in Obj /\ obj' = [r EXCEPT !.at = [r.at EXCEPT ![t] = "idle"]]
    BY <1>2, <1>5, RetainedTyped DEF RetainAlive, Goto
  <2> HIDE DEF r
  <2>2. /\ obj'.ops = r.ops /\ obj'.at = [r.at EXCEPT ![t] = "idle"] /\ obj'.weak = r.weak
        /\ obj'.frees = r.frees /\ obj'.dropped = r.dropped /\ obj'.owner = r.owner
        /\ obj'.biased = r.biased /\ obj'.shared = r.shared /\ obj'.merged = r.merged /\ obj'.refs = r.refs
    BY <2>1 DEF Obj
  <2> USE DEF r
  <2>3. obj'.ops = obj.ops /\ obj'.at = [obj.at EXCEPT ![t] = "idle"] /\ SameMemory
    BY <1>2, <2>2, RetainedShape DEF SameMemory
  <2>4. SamePaths /\ ~Releasing(t)
    BY <1>3, <1>5, <2>3 DEF SamePaths, Releasing, Freeing, RetainAlive
  <2>5. Cardinality(Reviving)' = Cardinality(Reviving) - 1
    <3>1. Reviving' = Reviving \ {t} /\ t \in Reviving
      BY <1>3, <1>5, <2>3 DEF Reviving, RetainAlive
    <3>2. Cardinality(Reviving \ {t}) = Cardinality(Reviving) - 1
      BY <3>1, SomeCounts, FS_RemoveElement
    <3> QED BY <3>1, <3>2
  <2>6. /\ UNCHANGED <<spec.left, spec.taken, spec.failed, spec.raced, spec.weak_raced>>
        /\ Clean' => Clean /\ ~(obj.owner = t /\ obj.merged) /\ ~(obj.biased = 0 /\ obj.shared = 0) /\ ~obj.dropped
    BY <1>2, <1>5 DEF RetainAlive, Clean, Notes
  <2>7. /\ UNCHANGED obj.owner
        /\ \/ /\ obj.owner = t /\ obj'.biased = obj.biased + 1 /\ Gains(t, "biased")
              /\ UNCHANGED <<obj.shared, obj.merged>>
           \/ /\ obj.owner # t /\ Up /\ Gains(t, "shared")
              /\ UNCHANGED obj.biased
    BY <1>2, <2>2, RetainedShape DEF Gains, Up
  <2>8. Clean' => ~NoCounts
    BY <2>6, ZeroReads DEF NoCounts
  <2>9. Retains(t)
    BY <2>3, <2>4, <2>5, <2>6, <2>7, <2>8, SomeCounts, CellFacts DEF Retains
  <2> QED BY <1>1, <2>9, RetainsKept
<1>6. ASSUME NEW t \in RefThreads, NEW u \in RefThreads, NEW d \in Domains, HandOver(t, u, d) PROVE RefsInv'
  <2> DEFINE f == [[obj.refs EXCEPT ![t][d] = @ - 1] EXCEPT ![u][d] = @ + 1]
  <2>1. obj' = [obj EXCEPT !.refs = f, !.ops = obj.ops + 1]
    BY <1>2, <1>6 DEF HandOver, Obj
  <2>2. /\ obj'.refs = f /\ obj'.ops = obj.ops + 1 /\ SameMemory
        /\ UNCHANGED <<obj.biased, obj.shared, obj.merged, obj.owner, obj.at>>
    <3> HIDE DEF f
    <3> QED BY <1>2, <2>1 DEF Obj, SameMemory
  <2>3. HandsOver(t, u, d)
    BY <1>6, <2>2 DEF HandsOver, HandOver, Moves
  <2> QED BY <1>1, <2>3, HandsOverKept
<1>7. ASSUME NEW t \in RefThreads, cell_transfer_to_shared(t) PROVE RefsInv'
  <2> DEFINE f(d) == [[obj.refs EXCEPT ![t][d] = @ - 1] EXCEPT ![t]["moved"] = @ + 1]
             m(d) == [[cell_retain_slow(obj, t, "moved") EXCEPT !.refs[t][d] = @ - 1] EXCEPT !.ops = @ + 1]
             carry == ~(obj.shared < CountMod - 1)
             shared == IF carry THEN 0 ELSE obj.shared + 1
             merged == IF carry THEN ~obj.merged ELSE obj.merged
  <2>1. ASSUME NEW d \in {"biased", "shared"}
        PROVE  m(d) = [obj EXCEPT !.refs = f(d), !.shared = shared, !.merged = merged, !.ops = obj.ops + 1]
    <3>1. Increment(obj) = [obj EXCEPT !.shared = shared, !.merged = merged]
      BY <1>2 DEF Increment, Obj
    <3> HIDE DEF shared, merged
    <3>2. cell_retain_slow(obj, t, "moved")
            = [obj EXCEPT !.shared = shared, !.merged = merged, !.refs = [obj.refs EXCEPT ![t]["moved"] = @ + 1]]
      BY <1>2, <3>1 DEF cell_retain_slow, Obj
    <3> DEFINE up == [obj.refs EXCEPT ![t]["moved"] = @ + 1]
               g == [up EXCEPT ![t][d] = @ - 1]
    <3>3. g = f(d)
      <4>1. /\ g = [obj.refs EXCEPT ![t] = [[obj.refs[t] EXCEPT !["moved"] = @ + 1] EXCEPT ![d] = @ - 1]]
            /\ f(d) = [obj.refs EXCEPT ![t] = [[obj.refs[t] EXCEPT ![d] = @ - 1] EXCEPT !["moved"] = @ + 1]]
        BY <1>3 DEF Counts
      <4>2. [[obj.refs[t] EXCEPT !["moved"] = @ + 1] EXCEPT ![d] = @ - 1]
              = [[obj.refs[t] EXCEPT ![d] = @ - 1] EXCEPT !["moved"] = @ + 1]
        BY <1>2, <1>3 DEF Counts, Domains
      <4> QED BY <4>1, <4>2
    <3> HIDE DEF up, f
    <3>4. cell_retain_slow(obj, t, "moved") = [obj EXCEPT !.shared = shared, !.merged = merged, !.refs = up]
      BY <3>2 DEF up
    <3>5. [cell_retain_slow(obj, t, "moved") EXCEPT !.refs[t][d] = @ - 1]
            = [obj EXCEPT !.shared = shared, !.merged = merged, !.refs = g]
      BY <1>2, <3>4 DEF Obj
    <3> HIDE DEF g
    <3> QED BY <1>2, <3>3, <3>5 DEF Obj
  <2>2. obj.at[t] = "idle"
    BY <1>7 DEF cell_transfer_to_shared, Idle
  <2>3. CASE obj.owner = t
    <3> DEFINE o == [m("biased") EXCEPT !.biased = @ - 1]
    <3>1. /\ obj.refs[t]["biased"] > 0 /\ obj.biased > 0 /\ spec' = spec
          /\ obj' = IF o.biased = 0 THEN Merge([o EXCEPT !.owner = Nil]) ELSE o
      BY <1>7, <2>3 DEF cell_transfer_to_shared
    <3> HIDE DEF f, shared, merged
    <3>2. o = [obj EXCEPT !.refs = f("biased"), !.shared = shared, !.merged = merged, !.ops = obj.ops + 1,
                          !.biased = obj.biased - 1]
      BY <1>2, <2>1 DEF Obj
    <3> HIDE DEF m, o
    <3>3. /\ o.refs = f("biased") /\ o.shared = shared /\ o.merged = merged /\ o.ops = obj.ops + 1
          /\ o.biased = obj.biased - 1 /\ o.owner = obj.owner /\ o.weak = obj.weak /\ o.frees = obj.frees
          /\ o.dropped = obj.dropped /\ o.at = obj.at
      BY <1>2, <3>2 DEF Obj
    <3>4. /\ obj'.refs = f("biased") /\ obj'.shared = shared /\ obj'.ops = obj.ops + 1
          /\ obj'.biased = obj.biased - 1 /\ SameMemory /\ UNCHANGED obj.at
          /\ IF obj.biased = 1 THEN obj'.merged = TRUE /\ obj'.owner = Nil
             ELSE obj'.merged = merged /\ UNCHANGED obj.owner
      <4>1. o.biased = 0 <=> obj.biased = 1
        <5>1. obj.biased \in Nat
          BY <1>2 DEF Obj
        <5> QED BY <3>3, <5>1
      <4>2. CASE obj.biased = 1
        <5>1. obj' = [[o EXCEPT !.owner = Nil] EXCEPT !.merged = TRUE]
          BY <3>1, <4>1, <4>2 DEF Merge
        <5>2. obj' = [obj EXCEPT !.refs = f("biased"), !.shared = shared, !.ops = obj.ops + 1,
                                 !.biased = obj.biased - 1, !.owner = Nil, !.merged = TRUE]
          BY <1>2, <3>2, <5>1 DEF Obj
        <5> QED BY <1>2, <4>2, <5>2 DEF Obj, SameMemory
      <4>3. CASE obj.biased # 1
        <5>1. obj' = o
          BY <3>1, <4>1, <4>3
        <5> QED BY <3>3, <4>3, <5>1 DEF SameMemory
      <4> QED BY <4>2, <4>3
    <3>5. OwnerTransfers(t)
      BY <2>2, <2>3, <3>1, <3>4 DEF OwnerTransfers, Moves, f, shared, merged
    <3> QED BY <1>1, <3>5, OwnerTransfersKept
  <2>4. CASE obj.owner # t
    <3>1. obj.refs[t]["shared"] > 0 /\ obj' = m("shared") /\ spec' = [spec EXCEPT !.left = TRUE]
      BY <1>7, <2>4 DEF cell_transfer_to_shared
    <3>2. obj' = [obj EXCEPT !.refs = f("shared"), !.shared = shared, !.merged = merged, !.ops = obj.ops + 1]
      BY <2>1, <3>1
    <3> HIDE DEF m
    <3>3. /\ obj'.refs = f("shared") /\ obj'.shared = shared /\ obj'.merged = merged /\ obj'.ops = obj.ops + 1
          /\ SameMemory /\ UNCHANGED <<obj.biased, obj.owner, obj.at>>
      <4> HIDE DEF f, shared, merged
      <4> QED BY <1>2, <3>2 DEF Obj, SameMemory
    <3>4. OthersTransfer(t)
      BY <2>2, <2>4, <3>1, <3>3 DEF OthersTransfer, Moves, Up
    <3> QED BY <1>1, <3>4, OthersTransferKept
  <2> QED BY <2>3, <2>4
<1>8. ASSUME NEW t \in RefThreads, cell_release_shared(t) PROVE RefsInv'
  <2>1. obj' = cell_release_slow(Dropping(t, "moved"), t) /\ spec' = spec
        /\ obj.at[t] = "idle" /\ obj.refs[t]["moved"] > 0
    BY <1>8 DEF cell_release_shared, Idle
  <2>2. Releases(t, "moved")
    BY <1>2, <2>1, ReleasedShape DEF Releases, Loses, Down, SameMemory
  <2> QED BY <1>1, <1>2, <2>2, ReleasesKept
<1>9. ASSUME NEW t \in RefThreads, NEW d \in {"biased", "shared"}, cell_release_other(t, d) PROVE RefsInv'
  <2>1. obj' = cell_release_slow(Dropping(t, d), t) /\ obj.owner # t
        /\ obj.at[t] = "idle" /\ obj.refs[t][d] > 0 /\ d \in Domains
    BY <1>2, <1>9 DEF cell_release_other, Idle
  <2>2. /\ UNCHANGED <<spec.taken, spec.failed, spec.raced, spec.weak_raced, spec.reowned, spec.revived>>
        /\ (spec.left => spec'.left) /\ (d = "biased" => spec'.left)
    BY <1>2, <1>9 DEF cell_release_other, Notes
  <2>3. Releases(t, d)
    BY <1>2, <2>1, <2>2, ReleasedShape DEF Releases, Loses, Down, SameMemory
  <2> QED BY <1>1, <2>1, <2>3, ReleasesKept
<1>10. ASSUME NEW t \in RefThreads, NEW d \in {"biased", "shared"}, cell_release_owner(t, d) PROVE RefsInv'
  <2>1. obj.at[t] = "idle" /\ obj.owner = t /\ obj.refs[t][d] > 0 /\ d \in Domains
    BY <1>2, <1>10 DEF cell_release_owner, Idle
  <2>2. CASE obj.biased = 0
    <3>1. OwnerFails(t, d)
      BY <1>10, <2>1, <2>2 DEF OwnerFails, cell_release_owner
    <3> QED BY <1>1, <2>1, <3>1, OwnerFailsKept
  <2>3. CASE obj.biased # 0
    <3> DEFINE f == [obj.refs EXCEPT ![t][d] = @ - 1]
               o == [Dropping(t, d) EXCEPT !.biased = @ - 1]
    <3>1. o = [obj EXCEPT !.refs = f, !.biased = obj.biased - 1]
      BY <1>2 DEF Dropping, Obj
    <3>2. /\ o.refs = f /\ o.biased = obj.biased - 1 /\ o.shared = obj.shared /\ o.merged = obj.merged
          /\ o.owner = obj.owner /\ o.ops = obj.ops /\ o.weak = obj.weak /\ o.frees = obj.frees
          /\ o.dropped = obj.dropped /\ o.at = obj.at
      <4> HIDE DEF f, o
      <4> QED BY <1>2, <3>1 DEF Obj
    <3>3. obj' = (IF obj.biased = 1 THEN [obj EXCEPT !.refs = f, !.biased = obj.biased - 1,
                                                    !.at = [obj.at EXCEPT ![t] = "zero"]]
                  ELSE o) /\ spec' = spec
      <4>1. obj' = (IF o.biased = 0 THEN Goto(o, t, "zero") ELSE o) /\ spec' = spec
        BY <1>10, <2>3 DEF cell_release_owner
      <4>2. Goto(o, t, "zero") = [o EXCEPT !.at = [obj.at EXCEPT ![t] = "zero"]]
        <5> HIDE DEF o
        <5> QED BY <3>2 DEF Goto
      <4>3. [o EXCEPT !.at = [obj.at EXCEPT ![t] = "zero"]]
              = [obj EXCEPT !.refs = f, !.biased = obj.biased - 1, !.at = [obj.at EXCEPT ![t] = "zero"]]
        <5> HIDE DEF f, o
        <5> QED BY <3>1
      <4>4. o.biased = 0 <=> obj.biased = 1
        <5> HIDE DEF o
        <5>1. obj.biased \in Nat /\ o.biased = obj.biased - 1
          BY <1>2, <3>2 DEF Obj
        <5> QED BY <5>1
      <4> HIDE DEF f, o
      <4> QED BY <4>1, <4>2, <4>3, <4>4
    <3>4. /\ obj'.refs = f /\ obj'.biased = obj.biased - 1
          /\ UNCHANGED <<obj.shared, obj.merged, obj.owner, obj.ops>> /\ SameMemory
          /\ obj'.at = IF obj.biased = 1 THEN [obj.at EXCEPT ![t] = "zero"] ELSE obj.at
      <4> HIDE DEF f, o
      <4> QED BY <1>2, <3>2, <3>3 DEF Obj, SameMemory
    <3>5. OwnerReleases(t, d)
      BY <2>1, <2>3, <3>3, <3>4 DEF OwnerReleases, Loses
    <3> QED BY <1>1, <2>1, <3>5, OwnerReleasesKept
  <2> QED BY <2>2, <2>3
<1> QED BY <1>1, <1>4, <1>5, <1>6, <1>7, <1>8, <1>9, <1>10, LoadSharedKept, SetMergedKept, DoFreeKept, WeakRefKept,
           WeakReleaseKept, WeakDerefKept
    DEF Next

LEMMA StutterKept ==
  ASSUME RefsInv, UNCHANGED <<obj, spec>>
  PROVE  RefsInv'
BY DEF RefsInv, Fields, Paid, OwnersCount, Failures, Clean, Sane, Balanced, Disowned, Gone, FreedOnce, Reviving,
       References, AllHeld, Signed, Merged, NoCounts, Freeing, Releasing

(* The cell's first reference is its owner's. *)
LEMMA InitKept ==
  ASSUME CellConstants, Init
  PROVE  RefsInv
<1>1. Reviving = {} /\ Cardinality(Reviving) = 0
  BY FS_EmptySet DEF Reviving, Init
<1> DEFINE first == <<RefOwner, "biased", 1>>
<1>2. \A t \in RefThreads, d \in Domains :
        obj.refs[t][d] = IF t = RefOwner /\ d = "biased" THEN 1 ELSE 0
  BY DEF Init
<1>3. References(Domains) = {first} /\ References({"biased"}) = {first} /\ References({"shared", "moved"}) = {}
  BY <1>2 DEF References, Domains, CellConstants
<1>4. AllHeld = 1 /\ OfOwner = 1 /\ OfOthers = 0
  BY <1>3, FS_Singleton, FS_EmptySet DEF AllHeld, OfOwner, OfOthers
<1>5. Fields
  BY DEF Fields, Init, CellConstants, Places
<1>6. obj.biased = 1 /\ obj.shared = 0 /\ obj.ops = 0 /\ obj.weak = 0 /\ obj.frees = 0 /\ obj.owner = RefOwner
  BY DEF Init
<1>7. ~obj.merged /\ ~obj.dropped /\ \A t \in RefThreads : ~Freeing(t) /\ ~Releasing(t)
  BY DEF Init, Freeing, Releasing
<1>8. Signed = 0
  BY <1>6 DEF Signed, CellConstants
<1>9. Paid
  BY <1>1, <1>2, <1>6 DEF Paid
<1>10. OwnersCount
  BY <1>2, <1>4, <1>6 DEF OwnersCount, OfOwner, Domains, CellConstants
<1>11. Failures
  BY <1>6 DEF Failures, Init
<1>12. Balanced
  BY <1>1, <1>4, <1>6, <1>8 DEF Balanced, OfOthers
<1>13. Disowned /\ Gone
  BY <1>6, <1>7 DEF Disowned, Gone, Merged, NoCounts
<1>14. FreedOnce
  BY <1>6, <1>7 DEF FreedOnce
<1> QED BY <1>5, <1>9, <1>10, <1>11, <1>12, <1>13, <1>14 DEF RefsInv, Sane

LEMMA RefsImplies ==
  ASSUME CellConstants, RefsInv
  PROVE  RefsSound
<1>1. Clean => Sane
  BY DEF RefsInv
<1>2. Clean /\ obj.dropped => AllHeld = 0
  BY <1>1, CellFacts, SomeCounts DEF Sane, Gone, NoCounts, Balanced
<1>3. ASSUME Clean, Quiet, AllHeld = 0 PROVE obj.dropped \/ spec.left \/ spec.raced
  <2>1. \A t \in RefThreads : ~Releasing(t) /\ ~Freeing(t)
    BY <1>3 DEF Quiet, Idle, Releasing, Freeing
  <2> SUFFICES ASSUME ~spec.left, ~obj.dropped PROVE spec.raced
    OBVIOUS
  <2>2. obj.biased + Signed = 0 /\ Signed >= 0
    BY <1>1, <1>3, CellFacts, SomeCounts DEF Sane, Balanced, OfOthers
  <2>3. NoCounts
    BY <2>2, CellFacts DEF NoCounts
  <2> QED BY <1>1, <1>3, <2>1, <2>3 DEF Sane, Gone
<1>4. Clean => obj.frees <= 1 \/ spec.weak_raced
  BY <1>1 DEF Sane, FreedOnce
<1>5. Clean /\ obj.dropped /\ obj.weak = 0 => obj.frees > 0
  BY <1>1 DEF Sane, FreedOnce
<1> QED BY <1>2, <1>3, <1>4, <1>5 DEF RefsSound, RefsInv, Failures, Clean

(* The counts of every cell, in every behaviour: the children are dropped   *)
(* only when nobody has a reference left, unless the owner retained a       *)
(* merged cell or a weak reference was followed too late                    *)
(* (cell_release_owner, cell_release_shared, do_free).                      *)
THEOREM CellRefsInvariant ==
  ASSUME CellConstants
  PROVE  Init /\ [][Next]_<<obj, spec>> => [](RefsInv /\ RefsSound)
<1>1. RefsInv /\ [Next]_<<obj, spec>> => RefsInv'
  BY StepKept, StutterKept
<1> QED BY <1>1, InitKept, RefsImplies, PTL
=============================================================================
