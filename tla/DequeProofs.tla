----------------------------- MODULE DequeProofs -----------------------------
(***************************************************************************)
(* The deque of BWoSDeque returns no actor twice, and loses none while     *)
(* calls do not overlap, for every number of thieves, blocks, entries and  *)
(* pushes.                                                                 *)
(*                                                                         *)
(* An actor is in one place at most until it is returned: a live index of  *)
(* one block, or the hands of one thief (OnePlace).  Each step keeps the   *)
(* places, or moves or removes one (PlacesKept, PlaceMoved, PlaceTaken);   *)
(* the rest of the invariant says which indices are live, because the      *)
(* owner and the thieves never use a block at the same time.               *)
(*                                                                         *)
(* With one call under way at a time the places are also where a later     *)
(* call looks: the epochs from the thieves' to the owner's have different  *)
(* blocks (Window), the owner leaves no block with an entry it alone could *)
(* take (Emptied), and a thief moves on from none (Scanned).               *)
(***************************************************************************)
EXTENDS BWoSDeque, FiniteSetTheorems, TLAPS

Blocks == 0 .. B - 1
Indices == 0 .. NE - 1

-----------------------------------------------------------------------------
(* Types                                                                    *)

(* The calls in which actor `pushed` has no place yet.                      *)
Pushing == opc \in {"push", "publish", "close", "open", "reclaim", "drain", "reset", "reset_tail",
                    "reset_commits", "reset_steals"}

(* What keeps the indices in range.                                         *)
InRange ==
  /\ Pushing => pushed >= 1
  /\ opc = "publish" => tail[Mine] < NE
  /\ opc = "top" => tail[Mine] >= 1
  /\ opc \in {"last", "claim", "settle"} => oval < NE
  /\ opc \in {"takeover", "settle", "settled"} => owner_block >= 1
  /\ \A t \in Thieves : tpc[t] \in {"reserve", "read", "claim", "lift"} => loc[t].at < NE

-----------------------------------------------------------------------------
(* One call at a time                                                       *)

Active(t) == tpc[t] # "idle"

(* What the history variables mean: until two calls overlap, one actor of   *)
(* the system moves at a time, and a thief's view of the owner is current.  *)
Alone ==
  /\ overlap = "no" =>
       /\ early = "no"
       /\ opc # "idle" => \A t \in Thieves : ~Active(t)
       /\ \A t, u \in Thieves : Active(t) /\ Active(u) => t = u
       /\ \A t \in Thieves : tpc[t] \notin {"idle", "bound"} => loc[t].ob = owner_block
  /\ \A t \in Thieves : tpc[t] \in {"lift", "granted"} => fell = "yes"

-----------------------------------------------------------------------------
(* Cursors                                                                  *)

(* The thieves that have reserved an entry of block b and not reported it.  *)
Readers(b) == {t \in Thieves : tpc[t] \in {"read", "commit"} /\ Block(loc[t].epoch) = b}

(* A block open to the thieves, or still read by one, is closed to the      *)
(* owner.                                                                   *)
GrantedClosed ==
  \A b \in Blocks : steal_tail[b] # NE \/ Readers(b) # {} => head[b] = NE /\ tail[b] = NE

Resetting == opc \in {"reset", "reset_tail", "reset_commits", "reset_steals"}

(* The owner's block is not open to thieves.                                *)
MineClosed == opc \notin {"reclaim", "drain"} /\ ~Resetting => steal_tail[Mine] = NE

(* Reports and reservations not reported are no more than reservations.     *)
CommitsBounded ==
  \A b \in Blocks : Cardinality(Readers(b)) + steal_head[b] <= steal_tail[b]

(* A block the owner can use has no reports, but while it is reset or taken *)
(* back.                                                                    *)
NoCommits ==
  \A b \in Blocks :
    \/ head[b] = NE /\ tail[b] = NE
    \/ steal_head[b] = 0
    \/ b = Above /\ opc \in {"reset_tail", "reset_commits"}
    \/ b = Below /\ opc = "settled"

Cursors == GrantedClosed /\ MineClosed /\ CommitsBounded /\ NoCommits

(* What the owner has read, or stored, still holds.                         *)
OwnerKnows ==
  /\ opc = "publish" => entries[Mine][tail[Mine]] = pushed
  /\ opc = "close" => tail[Mine] = NE /\ head[Mine] = oval
  /\ opc = "open" => /\ head[Mine] = NE /\ tail[Mine] = NE
                     /\ oval < NE => Readers(Mine) = {} /\ steal_head[Mine] = 0
  /\ opc = "drain" => oval = NE
  /\ Resetting => steal_tail[Above] = NE
  /\ opc = "reset_tail" => head[Above] = 0
  /\ opc \in {"reset_commits", "reset_steals"} => head[Above] = 0 /\ tail[Above] = 0
  /\ opc = "top" => tail[Mine] > head[Mine] + 1
  /\ opc = "last" => tail[Mine] = oval + 1 /\ head[Mine] = oval
  /\ opc = "claim" => tail[Mine] = oval /\ head[Mine] = oval
  /\ opc = "won" => tail[Mine] = oval /\ head[Mine] = oval + 1
  /\ opc = "won_tail" => head[Mine] = 0
  /\ opc \notin {"lost", "lost_tail"}
  /\ opc = "settle" => /\ head[Below] = NE /\ tail[Below] = NE /\ steal_tail[Below] = NE
                       /\ Cardinality(Readers(Below)) + steal_head[Below] <= oval
  /\ opc = "settled" => steal_tail[Below] = NE /\ Readers(Below) = {}

-----------------------------------------------------------------------------
(* Places                                                                   *)

(* The indices of block b whose actors the owner can still take: those      *)
(* between head and tail, except while it moves one of the two.             *)
Held(b) ==
  CASE b = Mine /\ opc = "open" -> oval .. NE - 1
    [] b = Mine /\ opc = "claim" -> {oval}
    [] b = Mine /\ opc = "won_tail" -> {}
    [] b = Above /\ opc = "reset_tail" -> {}
    [] b = Below /\ opc = "settle" -> oval .. NE - 1
    [] OTHER -> head[b] .. tail[b] - 1

(* With those the thieves can take.                                         *)
Live(b) == Held(b) \cup (steal_tail[b] .. NE - 1)

(* Thief t has reserved an actor and not returned it.                       *)
Carries(t) == tpc[t] \in {"read", "commit", "advance", "return", "lift", "granted"}
Carried(t) ==
  CASE tpc[t] = "read" -> entries[Fresh(t)][loc[t].at]
    [] tpc[t] = "lift" -> entries[Theirs(t)][loc[t].at]
    [] OTHER -> loc[t].got

Placed == IF Pushing THEN pushed - 1 ELSE pushed
Untaken(i) == i \in 1 .. Placed /\ taken[i] = 0

(* An actor that can still be returned is in one place, and was not         *)
(* returned.                                                                *)
OnePlace ==
  /\ \A b, c \in Blocks : \A j \in Live(b), k \in Live(c) :
       entries[b][j] = entries[c][k] => b = c /\ j = k
  /\ \A t, u \in Thieves : Carries(t) /\ Carries(u) /\ Carried(t) = Carried(u) => t = u
  /\ \A b \in Blocks : \A j \in Live(b) : \A t \in Thieves : Carries(t) => entries[b][j] # Carried(t)
  /\ \A b \in Blocks : \A j \in Live(b) : Untaken(entries[b][j])
  /\ \A t \in Thieves : Carries(t) => Untaken(Carried(t))
  /\ \A i \in Items : taken[i] <= 1 /\ (i > Placed => taken[i] = 0)

(* The fallback's last look is current if one call is under way.            *)
LastLook ==
  overlap = "no" => \A t \in Thieves : tpc[t] = "claim" => loc[t].at < tail[Mine]

DequeInv ==
  /\ TypeOK /\ InRange /\ Alone
  /\ Undisturbed => Cursors /\ OwnerKnows /\ LastLook /\ OnePlace

-----------------------------------------------------------------------------
(* Blocks                                                                   *)

LEMMA BlockIsBlock ==
  ASSUME DequeConstants PROVE \A e \in Nat : Block(e) \in Blocks
  BY DEF DequeConstants, Block, Blocks

(* The blocks before and after one are others, as there are two at least.   *)
LEMMA NextBlockDiffers ==
  ASSUME DequeConstants PROVE \A e \in Nat : Block(e + 1) # Block(e)
<1> SUFFICES ASSUME NEW e \in Nat, (e + 1) % B = e % B PROVE FALSE
  BY DEF Block
<1> DEFINE a == e \div B
           c == (e + 1) \div B
           r == e % B
<1>1. a \in Nat /\ c \in Nat /\ r \in Int /\ e = (B * a) + r /\ e + 1 = (B * c) + r
  BY DEF DequeConstants
<1> HIDE DEF a, c, r
<1>2. B * (c - a) = 1
  BY <1>1 DEF DequeConstants
<1>3. CASE c - a <= 0
  BY <1>1, <1>2, <1>3 DEF DequeConstants
<1>4. CASE c - a >= 1
  BY <1>1, <1>2, <1>4 DEF DequeConstants
<1> QED BY <1>1, <1>3, <1>4

LEMMA OwnBlocks ==
  ASSUME DequeConstants, TypeOK, InRange
  PROVE  /\ Mine \in Blocks /\ Above \in Blocks /\ Above # Mine
         /\ opc \in {"takeover", "settle", "settled"} => Below \in Blocks /\ Below # Mine
<1>1. owner_block \in Nat /\ owner_block + 1 \in Nat
  BY DEF TypeOK
<1>2. /\ Mine \in Blocks /\ Above \in Blocks /\ Above # Mine
  BY <1>1, BlockIsBlock, NextBlockDiffers DEF Mine, Above
<1>3. ASSUME opc \in {"takeover", "settle", "settled"} PROVE Below \in Blocks /\ Below # Mine
  <2>1. owner_block - 1 \in Nat /\ owner_block = (owner_block - 1) + 1
    BY <1>1, <1>3 DEF InRange
  <2> QED BY <2>1, BlockIsBlock, NextBlockDiffers DEF Mine, Below
<1> QED BY <1>2, <1>3

LEMMA ThiefBlocks ==
  ASSUME DequeConstants, TypeOK, NEW t \in Thieves
  PROVE  Fresh(t) \in Blocks /\ Theirs(t) \in Blocks /\ loc[t] \in Locals
<1>1. loc[t] \in Locals
  BY DEF TypeOK
<1>2. loc[t].epoch \in Nat /\ loc[t].ob \in Nat
  BY <1>1 DEF Locals
<1> QED BY <1>1, <1>2, BlockIsBlock DEF Fresh, Theirs

-----------------------------------------------------------------------------
(* Every step keeps the types.                                              *)

LEMMA TypeInit == DequeConstants /\ Init => TypeOK /\ InRange
<1> SUFFICES ASSUME DequeConstants, Init PROVE TypeOK /\ InRange
  OBVIOUS
<1>1. Unset \in Locals
  BY DEF Unset, Locals, DequeConstants
<1>2. TypeOK
  BY <1>1 DEF Init, TypeOK, OwnerPC, ThiefPC, Sentinel, Items, DequeConstants
<1> QED BY <1>2 DEF Init, InRange, Pushing

(* The thieves do not move with the owner, and one of two calls under way   *)
(* at once is enough for the history variable.                              *)
LEMMA OwnerAlone ==
  ASSUME Alone, opc # "idle", UNCHANGED <<tpc, loc, fell, overlap>>, early' = early \/ \E t \in Thieves : Active(t)
  PROVE  Alone'
  BY DEF Alone, Active

LEMMA ReadersStay ==
  ASSUME UNCHANGED <<tpc, loc>> PROVE \A b \in Blocks : Readers(b)' = Readers(b)
  BY DEF Readers

(* History is not undone. *)
LEMMA WasUndisturbed ==
  ASSUME TypeOK, Undisturbed', fell' = fell \/ fell' = "yes", early' = early \/ early' = "yes",
         overlap' = overlap \/ overlap' = "yes"
  PROVE  Undisturbed
  BY DEF Undisturbed, TypeOK

-----------------------------------------------------------------------------
(* Places and steps                                                         *)

(* Every actor has still one place at most if no place is new and none      *)
(* holds another actor.                                                     *)
LEMMA PlacesKept ==
  ASSUME TypeOK, OnePlace, Placed' >= Placed, Placed \in Int, Placed' \in Int, taken' = taken,
         \A t \in Thieves : Carries(t)' => Carries(t) /\ Carried(t)' = Carried(t),
         \A b \in Blocks : \A j \in Live(b)' : j \in Live(b) /\ entries'[b][j] = entries[b][j]
  PROVE  OnePlace'
<1>1. \A i : Untaken(i) => Untaken(i)'
  BY DEF Untaken
<1>2. \A b, c \in Blocks : \A j \in Live(b)', k \in Live(c)' :
         entries'[b][j] = entries'[c][k] => b = c /\ j = k
  BY DEF OnePlace
<1>3. \A b \in Blocks : \A j \in Live(b)' :
        /\ Untaken(entries'[b][j])
        /\ \A t \in Thieves : Carries(t)' => entries'[b][j] # Carried(t)'
  BY DEF OnePlace
<1>4. \A t, u \in Thieves : Carries(t)' /\ Carries(u)' /\ Carried(t)' = Carried(u)' => t = u
  BY DEF OnePlace
<1>5. \A t \in Thieves : Carries(t)' => Untaken(Carried(t)')
  BY DEF OnePlace
<1>6. \A i \in Items : taken[i] <= 1 /\ (i > Placed' => taken[i] = 0)
  BY DEF OnePlace, Items
<1> QED
  BY <1>1, <1>2, <1>3, <1>4, <1>5, <1>6 DEF OnePlace

(* The owner only gives up places. *)
LEMMA FewerPlaces ==
  ASSUME TypeOK, OnePlace, Placed' >= Placed, Placed \in Int, Placed' \in Int,
         UNCHANGED <<entries, tpc, loc, taken>>,
         \A b \in Blocks : Live(b)' \subseteq Live(b)
  PROVE  OnePlace'
<1>1. \A t \in Thieves : Carries(t)' = Carries(t) /\ Carried(t)' = Carried(t)
  BY DEF Carries, Carried, Fresh, Theirs
<1> QED BY <1>1, PlacesKept

(* Numbers of actors and their counts. *)
LEMMA UntakenIsItem ==
  ASSUME DequeConstants, TypeOK, Placed \in Int
  PROVE  \A k : Untaken(k) => k \in Items
<1>1. Placed <= pushed /\ pushed \in 0 .. MaxPush
  BY DEF Placed, TypeOK
<1> QED BY <1>1 DEF Untaken, Items, DequeConstants

LEMMA CountsAreNumbers ==
  ASSUME TypeOK, NEW i PROVE [taken EXCEPT ![i] = @ + 1] \in [Items -> Nat]
<1>1. \A k \in Items : [taken EXCEPT ![i] = @ + 1][k] = IF k = i THEN taken[k] + 1 ELSE taken[k]
  BY DEF TypeOK
<1>2. \A k \in Items : [taken EXCEPT ![i] = @ + 1][k] \in Nat
  BY <1>1 DEF TypeOK
<1> QED BY <1>2 DEF TypeOK

(* An actor that had a place is returned, and has none then.                *)
LEMMA PlaceTaken ==
  ASSUME DequeConstants, TypeOK, OnePlace, Placed' = Placed, Placed \in Int, NEW i, Untaken(i),
         taken' = [taken EXCEPT ![i] = @ + 1], entries' = entries,
         \A t \in Thieves : Carries(t)' => Carries(t) /\ Carried(t)' = Carried(t) /\ Carried(t) # i,
         \A b \in Blocks : \A j \in Live(b)' : j \in Live(b) /\ entries[b][j] # i
  PROVE  OnePlace'
<1>0. \A k : Untaken(k) => k \in Items
  BY UntakenIsItem
<1>1. \A k : Untaken(k) /\ k # i => k \in Items /\ Untaken(k)'
  BY <1>0 DEF Untaken, TypeOK
<1>2. \A b, c \in Blocks : \A j \in Live(b)', k \in Live(c)' :
         entries[b][j] = entries[c][k] => b = c /\ j = k
  BY DEF OnePlace
<1>3. \A b \in Blocks : \A j \in Live(b)' :
        /\ Untaken(entries[b][j]) /\ entries[b][j] # i
        /\ \A t \in Thieves : Carries(t)' => entries[b][j] # Carried(t)'
  BY DEF OnePlace
<1>4. \A t, u \in Thieves : Carries(t)' /\ Carries(u)' /\ Carried(t)' = Carried(u)' => t = u
  BY DEF OnePlace
<1>5. \A t \in Thieves : Carries(t)' => Untaken(Carried(t)') /\ Carried(t)' # i
  BY DEF OnePlace
<1>6. \A k \in Items : taken'[k] <= 1 /\ (k > Placed => taken'[k] = 0)
  <2> TAKE k \in Items
  <2>1. taken[k] \in Nat /\ taken[k] <= 1 /\ (k > Placed => taken[k] = 0)
    BY DEF OnePlace, TypeOK
  <2>2. taken[i] = 0 /\ i <= Placed /\ taken'[i] = 1
    BY <1>0 DEF Untaken, TypeOK
  <2>3. k # i => taken'[k] = taken[k]
    BY DEF TypeOK
  <2> QED BY <2>1, <2>2, <2>3 DEF Items
<1> QED
  BY <1>1, <1>2, <1>3, <1>4, <1>5, <1>6 DEF OnePlace

(* A thief takes the actor of index j of block c.                           *)
LEMMA PlaceMoved ==
  ASSUME TypeOK, OnePlace, Placed' = Placed, UNCHANGED <<taken, entries>>,
         NEW u \in Thieves, NEW c \in Blocks, NEW j \in Live(c),
         ~Carries(u), Carried(u)' = entries[c][j], j \notin Live(c)',
         \A t \in Thieves \ {u} : Carries(t)' => Carries(t) /\ Carried(t)' = Carried(t),
         \A b \in Blocks : Live(b)' \subseteq Live(b)
  PROVE  OnePlace'
<1>1. \A i : Untaken(i)' = Untaken(i)
  BY DEF Untaken
<1>2. \A b, d \in Blocks : \A m \in Live(b)', k \in Live(d)' :
         entries[b][m] = entries[d][k] => b = d /\ m = k
  BY DEF OnePlace
<1>3. \A b \in Blocks : \A m \in Live(b)' :
        /\ Untaken(entries[b][m]) /\ entries[b][m] # entries[c][j]
        /\ \A t \in Thieves : Carries(t)' => entries[b][m] # Carried(t)'
  BY DEF OnePlace
<1>4. \A t \in Thieves \ {u} : Carries(t)' => Untaken(Carried(t)') /\ Carried(t)' # entries[c][j]
  BY DEF OnePlace
<1>5. Untaken(entries[c][j])
  BY DEF OnePlace
<1>6. \A t, v \in Thieves : Carries(t)' /\ Carries(v)' /\ Carried(t)' = Carried(v)' => t = v
  BY <1>4 DEF OnePlace
<1>7. \A i \in Items : taken[i] <= 1 /\ (i > Placed => taken[i] = 0)
  BY DEF OnePlace
<1> QED
  BY <1>1, <1>2, <1>3, <1>4, <1>5, <1>6, <1>7 DEF OnePlace

(* Readers can be counted, and the values of the cursors are numbers.       *)
LEMMA ReadersFinite ==
  ASSUME DequeConstants
  PROVE  \A b : /\ Cardinality(Readers(b)) \in Nat
                /\ Cardinality(Readers(b)) = 0 => Readers(b) = {}
<1> SUFFICES ASSUME NEW b PROVE /\ Cardinality(Readers(b)) \in Nat
                                /\ Cardinality(Readers(b)) = 0 => Readers(b) = {}
  OBVIOUS
<1>1. IsFiniteSet(Readers(b))
  BY FS_Subset DEF DequeConstants, Readers
<1> QED BY <1>1, FS_CardinalityType, FS_EmptySet

LEMMA Ranges ==
  ASSUME DequeConstants, TypeOK
  PROVE  \A b \in Blocks : /\ head[b] \in 0 .. NE /\ tail[b] \in 0 .. NE /\ steal_tail[b] \in 0 .. NE
                          /\ steal_head[b] \in Nat /\ Cardinality(Readers(b)) \in Nat
  BY ReadersFinite DEF TypeOK, Blocks

LEMMA ZeroAndEnd ==
  ASSUME DequeConstants PROVE 0 \in Nat /\ 0 \in 0 .. NE /\ NE \in 0 .. NE
  BY DEF DequeConstants

LEMMA EmptyRange == 0 .. 0 - 1 = {}
  OBVIOUS

(* A block that is reset without harm is not read.                          *)
LEMMA NobodyReads ==
  ASSUME Alone, opc # "idle", UNCHANGED <<tpc, fell, overlap>>, Undisturbed',
         early' = IF Reading(Above) THEN "yes" ELSE early
  PROVE  Readers(Above) = {}
  BY DEF Alone, Active, Undisturbed, Reading, Readers

-----------------------------------------------------------------------------
(* The owner's steps.  X keeps the invariant, for every action X.           *)

LEMMA PushKeeps ==
  ASSUME DequeConstants, DequeInv, Push
  PROVE  DequeInv'
<1>1. /\ opc = "idle" /\ opc' = "push"
      /\ pushed' = pushed + 1
      /\ overlap' = (IF \A t \in Thieves : tpc[t] = "idle" THEN overlap ELSE "yes") /\ pushed < MaxPush
      /\ UNCHANGED <<head, tail, steal_tail, steal_head, entries, owner_block, thief_block,
                     overflow, oval, tpc, loc, taken, fell, early>>
  BY DEF Push, Begins, Owner, blocks, cursors, thieves
<1>2. /\ Mine \in Blocks /\ Above \in Blocks /\ Above # Mine
      /\ Mine' = Mine /\ Above' = Above /\ Below' = Below
      /\ TypeOK /\ InRange /\ Alone
  BY <1>1, OwnBlocks DEF Mine, Above, Below, DequeInv
<1>3. TypeOK'
  BY <1>1, <1>2, SMTT(30) DEF TypeOK, OwnerPC, Blocks, DequeConstants
<1>4. InRange'
  BY <1>1, <1>2 DEF InRange, Pushing, TypeOK, Blocks
<1>5. Alone'
  BY <1>1, <1>2 DEF Alone, Active
<1> SUFFICES ASSUME Undisturbed' PROVE Cursors' /\ OwnerKnows' /\ LastLook' /\ OnePlace'
  BY <1>3, <1>4, <1>5 DEF DequeInv
<1>6. Cursors /\ OwnerKnows /\ LastLook /\ OnePlace
  BY <1>1, <1>2, WasUndisturbed DEF DequeInv
<1>7. \A b \in Blocks : Readers(b)' = Readers(b)
  BY <1>1, ReadersStay
<1>9. Cursors'
  BY <1>1, <1>2, <1>6, <1>7 DEF Cursors, GrantedClosed, MineClosed, CommitsBounded, NoCommits,
     Resetting, TypeOK, Blocks
<1>10. OwnerKnows'
  BY <1>1, <1>2, <1>6, <1>7, <1>9 DEF OwnerKnows, Resetting, Cursors, MineClosed, GrantedClosed, NoCommits,
     TypeOK, Blocks
<1>11. LastLook'
  BY <1>1, <1>2, <1>5, <1>6 DEF LastLook, Alone, Active
<1>12. \A b \in Blocks : Live(b)' \subseteq Live(b)
  BY <1>1, <1>2, <1>6 DEF Live, Held, TypeOK, Blocks
<1>13. Placed' >= Placed /\ Placed \in Int /\ Placed' \in Int
  BY <1>1, <1>2 DEF Placed, Pushing, TypeOK
<1> QED
  BY <1>1, <1>2, <1>6, <1>9, <1>10, <1>11, <1>12, <1>13, FewerPlaces

LEMMA PushOverflowKeeps ==
  ASSUME DequeConstants, DequeInv, PushOverflow
  PROVE  DequeInv'
<1>1. /\ opc = "push" /\ opc' = "idle"
      /\ overflow' = overflow \cup {pushed}
      /\ UNCHANGED <<head, tail, steal_tail, steal_head, entries, owner_block, thief_block, oval,
                     tpc, loc, pushed, taken, fell, early, overlap>>
  BY DEF PushOverflow, blocks, cursors, thieves, ghosts
<1>2. /\ Mine \in Blocks /\ Above \in Blocks /\ Above # Mine
      /\ Mine' = Mine /\ Above' = Above /\ Below' = Below
      /\ TypeOK /\ InRange /\ Alone
  BY <1>1, OwnBlocks DEF Mine, Above, Below, DequeInv
<1>3. TypeOK'
  <2>1. overflow' \subseteq Items
    BY <1>1, <1>2, ZeroAndEnd DEF TypeOK, Blocks, InRange, Pushing, Items
  <2> QED BY <1>1, <1>2, <2>1 DEF TypeOK, OwnerPC, Blocks
<1>4. InRange'
  BY <1>1, <1>2 DEF InRange, Pushing, TypeOK, Blocks
<1>5. Alone'
  BY <1>1, <1>2, OwnerAlone
<1> SUFFICES ASSUME Undisturbed' PROVE Cursors' /\ OwnerKnows' /\ LastLook' /\ OnePlace'
  BY <1>3, <1>4, <1>5 DEF DequeInv
<1>6. Cursors /\ OwnerKnows /\ LastLook /\ OnePlace
  BY <1>1, <1>2, WasUndisturbed DEF DequeInv
<1>7. \A b \in Blocks : Readers(b)' = Readers(b)
  BY <1>1, ReadersStay
<1>9. Cursors'
  BY <1>1, <1>2, <1>6, <1>7 DEF Cursors, GrantedClosed, MineClosed, CommitsBounded, NoCommits,
     Resetting, TypeOK, Blocks
<1>10. OwnerKnows'
  BY <1>1, <1>2, <1>6, <1>7, <1>9 DEF OwnerKnows, Resetting, Cursors, MineClosed, GrantedClosed, NoCommits,
     TypeOK, Blocks
<1>11. LastLook'
  BY <1>1, <1>2, <1>5, <1>6 DEF LastLook, Alone, Active
<1>12. \A b \in Blocks : Live(b)' \subseteq Live(b)
  BY <1>1, <1>2, <1>6 DEF Live, Held, TypeOK, Blocks
<1>13. Placed' >= Placed /\ Placed \in Int /\ Placed' \in Int
  BY <1>1, <1>2 DEF Placed, Pushing, TypeOK
<1> QED
  BY <1>1, <1>2, <1>6, <1>9, <1>10, <1>11, <1>12, <1>13, FewerPlaces

LEMMA GrantLoadKeeps ==
  ASSUME DequeConstants, DequeInv, GrantLoad
  PROVE  DequeInv'
<1>1. /\ opc = "push" /\ opc' = "close"
      /\ oval' = head[Mine]
      /\ tail[Mine] = NE
      /\ UNCHANGED <<head, tail, steal_tail, steal_head, entries, owner_block, thief_block,
                     overflow, tpc, loc, pushed, taken, fell, early, overlap>>
  BY DEF GrantLoad, OwnerReads, blocks, cursors, thieves, ghosts
<1>2. /\ Mine \in Blocks /\ Above \in Blocks /\ Above # Mine
      /\ Mine' = Mine /\ Above' = Above /\ Below' = Below
      /\ TypeOK /\ InRange /\ Alone
  BY <1>1, OwnBlocks DEF Mine, Above, Below, DequeInv
<1>3. TypeOK'
  BY <1>1, <1>2 DEF TypeOK, OwnerPC, Blocks
<1>4. InRange'
  BY <1>1, <1>2 DEF InRange, Pushing, TypeOK, Blocks
<1>5. Alone'
  BY <1>1, <1>2, OwnerAlone
<1> SUFFICES ASSUME Undisturbed' PROVE Cursors' /\ OwnerKnows' /\ LastLook' /\ OnePlace'
  BY <1>3, <1>4, <1>5 DEF DequeInv
<1>6. Cursors /\ OwnerKnows /\ LastLook /\ OnePlace
  BY <1>1, <1>2, WasUndisturbed DEF DequeInv
<1>7. \A b \in Blocks : Readers(b)' = Readers(b)
  BY <1>1, ReadersStay
<1>9. Cursors'
  BY <1>1, <1>2, <1>6, <1>7 DEF Cursors, GrantedClosed, MineClosed, CommitsBounded, NoCommits,
     Resetting, TypeOK, Blocks
<1>10. OwnerKnows'
  BY <1>1, <1>2, <1>6, <1>7, <1>9 DEF OwnerKnows, Resetting, Cursors, MineClosed, GrantedClosed, NoCommits,
     TypeOK, Blocks
<1>11. LastLook'
  BY <1>1, <1>2, <1>5, <1>6 DEF LastLook, Alone, Active
<1>12. \A b \in Blocks : Live(b)' \subseteq Live(b)
  BY <1>1, <1>2, <1>6 DEF Live, Held, TypeOK, Blocks
<1>13. Placed' >= Placed /\ Placed \in Int /\ Placed' \in Int
  BY <1>1, <1>2 DEF Placed, Pushing, TypeOK
<1> QED
  BY <1>1, <1>2, <1>6, <1>9, <1>10, <1>11, <1>12, <1>13, FewerPlaces

LEMMA GrantCloseKeeps ==
  ASSUME DequeConstants, DequeInv, GrantClose
  PROVE  DequeInv'
<1>1. /\ opc = "close" /\ opc' = "open"
      /\ head' = [head EXCEPT ![Mine] = tail[Mine]]
      /\ UNCHANGED <<tail, steal_tail, steal_head, entries, owner_block, thief_block, overflow,
                     oval, tpc, loc, pushed, taken, fell, early, overlap>>
  BY DEF GrantClose, StoreHead, Put, Owner, cursors, thieves, ghosts
<1>2. /\ Mine \in Blocks /\ Above \in Blocks /\ Above # Mine
      /\ Mine' = Mine /\ Above' = Above /\ Below' = Below
      /\ TypeOK /\ InRange /\ Alone
  BY <1>1, OwnBlocks DEF Mine, Above, Below, DequeInv
<1>3. TypeOK'
  <2>1. head' \in [Blocks -> 0 .. NE]
    BY <1>1, <1>2, ZeroAndEnd DEF TypeOK, Blocks
  <2> QED BY <1>1, <1>2, <2>1 DEF TypeOK, OwnerPC, Blocks
<1>4. InRange'
  BY <1>1, <1>2 DEF InRange, Pushing, TypeOK, Blocks
<1>5. Alone'
  BY <1>1, <1>2, OwnerAlone
<1> SUFFICES ASSUME Undisturbed' PROVE Cursors' /\ OwnerKnows' /\ LastLook' /\ OnePlace'
  BY <1>3, <1>4, <1>5 DEF DequeInv
<1>6. Cursors /\ OwnerKnows /\ LastLook /\ OnePlace
  BY <1>1, <1>2, WasUndisturbed DEF DequeInv
<1>7. \A b \in Blocks : Readers(b)' = Readers(b)
  BY <1>1, ReadersStay
<1>8. head[Mine] = oval /\ tail[Mine] = NE /\ steal_tail[Mine] = NE
  BY <1>1, <1>6 DEF OwnerKnows, Cursors, MineClosed, Resetting
<1>9. Cursors'
  BY <1>1, <1>2, <1>6, <1>7, <1>8 DEF Cursors, GrantedClosed, MineClosed, CommitsBounded, NoCommits,
     Resetting, TypeOK, Blocks
<1>10. OwnerKnows'
  BY <1>1, <1>2, <1>6, <1>7, <1>8, <1>9 DEF OwnerKnows, Resetting, Cursors, MineClosed, GrantedClosed, NoCommits,
     TypeOK, Blocks
<1>11. LastLook'
  BY <1>1, <1>2, <1>5, <1>6 DEF LastLook, Alone, Active
<1>12. \A b \in Blocks : Live(b)' \subseteq Live(b)
  BY <1>1, <1>2, <1>6, <1>8 DEF Live, Held, TypeOK, Blocks
<1>13. Placed' >= Placed /\ Placed \in Int /\ Placed' \in Int
  BY <1>1, <1>2 DEF Placed, Pushing, TypeOK
<1> QED
  BY <1>1, <1>2, <1>6, <1>9, <1>10, <1>11, <1>12, <1>13, FewerPlaces

LEMMA GrantOpenKeeps ==
  ASSUME DequeConstants, DequeInv, GrantOpen
  PROVE  DequeInv'
<1>1. /\ opc = "open" /\ opc' = "reclaim"
      /\ steal_tail' = [steal_tail EXCEPT ![Mine] = oval]
      /\ UNCHANGED <<head, tail, steal_head, entries, owner_block, thief_block, overflow, oval,
                     tpc, loc, pushed, taken, fell, early, overlap>>
  BY DEF GrantOpen, StoreStealTail, Put, Owner, cursors, thieves, ghosts
<1>2. /\ Mine \in Blocks /\ Above \in Blocks /\ Above # Mine
      /\ Mine' = Mine /\ Above' = Above /\ Below' = Below
      /\ TypeOK /\ InRange /\ Alone
  BY <1>1, OwnBlocks DEF Mine, Above, Below, DequeInv
<1>3. TypeOK'
  <2>1. steal_tail' \in [Blocks -> 0 .. NE]
    BY <1>1, <1>2, ZeroAndEnd DEF TypeOK, Blocks
  <2> QED BY <1>1, <1>2, <2>1 DEF TypeOK, OwnerPC, Blocks
<1>4. InRange'
  BY <1>1, <1>2 DEF InRange, Pushing, TypeOK, Blocks
<1>5. Alone'
  BY <1>1, <1>2, OwnerAlone
<1> SUFFICES ASSUME Undisturbed' PROVE Cursors' /\ OwnerKnows' /\ LastLook' /\ OnePlace'
  BY <1>3, <1>4, <1>5 DEF DequeInv
<1>6. Cursors /\ OwnerKnows /\ LastLook /\ OnePlace
  BY <1>1, <1>2, WasUndisturbed DEF DequeInv
<1>7. \A b \in Blocks : Readers(b)' = Readers(b)
  BY <1>1, ReadersStay
<1>8. /\ head[Mine] = NE /\ tail[Mine] = NE /\ steal_tail[Mine] = NE
      /\ oval < NE => Cardinality(Readers(Mine)) = 0 /\ steal_head[Mine] = 0
  BY <1>1, <1>6, FS_EmptySet DEF OwnerKnows, Cursors, MineClosed, Resetting
<1>9. Cursors'
  BY <1>1, <1>2, <1>6, <1>7, <1>8 DEF Cursors, GrantedClosed, MineClosed, CommitsBounded, NoCommits,
     Resetting, TypeOK, Blocks
<1>10. OwnerKnows'
  BY <1>1, <1>2, <1>6, <1>7, <1>8, <1>9 DEF OwnerKnows, Resetting, Cursors, MineClosed, GrantedClosed, NoCommits,
     TypeOK, Blocks
<1>11. LastLook'
  BY <1>1, <1>2, <1>5, <1>6 DEF LastLook, Alone, Active
<1>12. \A b \in Blocks : Live(b)' \subseteq Live(b)
  BY <1>1, <1>2, <1>6, <1>8 DEF Live, Held, TypeOK, Blocks
<1>13. Placed' >= Placed /\ Placed \in Int /\ Placed' \in Int
  BY <1>1, <1>2 DEF Placed, Pushing, TypeOK
<1> QED
  BY <1>1, <1>2, <1>6, <1>9, <1>10, <1>11, <1>12, <1>13, FewerPlaces

LEMMA ReclaimedKeeps ==
  ASSUME DequeConstants, DequeInv, Reclaim, opc' = "reset"
  PROVE  DequeInv'
<1>1. /\ opc \in {"reclaim", "drain"} /\ opc' = "reset"
      /\ opc = "reclaim" => steal_tail[Above] = NE
      /\ opc = "drain" => steal_head[Above] >= oval
      /\ UNCHANGED <<head, tail, steal_tail, steal_head, entries, owner_block, thief_block,
                     overflow, oval, tpc, loc, pushed, taken, fell, early, overlap>>
  BY DEF Reclaim, Sentinel, OwnerReads, blocks, cursors, thieves, ghosts
<1>2. /\ Mine \in Blocks /\ Above \in Blocks /\ Above # Mine
      /\ Mine' = Mine /\ Above' = Above /\ Below' = Below
      /\ TypeOK /\ InRange /\ Alone
  BY <1>1, OwnBlocks DEF Mine, Above, Below, DequeInv
<1>3. TypeOK'
  BY <1>1, <1>2 DEF TypeOK, OwnerPC, Blocks
<1>4. InRange'
  BY <1>1, <1>2 DEF InRange, Pushing, TypeOK, Blocks
<1>5. Alone'
  BY <1>1, <1>2, OwnerAlone
<1> SUFFICES ASSUME Undisturbed' PROVE Cursors' /\ OwnerKnows' /\ LastLook' /\ OnePlace'
  BY <1>3, <1>4, <1>5 DEF DequeInv
<1>6. Cursors /\ OwnerKnows /\ LastLook /\ OnePlace
  BY <1>1, <1>2, WasUndisturbed DEF DequeInv
<1>7. \A b \in Blocks : Readers(b)' = Readers(b)
  BY <1>1, ReadersStay
<1>8. steal_tail[Above] = NE
  <2>1. CASE opc = "reclaim"
    BY <1>1, <2>1
  <2>2. CASE opc = "drain"
    <3>1. oval = NE /\ Cardinality(Readers(Above)) + steal_head[Above] <= steal_tail[Above]
      BY <1>2, <1>6, <2>2 DEF OwnerKnows, Cursors, CommitsBounded
    <3> QED BY <1>1, <1>2, <2>2, <3>1, Ranges DEF DequeConstants
  <2> QED BY <1>1, <2>1, <2>2
<1>9. Cursors'
  BY <1>1, <1>2, <1>6, <1>7, <1>8 DEF Cursors, GrantedClosed, MineClosed, CommitsBounded, NoCommits,
     Resetting, TypeOK, Blocks
<1>10. OwnerKnows'
  BY <1>1, <1>2, <1>6, <1>7, <1>8, <1>9 DEF OwnerKnows, Resetting, Cursors, MineClosed, GrantedClosed, NoCommits,
     TypeOK, Blocks
<1>11. LastLook'
  BY <1>1, <1>2, <1>5, <1>6 DEF LastLook, Alone, Active
<1>12. \A b \in Blocks : Live(b)' \subseteq Live(b)
  BY <1>1, <1>2, <1>6, <1>8 DEF Live, Held, TypeOK, Blocks
<1>13. Placed' >= Placed /\ Placed \in Int /\ Placed' \in Int
  BY <1>1, <1>2 DEF Placed, Pushing, TypeOK
<1> QED
  BY <1>1, <1>2, <1>6, <1>9, <1>10, <1>11, <1>12, <1>13, FewerPlaces

LEMMA DrainKeeps ==
  ASSUME DequeConstants, DequeInv, Reclaim, opc' = "drain"
  PROVE  DequeInv'
<1>1. /\ opc = "reclaim" /\ opc' = "drain"
      /\ oval' = tail[Above]
      /\ steal_tail[Above] # NE
      /\ UNCHANGED <<head, tail, steal_tail, steal_head, entries, owner_block, thief_block,
                     overflow, tpc, loc, pushed, taken, fell, early, overlap>>
  BY DEF Reclaim, Sentinel, OwnerReads, blocks, cursors, thieves, ghosts
<1>2. /\ Mine \in Blocks /\ Above \in Blocks /\ Above # Mine
      /\ Mine' = Mine /\ Above' = Above /\ Below' = Below
      /\ TypeOK /\ InRange /\ Alone
  BY <1>1, OwnBlocks DEF Mine, Above, Below, DequeInv
<1>3. TypeOK'
  BY <1>1, <1>2 DEF TypeOK, OwnerPC, Blocks
<1>4. InRange'
  BY <1>1, <1>2 DEF InRange, Pushing, TypeOK, Blocks
<1>5. Alone'
  BY <1>1, <1>2, OwnerAlone
<1> SUFFICES ASSUME Undisturbed' PROVE Cursors' /\ OwnerKnows' /\ LastLook' /\ OnePlace'
  BY <1>3, <1>4, <1>5 DEF DequeInv
<1>6. Cursors /\ OwnerKnows /\ LastLook /\ OnePlace
  BY <1>1, <1>2, WasUndisturbed DEF DequeInv
<1>7. \A b \in Blocks : Readers(b)' = Readers(b)
  BY <1>1, ReadersStay
<1>8. tail[Above] = NE
  BY <1>1, <1>2, <1>6 DEF Cursors, GrantedClosed
<1>9. Cursors'
  BY <1>1, <1>2, <1>6, <1>7, <1>8 DEF Cursors, GrantedClosed, MineClosed, CommitsBounded, NoCommits,
     Resetting, TypeOK, Blocks
<1>10. OwnerKnows'
  BY <1>1, <1>2, <1>6, <1>7, <1>8, <1>9 DEF OwnerKnows, Resetting, Cursors, MineClosed, GrantedClosed, NoCommits,
     TypeOK, Blocks
<1>11. LastLook'
  BY <1>1, <1>2, <1>5, <1>6 DEF LastLook, Alone, Active
<1>12. \A b \in Blocks : Live(b)' \subseteq Live(b)
  BY <1>1, <1>2, <1>6, <1>8 DEF Live, Held, TypeOK, Blocks
<1>13. Placed' >= Placed /\ Placed \in Int /\ Placed' \in Int
  BY <1>1, <1>2 DEF Placed, Pushing, TypeOK
<1> QED
  BY <1>1, <1>2, <1>6, <1>9, <1>10, <1>11, <1>12, <1>13, FewerPlaces

LEMMA Reset1Keeps ==
  ASSUME DequeConstants, DequeInv, Reset, opc = "reset"
  PROVE  DequeInv'
<1>1. /\ opc = "reset" /\ opc' = "reset_tail"
      /\ head' = [head EXCEPT ![Above] = 0]
      /\ early' = (IF Reading(Above) THEN "yes" ELSE early)
      /\ UNCHANGED <<tail, steal_tail, steal_head, entries, owner_block, thief_block, overflow,
                     oval, tpc, loc, pushed, taken, fell, overlap>>
  BY DEF Reset, StoreHead, Put, Owner, cursors, thieves, ghosts
<1>2. /\ Mine \in Blocks /\ Above \in Blocks /\ Above # Mine
      /\ Mine' = Mine /\ Above' = Above /\ Below' = Below
      /\ TypeOK /\ InRange /\ Alone
  BY <1>1, OwnBlocks DEF Mine, Above, Below, DequeInv
<1>3. TypeOK'
  <2>1. head' \in [Blocks -> 0 .. NE]
    BY <1>1, <1>2, ZeroAndEnd DEF TypeOK, Blocks
  <2> QED BY <1>1, <1>2, <2>1 DEF TypeOK, OwnerPC, Blocks
<1>4. InRange'
  BY <1>1, <1>2 DEF InRange, Pushing, TypeOK, Blocks
<1>5. Alone'
  BY <1>1, <1>2, OwnerAlone DEF Reading, Active
<1> SUFFICES ASSUME Undisturbed' PROVE Cursors' /\ OwnerKnows' /\ LastLook' /\ OnePlace'
  BY <1>3, <1>4, <1>5 DEF DequeInv
<1>6. Cursors /\ OwnerKnows /\ LastLook /\ OnePlace
  BY <1>1, <1>2, WasUndisturbed DEF DequeInv
<1>7. \A b \in Blocks : Readers(b)' = Readers(b)
  BY <1>1, ReadersStay
<1>8. Readers(Above) = {} /\ steal_tail[Above] = NE
  BY <1>1, <1>2, <1>5, <1>6, NobodyReads DEF OwnerKnows, Resetting
<1>9. Cursors'
  BY <1>1, <1>2, <1>6, <1>7, <1>8 DEF Cursors, GrantedClosed, MineClosed, CommitsBounded, NoCommits,
     Resetting, TypeOK, Blocks
<1>10. OwnerKnows'
  BY <1>1, <1>2, <1>6, <1>7, <1>8, <1>9 DEF OwnerKnows, Resetting, Cursors, MineClosed, GrantedClosed, NoCommits,
     TypeOK, Blocks
<1>11. LastLook'
  BY <1>1, <1>2, <1>5, <1>6 DEF LastLook, Alone, Active
<1>12. \A b \in Blocks : Live(b)' \subseteq Live(b)
  BY <1>1, <1>2, <1>6, <1>8 DEF Live, Held, TypeOK, Blocks
<1>13. Placed' >= Placed /\ Placed \in Int /\ Placed' \in Int
  BY <1>1, <1>2 DEF Placed, Pushing, TypeOK
<1> QED
  BY <1>1, <1>2, <1>6, <1>9, <1>10, <1>11, <1>12, <1>13, FewerPlaces

LEMMA Reset2Keeps ==
  ASSUME DequeConstants, DequeInv, Reset, opc = "reset_tail"
  PROVE  DequeInv'
<1>1. /\ opc = "reset_tail" /\ opc' = "reset_commits"
      /\ tail' = [tail EXCEPT ![Above] = 0]
      /\ early' = (IF Reading(Above) THEN "yes" ELSE early)
      /\ UNCHANGED <<head, steal_tail, steal_head, entries, owner_block, thief_block, overflow,
                     oval, tpc, loc, pushed, taken, fell, overlap>>
  BY DEF Reset, StoreTail, Put, Owner, cursors, thieves, ghosts
<1>2. /\ Mine \in Blocks /\ Above \in Blocks /\ Above # Mine
      /\ Mine' = Mine /\ Above' = Above /\ Below' = Below
      /\ TypeOK /\ InRange /\ Alone
  BY <1>1, OwnBlocks DEF Mine, Above, Below, DequeInv
<1>3. TypeOK'
  <2>1. tail' \in [Blocks -> 0 .. NE]
    BY <1>1, <1>2, ZeroAndEnd DEF TypeOK, Blocks
  <2> QED BY <1>1, <1>2, <2>1 DEF TypeOK, OwnerPC, Blocks
<1>4. InRange'
  BY <1>1, <1>2 DEF InRange, Pushing, TypeOK, Blocks
<1>5. Alone'
  BY <1>1, <1>2, OwnerAlone DEF Reading, Active
<1> SUFFICES ASSUME Undisturbed' PROVE Cursors' /\ OwnerKnows' /\ LastLook' /\ OnePlace'
  BY <1>3, <1>4, <1>5 DEF DequeInv
<1>6. Cursors /\ OwnerKnows /\ LastLook /\ OnePlace
  BY <1>1, <1>2, WasUndisturbed DEF DequeInv
<1>7. \A b \in Blocks : Readers(b)' = Readers(b)
  BY <1>1, ReadersStay
<1>8. Readers(Above) = {} /\ steal_tail[Above] = NE /\ head[Above] = 0
  BY <1>1, <1>2, <1>5, <1>6, NobodyReads DEF OwnerKnows, Resetting
<1>9. Cursors'
  BY <1>1, <1>2, <1>6, <1>7, <1>8 DEF Cursors, GrantedClosed, MineClosed, CommitsBounded, NoCommits,
     Resetting, TypeOK, Blocks
<1>10. OwnerKnows'
  BY <1>1, <1>2, <1>6, <1>7, <1>8, <1>9 DEF OwnerKnows, Resetting, Cursors, MineClosed, GrantedClosed, NoCommits,
     TypeOK, Blocks
<1>11. LastLook'
  BY <1>1, <1>2, <1>5, <1>6 DEF LastLook, Alone, Active
<1>12. \A b \in Blocks : Live(b)' \subseteq Live(b)
  <2>1. \A b \in Blocks : b # Above => Live(b)' = Live(b)
    BY <1>1, <1>2, <1>8 DEF Live, Held, TypeOK, Blocks
  <2>2. Held(Above)' = {} /\ steal_tail'[Above] = steal_tail[Above]
    BY <1>1, <1>2, <1>8, EmptyRange DEF Held, TypeOK, Blocks
  <2> QED BY <1>2, <2>1, <2>2 DEF Live
<1>13. Placed' >= Placed /\ Placed \in Int /\ Placed' \in Int
  BY <1>1, <1>2 DEF Placed, Pushing, TypeOK
<1> QED
  BY <1>1, <1>2, <1>6, <1>9, <1>10, <1>11, <1>12, <1>13, FewerPlaces

LEMMA Reset3Keeps ==
  ASSUME DequeConstants, DequeInv, Reset, opc = "reset_commits"
  PROVE  DequeInv'
<1>1. /\ opc = "reset_commits" /\ opc' = "reset_steals"
      /\ steal_head' = [steal_head EXCEPT ![Above] = 0]
      /\ early' = (IF Reading(Above) THEN "yes" ELSE early)
      /\ UNCHANGED <<head, tail, steal_tail, entries, owner_block, thief_block, overflow, oval,
                     tpc, loc, pushed, taken, fell, overlap>>
  BY DEF Reset, StoreStealHead, Put, Owner, cursors, thieves, ghosts
<1>2. /\ Mine \in Blocks /\ Above \in Blocks /\ Above # Mine
      /\ Mine' = Mine /\ Above' = Above /\ Below' = Below
      /\ TypeOK /\ InRange /\ Alone
  BY <1>1, OwnBlocks DEF Mine, Above, Below, DequeInv
<1>3. TypeOK'
  <2>1. steal_head' \in [Blocks -> Nat]
    BY <1>1, <1>2, ZeroAndEnd DEF TypeOK, Blocks
  <2> QED BY <1>1, <1>2, <2>1 DEF TypeOK, OwnerPC, Blocks
<1>4. InRange'
  BY <1>1, <1>2 DEF InRange, Pushing, TypeOK, Blocks
<1>5. Alone'
  BY <1>1, <1>2, OwnerAlone DEF Reading, Active
<1> SUFFICES ASSUME Undisturbed' PROVE Cursors' /\ OwnerKnows' /\ LastLook' /\ OnePlace'
  BY <1>3, <1>4, <1>5 DEF DequeInv
<1>6. Cursors /\ OwnerKnows /\ LastLook /\ OnePlace
  BY <1>1, <1>2, WasUndisturbed DEF DequeInv
<1>7. \A b \in Blocks : Readers(b)' = Readers(b)
  BY <1>1, ReadersStay
<1>8. Readers(Above) = {} /\ steal_tail[Above] = NE /\ head[Above] = 0 /\ tail[Above] = 0
  BY <1>1, <1>2, <1>5, <1>6, NobodyReads DEF OwnerKnows, Resetting
<1>9. Cursors'
  <2>1. GrantedClosed'
    BY <1>1, <1>2, <1>6, <1>7, <1>8 DEF Cursors, GrantedClosed, TypeOK, Blocks
  <2>2. MineClosed'
    BY <1>1, <1>2, <1>6, <1>7, <1>8 DEF Cursors, MineClosed, Resetting, TypeOK, Blocks
  <2>3. CommitsBounded'
    <3> SUFFICES ASSUME NEW b \in Blocks
                 PROVE  Cardinality(Readers(b)) + steal_head'[b] <= steal_tail'[b]
      BY <1>7 DEF CommitsBounded
    <3>1. Cardinality(Readers(b)) + steal_head[b] <= steal_tail[b]
      BY <1>6 DEF Cursors, CommitsBounded
    <3>2. Cardinality(Readers(b)) \in Nat /\ steal_head[b] \in Nat /\ steal_tail[b] \in 0 .. NE
      BY <1>2, Ranges
    <3>3. steal_head'[b] \in {0, steal_head[b]} /\ steal_tail'[b] \in {NE, steal_tail[b]}
      BY <1>1, <1>2 DEF TypeOK, Blocks
    <3> QED BY <3>1, <3>2, <3>3 DEF DequeConstants
  <2>4. NoCommits'
    BY <1>1, <1>2, <1>6, <1>7, <1>8 DEF Cursors, NoCommits, TypeOK, Blocks
  <2> QED BY <2>1, <2>2, <2>3, <2>4 DEF Cursors
<1>10. OwnerKnows'
  BY <1>1, <1>2, <1>6, <1>7, <1>8, <1>9 DEF OwnerKnows, Resetting, Cursors, MineClosed, GrantedClosed, NoCommits,
     TypeOK, Blocks
<1>11. LastLook'
  BY <1>1, <1>2, <1>5, <1>6 DEF LastLook, Alone, Active
<1>12. \A b \in Blocks : Live(b)' \subseteq Live(b)
  BY <1>1, <1>2, <1>6, <1>8 DEF Live, Held, TypeOK, Blocks
<1>13. Placed' >= Placed /\ Placed \in Int /\ Placed' \in Int
  BY <1>1, <1>2 DEF Placed, Pushing, TypeOK
<1> QED
  BY <1>1, <1>2, <1>6, <1>9, <1>10, <1>11, <1>12, <1>13, FewerPlaces

LEMMA Reset4Keeps ==
  ASSUME DequeConstants, DequeInv, Reset, opc = "reset_steals"
  PROVE  DequeInv'
<1>1. /\ opc = "reset_steals" /\ opc' = "push"
      /\ steal_tail' = [steal_tail EXCEPT ![Above] = NE]
      /\ owner_block' = owner_block + 1
      /\ early' = (IF Reading(Above) THEN "yes" ELSE early)
      /\ UNCHANGED <<head, tail, steal_head, entries, thief_block, overflow, oval, tpc, loc,
                     pushed, taken, fell, overlap>>
  BY DEF Reset, Sentinel, StoreStealTail, Put, Owner, cursors, thieves, ghosts
<1>2. /\ Mine \in Blocks /\ Above \in Blocks /\ Above # Mine
      /\ Mine' = Above
      /\ TypeOK /\ InRange /\ Alone
  BY <1>1, OwnBlocks DEF Mine, Above, Below, DequeInv
<1>3. TypeOK'
  <2>1. steal_tail' \in [Blocks -> 0 .. NE]
    BY <1>1, <1>2, ZeroAndEnd DEF TypeOK, Blocks
  <2> QED BY <1>1, <1>2, <2>1 DEF TypeOK, OwnerPC, Blocks
<1>4. InRange'
  BY <1>1, <1>2 DEF InRange, Pushing, TypeOK, Blocks
<1>5. Alone'
  BY <1>1, <1>2, OwnerAlone DEF Reading, Active
<1> SUFFICES ASSUME Undisturbed' PROVE Cursors' /\ OwnerKnows' /\ LastLook' /\ OnePlace'
  BY <1>3, <1>4, <1>5 DEF DequeInv
<1>6. Cursors /\ OwnerKnows /\ LastLook /\ OnePlace
  BY <1>1, <1>2, WasUndisturbed DEF DequeInv
<1>7. \A b \in Blocks : Readers(b)' = Readers(b)
  BY <1>1, ReadersStay
<1>8. Readers(Above) = {} /\ steal_tail[Above] = NE /\ head[Above] = 0 /\ tail[Above] = 0
  BY <1>1, <1>2, <1>5, <1>6, NobodyReads DEF OwnerKnows, Resetting
<1>9. Cursors'
  BY <1>1, <1>2, <1>6, <1>7, <1>8 DEF Cursors, GrantedClosed, MineClosed, CommitsBounded, NoCommits,
     Resetting, TypeOK, Blocks
<1>10. OwnerKnows'
  BY <1>1, <1>2, <1>6, <1>7, <1>8, <1>9 DEF OwnerKnows, Resetting, Cursors, MineClosed, GrantedClosed, NoCommits,
     TypeOK, Blocks
<1>11. LastLook'
  BY <1>1, <1>2, <1>5, <1>6 DEF LastLook, Alone, Active
<1>12. \A b \in Blocks : Live(b)' \subseteq Live(b)
  BY <1>1, <1>2, <1>6, <1>8 DEF Live, Held, TypeOK, Blocks
<1>13. Placed' >= Placed /\ Placed \in Int /\ Placed' \in Int
  BY <1>1, <1>2 DEF Placed, Pushing, TypeOK
<1> QED
  BY <1>1, <1>2, <1>6, <1>9, <1>10, <1>11, <1>12, <1>13, FewerPlaces

LEMMA PopKeeps ==
  ASSUME DequeConstants, DequeInv, Pop
  PROVE  DequeInv'
<1>1. /\ opc = "idle" /\ opc' = "pop"
      /\ overlap' = (IF \A t \in Thieves : tpc[t] = "idle" THEN overlap ELSE "yes")
      /\ UNCHANGED <<head, tail, steal_tail, steal_head, entries, owner_block, thief_block,
                     overflow, oval, tpc, loc, pushed, taken, fell, early>>
  BY DEF Pop, Begins, Owner, blocks, cursors, thieves
<1>2. /\ Mine \in Blocks /\ Above \in Blocks /\ Above # Mine
      /\ Mine' = Mine /\ Above' = Above /\ Below' = Below
      /\ TypeOK /\ InRange /\ Alone
  BY <1>1, OwnBlocks DEF Mine, Above, Below, DequeInv
<1>3. TypeOK'
  BY <1>1, <1>2 DEF TypeOK, OwnerPC, Blocks
<1>4. InRange'
  BY <1>1, <1>2 DEF InRange, Pushing, TypeOK, Blocks
<1>5. Alone'
  BY <1>1, <1>2 DEF Alone, Active
<1> SUFFICES ASSUME Undisturbed' PROVE Cursors' /\ OwnerKnows' /\ LastLook' /\ OnePlace'
  BY <1>3, <1>4, <1>5 DEF DequeInv
<1>6. Cursors /\ OwnerKnows /\ LastLook /\ OnePlace
  BY <1>1, <1>2, WasUndisturbed DEF DequeInv
<1>7. \A b \in Blocks : Readers(b)' = Readers(b)
  BY <1>1, ReadersStay
<1>9. Cursors'
  BY <1>1, <1>2, <1>6, <1>7 DEF Cursors, GrantedClosed, MineClosed, CommitsBounded, NoCommits,
     Resetting, TypeOK, Blocks
<1>10. OwnerKnows'
  BY <1>1, <1>2, <1>6, <1>7, <1>9 DEF OwnerKnows, Resetting, Cursors, MineClosed, GrantedClosed, NoCommits,
     TypeOK, Blocks
<1>11. LastLook'
  BY <1>1, <1>2, <1>5, <1>6 DEF LastLook, Alone, Active
<1>12. \A b \in Blocks : Live(b)' \subseteq Live(b)
  BY <1>1, <1>2, <1>6 DEF Live, Held, TypeOK, Blocks
<1>13. Placed' >= Placed /\ Placed \in Int /\ Placed' \in Int
  BY <1>1, <1>2 DEF Placed, Pushing, TypeOK
<1> QED
  BY <1>1, <1>2, <1>6, <1>9, <1>10, <1>11, <1>12, <1>13, FewerPlaces

LEMMA PopLookKeeps ==
  ASSUME DequeConstants, DequeInv, PopLook
  PROVE  DequeInv'
<1>1. /\ opc = "pop" /\ opc' = (CASE tail[Mine] > head[Mine] + 1 -> "top"
                        [] tail[Mine] = head[Mine] + 1 -> "last"
                        [] OTHER -> "retreat")
      /\ oval' = head[Mine]
      /\ UNCHANGED <<head, tail, steal_tail, steal_head, entries, owner_block, thief_block,
                     overflow, tpc, loc, pushed, taken, fell, early, overlap>>
  BY DEF PopLook, OwnerReads, blocks, cursors, thieves, ghosts
<1>2. /\ Mine \in Blocks /\ Above \in Blocks /\ Above # Mine
      /\ Mine' = Mine /\ Above' = Above /\ Below' = Below
      /\ TypeOK /\ InRange /\ Alone
  BY <1>1, OwnBlocks DEF Mine, Above, Below, DequeInv
<1>3. TypeOK'
  BY <1>1, <1>2 DEF TypeOK, OwnerPC, Blocks
<1>4. InRange'
  <2>1. head[Mine] \in 0 .. NE /\ tail[Mine] \in 0 .. NE
    BY <1>2, Ranges
  <2> QED BY <1>1, <1>2, <2>1 DEF InRange, Pushing, DequeConstants
<1>5. Alone'
  BY <1>1, <1>2, OwnerAlone
<1> SUFFICES ASSUME Undisturbed' PROVE Cursors' /\ OwnerKnows' /\ LastLook' /\ OnePlace'
  BY <1>3, <1>4, <1>5 DEF DequeInv
<1>6. Cursors /\ OwnerKnows /\ LastLook /\ OnePlace
  BY <1>1, <1>2, WasUndisturbed DEF DequeInv
<1>7. \A b \in Blocks : Readers(b)' = Readers(b)
  BY <1>1, ReadersStay
<1>9. Cursors'
  BY <1>1, <1>2, <1>6, <1>7 DEF Cursors, GrantedClosed, MineClosed, CommitsBounded, NoCommits,
     Resetting, TypeOK, Blocks
<1>10. OwnerKnows'
  BY <1>1, <1>2, <1>6, <1>7, <1>9 DEF OwnerKnows, Resetting, Cursors, MineClosed, GrantedClosed, NoCommits,
     TypeOK, Blocks
<1>11. LastLook'
  BY <1>1, <1>2, <1>5, <1>6 DEF LastLook, Alone, Active
<1>12. \A b \in Blocks : Live(b)' \subseteq Live(b)
  BY <1>1, <1>2, <1>6 DEF Live, Held, TypeOK, Blocks
<1>13. Placed' >= Placed /\ Placed \in Int /\ Placed' \in Int
  BY <1>1, <1>2 DEF Placed, Pushing, TypeOK
<1> QED
  BY <1>1, <1>2, <1>6, <1>9, <1>10, <1>11, <1>12, <1>13, FewerPlaces

LEMMA PopLastKeeps ==
  ASSUME DequeConstants, DequeInv, PopLast
  PROVE  DequeInv'
<1>1. /\ opc = "last" /\ opc' = "claim"
      /\ tail' = [tail EXCEPT ![Mine] = oval]
      /\ UNCHANGED <<head, steal_tail, steal_head, entries, owner_block, thief_block, overflow,
                     oval, tpc, loc, pushed, taken, fell, early, overlap>>
  BY DEF PopLast, StoreTail, Put, Owner, cursors, thieves, ghosts
<1>2. /\ Mine \in Blocks /\ Above \in Blocks /\ Above # Mine
      /\ Mine' = Mine /\ Above' = Above /\ Below' = Below
      /\ TypeOK /\ InRange /\ Alone
  BY <1>1, OwnBlocks DEF Mine, Above, Below, DequeInv
<1>3. TypeOK'
  <2>1. tail' \in [Blocks -> 0 .. NE]
    BY <1>1, <1>2, ZeroAndEnd DEF TypeOK, Blocks
  <2> QED BY <1>1, <1>2, <2>1 DEF TypeOK, OwnerPC, Blocks
<1>4. InRange'
  BY <1>1, <1>2 DEF InRange, Pushing, TypeOK, Blocks
<1>5. Alone'
  BY <1>1, <1>2, OwnerAlone
<1> SUFFICES ASSUME Undisturbed' PROVE Cursors' /\ OwnerKnows' /\ LastLook' /\ OnePlace'
  BY <1>3, <1>4, <1>5 DEF DequeInv
<1>6. Cursors /\ OwnerKnows /\ LastLook /\ OnePlace
  BY <1>1, <1>2, WasUndisturbed DEF DequeInv
<1>7. \A b \in Blocks : Readers(b)' = Readers(b)
  BY <1>1, ReadersStay
<1>8. /\ tail[Mine] = oval + 1 /\ head[Mine] = oval /\ oval < NE
      /\ steal_tail[Mine] = NE
  BY <1>1, <1>2, <1>6 DEF OwnerKnows, Cursors, MineClosed, Resetting, InRange
<1>9. Cursors'
  BY <1>1, <1>2, <1>6, <1>7, <1>8 DEF Cursors, GrantedClosed, MineClosed, CommitsBounded, NoCommits,
     Resetting, TypeOK, Blocks
<1>10. OwnerKnows'
  BY <1>1, <1>2, <1>6, <1>7, <1>8, <1>9 DEF OwnerKnows, Resetting, Cursors, MineClosed, GrantedClosed, NoCommits,
     TypeOK, Blocks
<1>11. LastLook'
  BY <1>1, <1>2, <1>5, <1>6 DEF LastLook, Alone, Active
<1>12. \A b \in Blocks : Live(b)' \subseteq Live(b)
  BY <1>1, <1>2, <1>6, <1>8, SMTT(30) DEF Live, Held, TypeOK, Blocks
<1>13. Placed' >= Placed /\ Placed \in Int /\ Placed' \in Int
  BY <1>1, <1>2 DEF Placed, Pushing, TypeOK
<1> QED
  BY <1>1, <1>2, <1>6, <1>9, <1>10, <1>11, <1>12, <1>13, FewerPlaces

LEMMA PopResetHeadKeeps ==
  ASSUME DequeConstants, DequeInv, PopResetHead
  PROVE  DequeInv'
<1>1. /\ opc \in {"won", "lost"} /\ opc' = (IF opc = "won" THEN "won_tail" ELSE "lost_tail")
      /\ head' = [head EXCEPT ![Mine] = 0]
      /\ UNCHANGED <<tail, steal_tail, steal_head, entries, owner_block, thief_block, overflow,
                     oval, tpc, loc, pushed, taken, fell, early, overlap>>
  BY DEF PopResetHead, StoreHead, Put, Owner, cursors, thieves, ghosts
<1>2. /\ Mine \in Blocks /\ Above \in Blocks /\ Above # Mine
      /\ Mine' = Mine /\ Above' = Above /\ Below' = Below
      /\ TypeOK /\ InRange /\ Alone
  BY <1>1, OwnBlocks DEF Mine, Above, Below, DequeInv
<1>3. TypeOK'
  <2>1. head' \in [Blocks -> 0 .. NE]
    BY <1>1, <1>2, ZeroAndEnd DEF TypeOK, Blocks
  <2> QED BY <1>1, <1>2, <2>1 DEF TypeOK, OwnerPC, Blocks
<1>4. InRange'
  BY <1>1, <1>2 DEF InRange, Pushing, TypeOK, Blocks
<1>5. Alone'
  BY <1>1, <1>2, OwnerAlone
<1> SUFFICES ASSUME Undisturbed' PROVE Cursors' /\ OwnerKnows' /\ LastLook' /\ OnePlace'
  BY <1>3, <1>4, <1>5 DEF DequeInv
<1>6. Cursors /\ OwnerKnows /\ LastLook /\ OnePlace
  BY <1>1, <1>2, WasUndisturbed DEF DequeInv
<1>7. \A b \in Blocks : Readers(b)' = Readers(b)
  BY <1>1, ReadersStay
<1>8. /\ opc = "won" /\ tail[Mine] = oval /\ head[Mine] = oval + 1 /\ steal_tail[Mine] = NE
  BY <1>1, <1>2, <1>6 DEF OwnerKnows, Cursors, MineClosed, Resetting
<1>9. Cursors'
  BY <1>1, <1>2, <1>6, <1>7, <1>8 DEF Cursors, GrantedClosed, MineClosed, CommitsBounded, NoCommits,
     Resetting, TypeOK, Blocks
<1>10. OwnerKnows'
  BY <1>1, <1>2, <1>6, <1>7, <1>8, <1>9 DEF OwnerKnows, Resetting, Cursors, MineClosed, GrantedClosed, NoCommits,
     TypeOK, Blocks
<1>11. LastLook'
  BY <1>1, <1>2, <1>5, <1>6 DEF LastLook, Alone, Active
<1>12. \A b \in Blocks : Live(b)' \subseteq Live(b)
  BY <1>1, <1>2, <1>6, <1>8 DEF Live, Held, TypeOK, Blocks
<1>13. Placed' >= Placed /\ Placed \in Int /\ Placed' \in Int
  BY <1>1, <1>2 DEF Placed, Pushing, TypeOK
<1> QED
  BY <1>1, <1>2, <1>6, <1>9, <1>10, <1>11, <1>12, <1>13, FewerPlaces

LEMMA PopResetTailKeeps ==
  ASSUME DequeConstants, DequeInv, PopResetTail
  PROVE  DequeInv'
<1>1. /\ opc \in {"won_tail", "lost_tail"} /\ opc' = (IF opc = "won_tail" THEN "idle" ELSE "retreat")
      /\ tail' = [tail EXCEPT ![Mine] = 0]
      /\ UNCHANGED <<head, steal_tail, steal_head, entries, owner_block, thief_block, overflow,
                     oval, tpc, loc, pushed, taken, fell, early, overlap>>
  BY DEF PopResetTail, StoreTail, Put, Owner, cursors, thieves, ghosts
<1>2. /\ Mine \in Blocks /\ Above \in Blocks /\ Above # Mine
      /\ Mine' = Mine /\ Above' = Above /\ Below' = Below
      /\ TypeOK /\ InRange /\ Alone
  BY <1>1, OwnBlocks DEF Mine, Above, Below, DequeInv
<1>3. TypeOK'
  <2>1. tail' \in [Blocks -> 0 .. NE]
    BY <1>1, <1>2, ZeroAndEnd DEF TypeOK, Blocks
  <2> QED BY <1>1, <1>2, <2>1 DEF TypeOK, OwnerPC, Blocks
<1>4. InRange'
  BY <1>1, <1>2 DEF InRange, Pushing, TypeOK, Blocks
<1>5. Alone'
  BY <1>1, <1>2, OwnerAlone
<1> SUFFICES ASSUME Undisturbed' PROVE Cursors' /\ OwnerKnows' /\ LastLook' /\ OnePlace'
  BY <1>3, <1>4, <1>5 DEF DequeInv
<1>6. Cursors /\ OwnerKnows /\ LastLook /\ OnePlace
  BY <1>1, <1>2, WasUndisturbed DEF DequeInv
<1>7. \A b \in Blocks : Readers(b)' = Readers(b)
  BY <1>1, ReadersStay
<1>8. /\ opc = "won_tail" /\ head[Mine] = 0 /\ steal_tail[Mine] = NE
  BY <1>1, <1>2, <1>6 DEF OwnerKnows, Cursors, MineClosed, Resetting
<1>9. Cursors'
  BY <1>1, <1>2, <1>6, <1>7, <1>8 DEF Cursors, GrantedClosed, MineClosed, CommitsBounded, NoCommits,
     Resetting, TypeOK, Blocks
<1>10. OwnerKnows'
  BY <1>1, <1>2, <1>6, <1>7, <1>8, <1>9 DEF OwnerKnows, Resetting, Cursors, MineClosed, GrantedClosed, NoCommits,
     TypeOK, Blocks
<1>11. LastLook'
  BY <1>1, <1>2, <1>5, <1>6 DEF LastLook, Alone, Active
<1>12. \A b \in Blocks : Live(b)' \subseteq Live(b)
  <2>1. \A b \in Blocks : b # Mine => Live(b)' = Live(b)
    BY <1>1, <1>2, <1>8 DEF Live, Held, TypeOK, Blocks
  <2>2. Held(Mine)' = {} /\ steal_tail'[Mine] = steal_tail[Mine]
    BY <1>1, <1>2, <1>8, EmptyRange DEF Held, TypeOK, Blocks
  <2> QED BY <1>2, <2>1, <2>2 DEF Live
<1>13. Placed' >= Placed /\ Placed \in Int /\ Placed' \in Int
  BY <1>1, <1>2 DEF Placed, Pushing, TypeOK
<1> QED
  BY <1>1, <1>2, <1>6, <1>9, <1>10, <1>11, <1>12, <1>13, FewerPlaces

LEMMA PopRetreatKeeps ==
  ASSUME DequeConstants, DequeInv, PopRetreat
  PROVE  DequeInv'
<1>1. /\ opc = "retreat" /\ opc' = (IF owner_block <= thief_block THEN "idle" ELSE "takeover")
      /\ UNCHANGED <<head, tail, steal_tail, steal_head, entries, owner_block, thief_block,
                     overflow, oval, tpc, loc, pushed, taken, fell, early, overlap>>
  BY DEF PopRetreat, OwnerReads, blocks, cursors, thieves, ghosts
<1>2. /\ Mine \in Blocks /\ Above \in Blocks /\ Above # Mine
      /\ Mine' = Mine /\ Above' = Above /\ Below' = Below
      /\ TypeOK /\ InRange /\ Alone
  BY <1>1, OwnBlocks DEF Mine, Above, Below, DequeInv
<1>3. TypeOK'
  BY <1>1, <1>2 DEF TypeOK, OwnerPC, Blocks
<1>4. InRange'
  BY <1>1, <1>2 DEF InRange, Pushing, TypeOK, Blocks
<1>5. Alone'
  BY <1>1, <1>2, OwnerAlone
<1> SUFFICES ASSUME Undisturbed' PROVE Cursors' /\ OwnerKnows' /\ LastLook' /\ OnePlace'
  BY <1>3, <1>4, <1>5 DEF DequeInv
<1>6. Cursors /\ OwnerKnows /\ LastLook /\ OnePlace
  BY <1>1, <1>2, WasUndisturbed DEF DequeInv
<1>7. \A b \in Blocks : Readers(b)' = Readers(b)
  BY <1>1, ReadersStay
<1>9. Cursors'
  BY <1>1, <1>2, <1>6, <1>7 DEF Cursors, GrantedClosed, MineClosed, CommitsBounded, NoCommits,
     Resetting, TypeOK, Blocks
<1>10. OwnerKnows'
  BY <1>1, <1>2, <1>6, <1>7, <1>9 DEF OwnerKnows, Resetting, Cursors, MineClosed, GrantedClosed, NoCommits,
     TypeOK, Blocks
<1>11. LastLook'
  BY <1>1, <1>2, <1>5, <1>6 DEF LastLook, Alone, Active
<1>12. \A b \in Blocks : Live(b)' \subseteq Live(b)
  BY <1>1, <1>2, <1>6 DEF Live, Held, TypeOK, Blocks
<1>13. Placed' >= Placed /\ Placed \in Int /\ Placed' \in Int
  BY <1>1, <1>2 DEF Placed, Pushing, TypeOK
<1> QED
  BY <1>1, <1>2, <1>6, <1>9, <1>10, <1>11, <1>12, <1>13, FewerPlaces

LEMMA TakenOverKeeps ==
  ASSUME DequeConstants, DequeInv, Takeover, steal_tail[Below] = NE
  PROVE  DequeInv'
<1>1. /\ opc = "takeover" /\ opc' = "pop"
      /\ owner_block' = owner_block - 1
      /\ steal_tail' = [steal_tail EXCEPT ![Below] = NE] /\ oval' = steal_tail[Below] /\ steal_tail[Below] = NE
      /\ UNCHANGED <<head, tail, steal_head, entries, thief_block, overflow, tpc, loc, pushed,
                     taken, fell, early, overlap>>
  BY DEF Takeover, StoreStealTail, Sentinel, Put, cursors, thieves, ghosts
<1>2. /\ Mine \in Blocks /\ Above \in Blocks /\ Above # Mine
      /\ Mine' = Below
      /\ Below \in Blocks /\ Below # Mine
      /\ TypeOK /\ InRange /\ Alone
  BY <1>1, OwnBlocks DEF Mine, Above, Below, DequeInv
<1>3. TypeOK'
  <2>1. steal_tail' \in [Blocks -> 0 .. NE]
    BY <1>1, <1>2, ZeroAndEnd DEF TypeOK, Blocks
  <2> QED BY <1>1, <1>2, <2>1 DEF TypeOK, OwnerPC, Blocks, InRange
<1>4. InRange'
  BY <1>1, <1>2 DEF InRange, Pushing, TypeOK, Blocks
<1>5. Alone'
  BY <1>1, <1>2, OwnerAlone
<1> SUFFICES ASSUME Undisturbed' PROVE Cursors' /\ OwnerKnows' /\ LastLook' /\ OnePlace'
  BY <1>3, <1>4, <1>5 DEF DequeInv
<1>6. Cursors /\ OwnerKnows /\ LastLook /\ OnePlace
  BY <1>1, <1>2, WasUndisturbed DEF DequeInv
<1>7. \A b \in Blocks : Readers(b)' = Readers(b)
  BY <1>1, ReadersStay
<1>9. Cursors'
  BY <1>1, <1>2, <1>6, <1>7 DEF Cursors, GrantedClosed, MineClosed, CommitsBounded, NoCommits,
     Resetting, TypeOK, Blocks
<1>10. OwnerKnows'
  BY <1>1, <1>2, <1>6, <1>7, <1>9 DEF OwnerKnows, Resetting, Cursors, MineClosed, GrantedClosed, NoCommits,
     TypeOK, Blocks
<1>11. LastLook'
  BY <1>1, <1>2, <1>5, <1>6 DEF LastLook, Alone, Active
<1>12. \A b \in Blocks : Live(b)' \subseteq Live(b)
  BY <1>1, <1>2, <1>6 DEF Live, Held, TypeOK, Blocks
<1>13. Placed' >= Placed /\ Placed \in Int /\ Placed' \in Int
  BY <1>1, <1>2 DEF Placed, Pushing, TypeOK
<1> QED
  BY <1>1, <1>2, <1>6, <1>9, <1>10, <1>11, <1>12, <1>13, FewerPlaces

LEMMA TakeoverKeeps ==
  ASSUME DequeConstants, DequeInv, Takeover, steal_tail[Below] # NE
  PROVE  DequeInv'
<1>1. /\ opc = "takeover" /\ opc' = "settle"
      /\ steal_tail' = [steal_tail EXCEPT ![Below] = NE]
      /\ oval' = steal_tail[Below]
      /\ steal_tail[Below] # NE
      /\ UNCHANGED <<head, tail, steal_head, entries, owner_block, thief_block, overflow, tpc,
                     loc, pushed, taken, fell, early, overlap>>
  BY DEF Takeover, StoreStealTail, Sentinel, Put, cursors, thieves, ghosts
<1>2. /\ Mine \in Blocks /\ Above \in Blocks /\ Above # Mine
      /\ Mine' = Mine /\ Above' = Above /\ Below' = Below
      /\ Below \in Blocks /\ Below # Mine
      /\ TypeOK /\ InRange /\ Alone
  BY <1>1, OwnBlocks DEF Mine, Above, Below, DequeInv
<1>3. TypeOK'
  <2>1. steal_tail' \in [Blocks -> 0 .. NE]
    BY <1>1, <1>2, ZeroAndEnd DEF TypeOK, Blocks
  <2> QED BY <1>1, <1>2, <2>1 DEF TypeOK, OwnerPC, Blocks
<1>4. InRange'
  BY <1>1, <1>2, Ranges DEF InRange, Pushing, DequeConstants
<1>5. Alone'
  BY <1>1, <1>2, OwnerAlone
<1> SUFFICES ASSUME Undisturbed' PROVE Cursors' /\ OwnerKnows' /\ LastLook' /\ OnePlace'
  BY <1>3, <1>4, <1>5 DEF DequeInv
<1>6. Cursors /\ OwnerKnows /\ LastLook /\ OnePlace
  BY <1>1, <1>2, WasUndisturbed DEF DequeInv
<1>7. \A b \in Blocks : Readers(b)' = Readers(b)
  BY <1>1, ReadersStay
<1>8. /\ head[Below] = NE /\ tail[Below] = NE
      /\ Cardinality(Readers(Below)) + steal_head[Below] <= steal_tail[Below]
  BY <1>1, <1>2, <1>6 DEF Cursors, GrantedClosed, CommitsBounded
<1>9. Cursors'
  <2>1. GrantedClosed'
    BY <1>1, <1>2, <1>6, <1>7, <1>8 DEF Cursors, GrantedClosed, TypeOK, Blocks
  <2>2. MineClosed'
    BY <1>1, <1>2, <1>6, <1>7, <1>8 DEF Cursors, MineClosed, Resetting, TypeOK, Blocks
  <2>3. CommitsBounded'
    <3> SUFFICES ASSUME NEW b \in Blocks
                 PROVE  Cardinality(Readers(b)) + steal_head'[b] <= steal_tail'[b]
      BY <1>7 DEF CommitsBounded
    <3>1. Cardinality(Readers(b)) + steal_head[b] <= steal_tail[b]
      BY <1>6 DEF Cursors, CommitsBounded
    <3>2. Cardinality(Readers(b)) \in Nat /\ steal_head[b] \in Nat /\ steal_tail[b] \in 0 .. NE
      BY <1>2, Ranges
    <3>3. steal_head'[b] \in {0, steal_head[b]} /\ steal_tail'[b] \in {NE, steal_tail[b]}
      BY <1>1, <1>2 DEF TypeOK, Blocks
    <3> QED BY <3>1, <3>2, <3>3 DEF DequeConstants
  <2>4. NoCommits'
    BY <1>1, <1>2, <1>6, <1>7, <1>8 DEF Cursors, NoCommits, TypeOK, Blocks
  <2> QED BY <2>1, <2>2, <2>3, <2>4 DEF Cursors
<1>10. OwnerKnows'
  BY <1>1, <1>2, <1>6, <1>7, <1>8, <1>9 DEF OwnerKnows, Resetting, Cursors, MineClosed, GrantedClosed, NoCommits,
     TypeOK, Blocks
<1>11. LastLook'
  BY <1>1, <1>2, <1>5, <1>6 DEF LastLook, Alone, Active
<1>12. \A b \in Blocks : Live(b)' \subseteq Live(b)
  BY <1>1, <1>2, <1>6, <1>8 DEF Live, Held, TypeOK, Blocks
<1>13. Placed' >= Placed /\ Placed \in Int /\ Placed' \in Int
  BY <1>1, <1>2 DEF Placed, Pushing, TypeOK
<1> QED
  BY <1>1, <1>2, <1>6, <1>9, <1>10, <1>11, <1>12, <1>13, FewerPlaces

LEMMA TakeoverSpinKeeps ==
  ASSUME DequeConstants, DequeInv, TakeoverSpin
  PROVE  DequeInv'
<1>1. /\ opc = "settle" /\ opc' = "settled"
      /\ head' = [head EXCEPT ![Below] = oval]
      /\ steal_head[Below] >= oval
      /\ UNCHANGED <<tail, steal_tail, steal_head, entries, owner_block, thief_block, overflow,
                     oval, tpc, loc, pushed, taken, fell, early, overlap>>
  BY DEF TakeoverSpin, StoreHead, Put, Owner, cursors, thieves, ghosts
<1>2. /\ Mine \in Blocks /\ Above \in Blocks /\ Above # Mine
      /\ Mine' = Mine /\ Above' = Above /\ Below' = Below
      /\ Below \in Blocks /\ Below # Mine
      /\ TypeOK /\ InRange /\ Alone
  BY <1>1, OwnBlocks DEF Mine, Above, Below, DequeInv
<1>3. TypeOK'
  <2>1. head' \in [Blocks -> 0 .. NE]
    BY <1>1, <1>2, ZeroAndEnd DEF TypeOK, Blocks
  <2> QED BY <1>1, <1>2, <2>1 DEF TypeOK, OwnerPC, Blocks
<1>4. InRange'
  BY <1>1, <1>2 DEF InRange, Pushing, TypeOK, Blocks
<1>5. Alone'
  BY <1>1, <1>2, OwnerAlone
<1> SUFFICES ASSUME Undisturbed' PROVE Cursors' /\ OwnerKnows' /\ LastLook' /\ OnePlace'
  BY <1>3, <1>4, <1>5 DEF DequeInv
<1>6. Cursors /\ OwnerKnows /\ LastLook /\ OnePlace
  BY <1>1, <1>2, WasUndisturbed DEF DequeInv
<1>7. \A b \in Blocks : Readers(b)' = Readers(b)
  BY <1>1, ReadersStay
<1>8. /\ head[Below] = NE /\ tail[Below] = NE /\ steal_tail[Below] = NE
      /\ Readers(Below) = {}
  <2>1. Cardinality(Readers(Below)) + steal_head[Below] <= oval /\ steal_head[Below] \in Nat
    BY <1>1, <1>2, <1>6 DEF OwnerKnows, TypeOK, Blocks
  <2>2. Cardinality(Readers(Below)) = 0
    BY <1>1, <1>2, <2>1, ReadersFinite DEF TypeOK
  <2> QED BY <1>1, <1>2, <1>6, <2>2, ReadersFinite DEF OwnerKnows
<1>9. Cursors'
  BY <1>1, <1>2, <1>6, <1>7, <1>8 DEF Cursors, GrantedClosed, MineClosed, CommitsBounded, NoCommits,
     Resetting, TypeOK, Blocks
<1>10. OwnerKnows'
  BY <1>1, <1>2, <1>6, <1>7, <1>8, <1>9 DEF OwnerKnows, Resetting, Cursors, MineClosed, GrantedClosed, NoCommits,
     TypeOK, Blocks
<1>11. LastLook'
  BY <1>1, <1>2, <1>5, <1>6 DEF LastLook, Alone, Active
<1>12. \A b \in Blocks : Live(b)' \subseteq Live(b)
  BY <1>1, <1>2, <1>6, <1>8 DEF Live, Held, TypeOK, Blocks
<1>13. Placed' >= Placed /\ Placed \in Int /\ Placed' \in Int
  BY <1>1, <1>2 DEF Placed, Pushing, TypeOK
<1> QED
  BY <1>1, <1>2, <1>6, <1>9, <1>10, <1>11, <1>12, <1>13, FewerPlaces

LEMMA TakeoverDoneKeeps ==
  ASSUME DequeConstants, DequeInv, TakeoverDone
  PROVE  DequeInv'
<1>1. /\ opc = "settled" /\ opc' = "pop"
      /\ steal_head' = [steal_head EXCEPT ![Below] = 0]
      /\ owner_block' = owner_block - 1
      /\ UNCHANGED <<head, tail, steal_tail, entries, thief_block, overflow, oval, tpc, loc,
                     pushed, taken, fell, early, overlap>>
  BY DEF TakeoverDone, StoreStealHead, Put, Owner, cursors, thieves, ghosts
<1>2. /\ Mine \in Blocks /\ Above \in Blocks /\ Above # Mine
      /\ Mine' = Below
      /\ Below \in Blocks /\ Below # Mine
      /\ TypeOK /\ InRange /\ Alone
  BY <1>1, OwnBlocks DEF Mine, Above, Below, DequeInv
<1>3. TypeOK'
  <2>1. steal_head' \in [Blocks -> Nat]
    BY <1>1, <1>2, ZeroAndEnd DEF TypeOK, Blocks
  <2> QED BY <1>1, <1>2, <2>1 DEF TypeOK, OwnerPC, Blocks, InRange
<1>4. InRange'
  BY <1>1, <1>2 DEF InRange, Pushing, TypeOK, Blocks
<1>5. Alone'
  BY <1>1, <1>2, OwnerAlone
<1> SUFFICES ASSUME Undisturbed' PROVE Cursors' /\ OwnerKnows' /\ LastLook' /\ OnePlace'
  BY <1>3, <1>4, <1>5 DEF DequeInv
<1>6. Cursors /\ OwnerKnows /\ LastLook /\ OnePlace
  BY <1>1, <1>2, WasUndisturbed DEF DequeInv
<1>7. \A b \in Blocks : Readers(b)' = Readers(b)
  BY <1>1, ReadersStay
<1>8. steal_tail[Below] = NE /\ Readers(Below) = {}
  BY <1>1, <1>6 DEF OwnerKnows
<1>9. Cursors'
  <2>1. GrantedClosed'
    BY <1>1, <1>2, <1>6, <1>7, <1>8 DEF Cursors, GrantedClosed, TypeOK, Blocks
  <2>2. MineClosed'
    BY <1>1, <1>2, <1>6, <1>7, <1>8 DEF Cursors, MineClosed, Resetting, TypeOK, Blocks
  <2>3. CommitsBounded'
    <3> SUFFICES ASSUME NEW b \in Blocks
                 PROVE  Cardinality(Readers(b)) + steal_head'[b] <= steal_tail'[b]
      BY <1>7 DEF CommitsBounded
    <3>1. Cardinality(Readers(b)) + steal_head[b] <= steal_tail[b]
      BY <1>6 DEF Cursors, CommitsBounded
    <3>2. Cardinality(Readers(b)) \in Nat /\ steal_head[b] \in Nat /\ steal_tail[b] \in 0 .. NE
      BY <1>2, Ranges
    <3>3. steal_head'[b] \in {0, steal_head[b]} /\ steal_tail'[b] \in {NE, steal_tail[b]}
      BY <1>1, <1>2 DEF TypeOK, Blocks
    <3> QED BY <3>1, <3>2, <3>3 DEF DequeConstants
  <2>4. NoCommits'
    BY <1>1, <1>2, <1>6, <1>7, <1>8 DEF Cursors, NoCommits, TypeOK, Blocks
  <2> QED BY <2>1, <2>2, <2>3, <2>4 DEF Cursors
<1>10. OwnerKnows'
  BY <1>1, <1>2, <1>6, <1>7, <1>8, <1>9 DEF OwnerKnows, Resetting, Cursors, MineClosed, GrantedClosed, NoCommits,
     TypeOK, Blocks
<1>11. LastLook'
  BY <1>1, <1>2, <1>5, <1>6 DEF LastLook, Alone, Active
<1>12. \A b \in Blocks : Live(b)' \subseteq Live(b)
  BY <1>1, <1>2, <1>6, <1>8 DEF Live, Held, TypeOK, Blocks
<1>13. Placed' >= Placed /\ Placed \in Int /\ Placed' \in Int
  BY <1>1, <1>2 DEF Placed, Pushing, TypeOK
<1> QED
  BY <1>1, <1>2, <1>6, <1>9, <1>10, <1>11, <1>12, <1>13, FewerPlaces

LEMMA PushWriteKeeps ==
  ASSUME DequeConstants, DequeInv, PushWrite
  PROVE  DequeInv'
<1>1. /\ opc = "push" /\ opc' = "publish"
      /\ entries' = [entries EXCEPT ![Mine][tail[Mine]] = pushed]
      /\ tail[Mine] < NE
      /\ UNCHANGED <<head, tail, steal_tail, steal_head, owner_block, thief_block, overflow, oval,
                     tpc, loc, pushed, taken, fell, early, overlap>>
  BY DEF PushWrite, Owner, blocks, cursors, thieves, ghosts
<1>2. /\ Mine \in Blocks /\ Above \in Blocks /\ Above # Mine
      /\ Mine' = Mine /\ Above' = Above /\ Below' = Below
      /\ TypeOK /\ InRange /\ Alone
  BY <1>1, OwnBlocks DEF Mine, Above, Below, DequeInv
<1>3. TypeOK'
  <2>1. entries' \in [Blocks -> [Indices -> 0 .. MaxPush]]
    BY <1>1, <1>2, ZeroAndEnd DEF TypeOK, Blocks, Indices
  <2> QED BY <1>1, <1>2, <2>1 DEF TypeOK, OwnerPC, Blocks, Indices
<1>4. InRange'
  BY <1>1, <1>2 DEF InRange, Pushing, TypeOK, Blocks
<1>5. Alone'
  BY <1>1, <1>2, OwnerAlone
<1> SUFFICES ASSUME Undisturbed' PROVE Cursors' /\ OwnerKnows' /\ LastLook' /\ OnePlace'
  BY <1>3, <1>4, <1>5 DEF DequeInv
<1>6. Cursors /\ OwnerKnows /\ LastLook /\ OnePlace
  BY <1>1, <1>2, WasUndisturbed DEF DequeInv
<1>7. \A b \in Blocks : Readers(b)' = Readers(b)
  BY <1>1, ReadersStay
<1>8. /\ tail[Mine] \in Indices /\ steal_tail[Mine] = NE /\ Readers(Mine) = {}
  BY <1>1, <1>2, <1>6, Ranges DEF Indices, Cursors, GrantedClosed, MineClosed, Resetting, DequeConstants
<1>9. Cursors'
  BY <1>1, <1>2, <1>6, <1>7, <1>8 DEF Cursors, GrantedClosed, MineClosed, CommitsBounded, NoCommits,
     Resetting, TypeOK, Blocks
<1>10. OwnerKnows'
  BY <1>1, <1>2, <1>8 DEF OwnerKnows, Resetting, TypeOK, Blocks, Indices
<1>11. LastLook'
  BY <1>1, <1>2, <1>5, <1>6 DEF LastLook, Alone, Active
<1>12. \A b \in Blocks : \A j \in Live(b)' : j \in Live(b) /\ entries'[b][j] = entries[b][j]
  <2>1. \A b \in Blocks : Live(b)' = Live(b)
    BY <1>1, <1>2 DEF Live, Held
  <2>2. tail[Mine] \notin Live(Mine)
    BY <1>1, <1>2, <1>8 DEF Live, Held, TypeOK, Blocks
  <2> QED BY <1>1, <1>2, <2>1, <2>2 DEF TypeOK, Blocks
<1>13. \A t \in Thieves : Carries(t)' => Carries(t) /\ Carried(t)' = Carried(t)
  <2> TAKE t \in Thieves
  <2>1. Fresh(t) \in Blocks /\ Fresh(t)' = Fresh(t) /\ Theirs(t)' = Theirs(t)
    BY <1>1, <1>2, ThiefBlocks DEF Fresh, Theirs
  <2>2. tpc[t] = "read" => Fresh(t) # Mine
    BY <1>8 DEF Readers, Fresh
  <2>3. tpc[t] # "lift"
    BY <1>1, <1>2, <1>5, <1>6 DEF Alone, Undisturbed, Active
  <2> QED BY <1>1, <2>1, <2>2, <2>3 DEF Carries, Carried, TypeOK, Blocks
<1>14. Placed' = Placed /\ Placed \in Int
  BY <1>1, <1>2 DEF Placed, Pushing, TypeOK
<1> QED
  BY <1>1, <1>2, <1>6, <1>9, <1>10, <1>11, <1>12, <1>13, <1>14, PlacesKept

LEMMA PushPublishKeeps ==
  ASSUME DequeConstants, DequeInv, PushPublish
  PROVE  DequeInv'
<1>1. /\ opc = "publish" /\ opc' = "idle"
      /\ tail' = [tail EXCEPT ![Mine] = tail[Mine] + 1]
      /\ UNCHANGED <<head, steal_tail, steal_head, entries, owner_block, thief_block, overflow,
                     oval, tpc, loc, pushed, taken, fell, early, overlap>>
  BY DEF PushPublish, StoreTail, Put, Owner, cursors, thieves, ghosts
<1>2. /\ Mine \in Blocks /\ Above \in Blocks /\ Above # Mine
      /\ Mine' = Mine /\ Above' = Above /\ Below' = Below
      /\ TypeOK /\ InRange /\ Alone
  BY <1>1, OwnBlocks DEF Mine, Above, Below, DequeInv
<1>3. TypeOK'
  <2>1. tail' \in [Blocks -> 0 .. NE]
    <3>0. tail[Mine] \in 0 .. NE /\ oval \in 0 .. NE
      BY <1>2, Ranges DEF TypeOK
    <3>1. tail[Mine] + 1 \in 0 .. NE
      BY <1>1, <1>2, <3>0 DEF InRange, DequeConstants
    <3> QED BY <1>1, <1>2, <3>1, ZeroAndEnd DEF TypeOK, Blocks
  <2> QED BY <1>1, <1>2, <2>1 DEF TypeOK, OwnerPC, Blocks
<1>4. InRange'
  BY <1>1, <1>2 DEF InRange, Pushing, TypeOK, Blocks
<1>5. Alone'
  BY <1>1, <1>2, OwnerAlone
<1> SUFFICES ASSUME Undisturbed' PROVE Cursors' /\ OwnerKnows' /\ LastLook' /\ OnePlace'
  BY <1>3, <1>4, <1>5 DEF DequeInv
<1>6. Cursors /\ OwnerKnows /\ LastLook /\ OnePlace
  BY <1>1, <1>2, WasUndisturbed DEF DequeInv
<1>7. \A b \in Blocks : Readers(b)' = Readers(b)
  BY <1>1, ReadersStay
<1>8. /\ tail[Mine] \in Indices /\ steal_tail[Mine] = NE /\ Readers(Mine) = {}
      /\ steal_head[Mine] = 0 /\ entries[Mine][tail[Mine]] = pushed /\ pushed \in Items
  <2>1. steal_tail[Mine] = NE /\ entries[Mine][tail[Mine]] = pushed
    BY <1>1, <1>6 DEF Cursors, MineClosed, Resetting, OwnerKnows
  <2>2. tail[Mine] \in Indices
    BY <1>1, <1>2, Ranges DEF InRange, Indices, DequeConstants
  <2>3. Readers(Mine) = {} /\ steal_head[Mine] = 0
    BY <1>1, <1>2, <1>6, <2>2 DEF Cursors, GrantedClosed, NoCommits, Indices, DequeConstants
  <2>4. pushed \in Items
    BY <1>1, <1>2 DEF InRange, Pushing, TypeOK, Items, DequeConstants
  <2> QED BY <2>1, <2>2, <2>3, <2>4
<1>9. Cursors'
  <2>1. GrantedClosed'
    BY <1>1, <1>2, <1>6, <1>7, <1>8 DEF Cursors, GrantedClosed, TypeOK, Blocks
  <2>2. MineClosed'
    BY <1>1, <1>2, <1>6, <1>7, <1>8 DEF Cursors, MineClosed, Resetting, TypeOK, Blocks
  <2>3. CommitsBounded'
    <3> SUFFICES ASSUME NEW b \in Blocks
                 PROVE  Cardinality(Readers(b)) + steal_head'[b] <= steal_tail'[b]
      BY <1>7 DEF CommitsBounded
    <3>1. Cardinality(Readers(b)) + steal_head[b] <= steal_tail[b]
      BY <1>6 DEF Cursors, CommitsBounded
    <3>2. Cardinality(Readers(b)) \in Nat /\ steal_head[b] \in Nat /\ steal_tail[b] \in 0 .. NE
      BY <1>2, Ranges
    <3>3. steal_head'[b] \in {0, steal_head[b]} /\ steal_tail'[b] \in {NE, steal_tail[b]}
      BY <1>1, <1>2 DEF TypeOK, Blocks
    <3> QED BY <3>1, <3>2, <3>3 DEF DequeConstants
  <2>4. NoCommits'
    BY <1>1, <1>2, <1>6, <1>7, <1>8 DEF Cursors, NoCommits, TypeOK, Blocks
  <2> QED BY <2>1, <2>2, <2>3, <2>4 DEF Cursors
<1>10. OwnerKnows'
  BY <1>1, <1>2, <1>6, <1>7, <1>8, <1>9 DEF OwnerKnows, Resetting, Cursors, MineClosed, GrantedClosed, NoCommits,
     TypeOK, Blocks
<1>11. LastLook'
  BY <1>1, <1>2, <1>5, <1>6 DEF LastLook, Alone, Active
<1>12. \A t \in Thieves : Carries(t)' = Carries(t) /\ Carried(t)' = Carried(t)
  BY <1>1 DEF Carries, Carried, Fresh, Theirs
<1>13. Placed' = Placed + 1 /\ Placed' = pushed /\ Placed \in Int
  BY <1>1, <1>2 DEF Placed, Pushing, TypeOK
<1>14. \A i : Untaken(i) => i # pushed /\ Untaken(i)'
  BY <1>1, <1>13 DEF Untaken
<1>15. Untaken(pushed)'
  BY <1>1, <1>2, <1>6, <1>8, <1>13 DEF OnePlace, Untaken, Items
<1>16. \A b \in Blocks : \A j \in Live(b)' :
         j \in Live(b) \/ (b = Mine /\ j = tail[Mine])
  <2>1. \A b \in Blocks : b # Mine => Live(b)' = Live(b)
    BY <1>1, <1>2 DEF Live, Held, TypeOK, Blocks
  <2>2. Held(Mine) = head[Mine] .. tail[Mine] - 1 /\ Held(Mine)' = head[Mine] .. (tail[Mine] + 1) - 1
    BY <1>1, <1>2 DEF Held, TypeOK, Blocks
  <2>3. \A j \in Held(Mine)' : j \in Held(Mine) \/ j = tail[Mine]
    BY <1>2, <2>2, Ranges
  <2>4. \A j \in Live(Mine)' : j \in Held(Mine)'
    BY <1>1, <1>2, <1>8 DEF Live, DequeConstants
  <2>5. \A b \in Blocks : b = Mine => \A j \in Live(b)' : j \in Live(b) \/ j = tail[Mine]
    BY <1>1, <1>2, <2>3, <2>4 DEF Live, Held
  <2> QED BY <2>1, <2>5
<1>21. entries[Mine][tail[Mine]] = pushed
  BY <1>8
<1>17. \A b \in Blocks : \A j \in Live(b)' :
         /\ Untaken(entries[b][j])'
         /\ \A t \in Thieves : Carries(t) => entries[b][j] # Carried(t)
  BY <1>6, <1>14, <1>15, <1>16, <1>21, <1>1 DEF OnePlace
<1>18. \A b, c \in Blocks : \A j \in Live(b)', k \in Live(c)' :
          entries[b][j] = entries[c][k] => b = c /\ j = k
  BY <1>6, <1>14, <1>16, <1>21 DEF OnePlace
<1>19. \A i \in Items : taken[i] <= 1 /\ (i > Placed' => taken[i] = 0)
  BY <1>6, <1>13 DEF OnePlace, Items
<1>20. OnePlace'
  BY <1>1, <1>6, <1>12, <1>14, <1>17, <1>18, <1>19 DEF OnePlace
<1> QED BY <1>9, <1>10, <1>11, <1>20

LEMMA PopTopKeeps ==
  ASSUME DequeConstants, DequeInv, PopTop
  PROVE  DequeInv'
<1>1. /\ opc = "top" /\ opc' = "idle"
      /\ tail' = [tail EXCEPT ![Mine] = tail[Mine] - 1]
      /\ taken' = [taken EXCEPT ![entries[Mine][tail[Mine] - 1]] = @ + 1]
      /\ UNCHANGED <<head, steal_tail, steal_head, entries, owner_block, thief_block, overflow,
                     oval, tpc, loc, pushed, fell, early, overlap>>
  BY DEF PopTop, Take, StoreTail, Put, Owner, cursors, thieves
<1>2. /\ Mine \in Blocks /\ Above \in Blocks /\ Above # Mine
      /\ Mine' = Mine /\ Above' = Above /\ Below' = Below
      /\ TypeOK /\ InRange /\ Alone
  BY <1>1, OwnBlocks DEF Mine, Above, Below, DequeInv
<1>3. TypeOK'
  <2>1. tail' \in [Blocks -> 0 .. NE]
    <3>0. tail[Mine] \in 0 .. NE /\ oval \in 0 .. NE
      BY <1>2, Ranges DEF TypeOK
    <3>1. tail[Mine] - 1 \in 0 .. NE
      BY <1>1, <1>2, <3>0 DEF InRange, DequeConstants
    <3> QED BY <1>1, <1>2, <3>1, ZeroAndEnd DEF TypeOK, Blocks, InRange, DequeConstants
  <2>2. taken' \in [Items -> Nat]
    BY <1>1, <1>2, CountsAreNumbers
  <2> QED BY <1>1, <1>2, <2>1, <2>2 DEF TypeOK, OwnerPC, Blocks
<1>4. InRange'
  BY <1>1, <1>2 DEF InRange, Pushing, TypeOK, Blocks
<1>5. Alone'
  BY <1>1, <1>2, OwnerAlone
<1> SUFFICES ASSUME Undisturbed' PROVE Cursors' /\ OwnerKnows' /\ LastLook' /\ OnePlace'
  BY <1>3, <1>4, <1>5 DEF DequeInv
<1>6. Cursors /\ OwnerKnows /\ LastLook /\ OnePlace
  BY <1>1, <1>2, WasUndisturbed DEF DequeInv
<1>7. \A b \in Blocks : Readers(b)' = Readers(b)
  BY <1>1, ReadersStay
<1>8. /\ tail[Mine] - 1 \in Indices /\ tail[Mine] > head[Mine] + 1 /\ head[Mine] \in Nat /\ steal_tail[Mine] = NE
  BY <1>1, <1>2, <1>6, Ranges DEF Indices, Cursors, MineClosed, Resetting, OwnerKnows, DequeConstants
<1>9. Cursors'
  <2>1. GrantedClosed'
    BY <1>1, <1>2, <1>6, <1>7, <1>8 DEF Cursors, GrantedClosed, TypeOK, Blocks
  <2>2. MineClosed'
    BY <1>1, <1>2, <1>6, <1>7, <1>8 DEF Cursors, MineClosed, Resetting, TypeOK, Blocks
  <2>3. CommitsBounded'
    <3> SUFFICES ASSUME NEW b \in Blocks
                 PROVE  Cardinality(Readers(b)) + steal_head'[b] <= steal_tail'[b]
      BY <1>7 DEF CommitsBounded
    <3>1. Cardinality(Readers(b)) + steal_head[b] <= steal_tail[b]
      BY <1>6 DEF Cursors, CommitsBounded
    <3>2. Cardinality(Readers(b)) \in Nat /\ steal_head[b] \in Nat /\ steal_tail[b] \in 0 .. NE
      BY <1>2, Ranges
    <3>3. steal_head'[b] \in {0, steal_head[b]} /\ steal_tail'[b] \in {NE, steal_tail[b]}
      BY <1>1, <1>2 DEF TypeOK, Blocks
    <3> QED BY <3>1, <3>2, <3>3 DEF DequeConstants
  <2>4. NoCommits'
    BY <1>1, <1>2, <1>6, <1>7, <1>8 DEF Cursors, NoCommits, TypeOK, Blocks
  <2> QED BY <2>1, <2>2, <2>3, <2>4 DEF Cursors
<1>10. OwnerKnows'
  BY <1>1, <1>2, <1>6, <1>7, <1>8, <1>9 DEF OwnerKnows, Resetting, Cursors, MineClosed, GrantedClosed, NoCommits,
     TypeOK, Blocks
<1>11. LastLook'
  BY <1>1, <1>2, <1>5, <1>6 DEF LastLook, Alone, Active
<1>20. /\ Held(Mine) = head[Mine] .. tail[Mine] - 1
        /\ Held(Mine)' = head[Mine] .. (tail[Mine] - 1) - 1
        /\ \A b \in Blocks : b # Mine => Live(b)' = Live(b)
  BY <1>1, <1>2, <1>8 DEF Live, Held, TypeOK, Blocks
<1>12. tail[Mine] - 1 \in Live(Mine)
  BY <1>2, <1>8, <1>20, Ranges DEF Live, Indices, DequeConstants
<1>13. \A b \in Blocks : Live(b)' \subseteq Live(b) /\ (b = Mine => tail[Mine] - 1 \notin Live(b)')
  <2>1. steal_tail'[Mine] = NE /\ \A j \in Held(Mine)' : j \in Held(Mine) /\ j # tail[Mine] - 1
    BY <1>1, <1>2, <1>8, <1>20, Ranges, SMTT(30) DEF TypeOK
  <2> QED BY <1>2, <1>8, <1>20, <2>1 DEF Live, Indices, DequeConstants
<1> DEFINE i == entries[Mine][tail[Mine] - 1]
<1>14. Untaken(i) /\ i \in Items
  <2>1. Placed \in Int
    BY <1>1, <1>2 DEF Placed, Pushing, TypeOK
  <2> QED BY <1>2, <1>6, <1>12, <2>1, UntakenIsItem DEF OnePlace
<1>15. \A b \in Blocks : \A j \in Live(b)' : j \in Live(b) /\ entries[b][j] # i
  BY <1>2, <1>6, <1>12, <1>13 DEF OnePlace
<1>16. \A t \in Thieves : Carries(t)' => Carries(t) /\ Carried(t)' = Carried(t) /\ Carried(t) # i
  BY <1>1, <1>2, <1>6, <1>12 DEF OnePlace, Carries, Carried, Fresh, Theirs
<1>17. Placed' = Placed /\ Placed \in Int
  BY <1>1, <1>2 DEF Placed, Pushing, TypeOK
<1> QED
  BY <1>1, <1>2, <1>6, <1>9, <1>10, <1>11, <1>14, <1>15, <1>16, <1>17, PlaceTaken

LEMMA PopWonKeeps ==
  ASSUME DequeConstants, DequeInv, PopClaim, head[Mine] = oval
  PROVE  DequeInv'
<1>1. /\ opc = "claim" /\ opc' = "won"
      /\ head' = [head EXCEPT ![Mine] = oval + 1]
      /\ taken' = [taken EXCEPT ![entries[Mine][oval]] = @ + 1]
      /\ UNCHANGED <<tail, steal_tail, steal_head, entries, owner_block, thief_block, overflow,
                     oval, tpc, loc, pushed, fell, early, overlap>>
  BY DEF PopClaim, Take, StoreHead, Put, Owner, cursors, thieves
<1>2. /\ Mine \in Blocks /\ Above \in Blocks /\ Above # Mine
      /\ Mine' = Mine /\ Above' = Above /\ Below' = Below
      /\ TypeOK /\ InRange /\ Alone
  BY <1>1, OwnBlocks DEF Mine, Above, Below, DequeInv
<1>3. TypeOK'
  <2>1. head' \in [Blocks -> 0 .. NE]
    <3>0. tail[Mine] \in 0 .. NE /\ oval \in 0 .. NE
      BY <1>2, Ranges DEF TypeOK
    <3>1. oval + 1 \in 0 .. NE
      BY <1>1, <1>2, <3>0 DEF InRange, DequeConstants
    <3> QED BY <1>1, <1>2, <3>1, ZeroAndEnd DEF TypeOK, Blocks, InRange, DequeConstants
  <2>2. taken' \in [Items -> Nat]
    BY <1>1, <1>2, CountsAreNumbers
  <2> QED BY <1>1, <1>2, <2>1, <2>2 DEF TypeOK, OwnerPC, Blocks
<1>4. InRange'
  BY <1>1, <1>2 DEF InRange, Pushing, TypeOK, Blocks
<1>5. Alone'
  BY <1>1, <1>2, OwnerAlone
<1> SUFFICES ASSUME Undisturbed' PROVE Cursors' /\ OwnerKnows' /\ LastLook' /\ OnePlace'
  BY <1>3, <1>4, <1>5 DEF DequeInv
<1>6. Cursors /\ OwnerKnows /\ LastLook /\ OnePlace
  BY <1>1, <1>2, WasUndisturbed DEF DequeInv
<1>7. \A b \in Blocks : Readers(b)' = Readers(b)
  BY <1>1, ReadersStay
<1>8. /\ oval \in Indices /\ tail[Mine] = oval /\ head[Mine] = oval /\ steal_tail[Mine] = NE
      /\ Readers(Mine) = {} /\ steal_head[Mine] = 0
  <2>1. oval \in Indices /\ tail[Mine] = oval /\ head[Mine] = oval /\ steal_tail[Mine] = NE
    BY <1>1, <1>2, <1>6 DEF Indices, Cursors, MineClosed, Resetting, OwnerKnows, InRange, TypeOK, DequeConstants
  <2>2. Readers(Mine) = {} /\ steal_head[Mine] = 0
    BY <1>1, <1>2, <1>6, <2>1 DEF Cursors, GrantedClosed, NoCommits, Indices, DequeConstants
  <2> QED BY <2>1, <2>2
<1>9. Cursors'
  <2>1. GrantedClosed'
    BY <1>1, <1>2, <1>6, <1>7, <1>8 DEF Cursors, GrantedClosed, TypeOK, Blocks
  <2>2. MineClosed'
    BY <1>1, <1>2, <1>6, <1>7, <1>8 DEF Cursors, MineClosed, Resetting, TypeOK, Blocks
  <2>3. CommitsBounded'
    <3> SUFFICES ASSUME NEW b \in Blocks
                 PROVE  Cardinality(Readers(b)) + steal_head'[b] <= steal_tail'[b]
      BY <1>7 DEF CommitsBounded
    <3>1. Cardinality(Readers(b)) + steal_head[b] <= steal_tail[b]
      BY <1>6 DEF Cursors, CommitsBounded
    <3>2. Cardinality(Readers(b)) \in Nat /\ steal_head[b] \in Nat /\ steal_tail[b] \in 0 .. NE
      BY <1>2, Ranges
    <3>3. steal_head'[b] \in {0, steal_head[b]} /\ steal_tail'[b] \in {NE, steal_tail[b]}
      BY <1>1, <1>2 DEF TypeOK, Blocks
    <3> QED BY <3>1, <3>2, <3>3 DEF DequeConstants
  <2>4. NoCommits'
    BY <1>1, <1>2, <1>6, <1>7, <1>8 DEF Cursors, NoCommits, TypeOK, Blocks
  <2> QED BY <2>1, <2>2, <2>3, <2>4 DEF Cursors
<1>10. OwnerKnows'
  BY <1>1, <1>2, <1>6, <1>7, <1>8, <1>9 DEF OwnerKnows, Resetting, Cursors, MineClosed, GrantedClosed, NoCommits,
     TypeOK, Blocks
<1>11. LastLook'
  BY <1>1, <1>2, <1>5, <1>6 DEF LastLook, Alone, Active
<1>20. /\ Held(Mine) = {oval}
        /\ Held(Mine)' = oval + 1 .. oval - 1
        /\ \A b \in Blocks : b # Mine => Live(b)' = Live(b)
  BY <1>1, <1>2, <1>8 DEF Live, Held, TypeOK, Blocks
<1>12. oval \in Live(Mine)
  BY <1>2, <1>8, <1>20, Ranges DEF Live, Indices, DequeConstants
<1>13. \A b \in Blocks : Live(b)' \subseteq Live(b) /\ (b = Mine => oval \notin Live(b)')
  <2>1. steal_tail'[Mine] = NE /\ \A j \in Held(Mine)' : j \in Held(Mine) /\ j # oval
    BY <1>1, <1>2, <1>8, <1>20 DEF TypeOK
  <2> QED BY <1>2, <1>8, <1>20, <2>1 DEF Live, Indices, DequeConstants
<1> DEFINE i == entries[Mine][oval]
<1>14. Untaken(i) /\ i \in Items
  <2>1. Placed \in Int
    BY <1>1, <1>2 DEF Placed, Pushing, TypeOK
  <2> QED BY <1>2, <1>6, <1>12, <2>1, UntakenIsItem DEF OnePlace
<1>15. \A b \in Blocks : \A j \in Live(b)' : j \in Live(b) /\ entries[b][j] # i
  BY <1>2, <1>6, <1>12, <1>13 DEF OnePlace
<1>16. \A t \in Thieves : Carries(t)' => Carries(t) /\ Carried(t)' = Carried(t) /\ Carried(t) # i
  BY <1>1, <1>2, <1>6, <1>12 DEF OnePlace, Carries, Carried, Fresh, Theirs
<1>17. Placed' = Placed /\ Placed \in Int
  BY <1>1, <1>2 DEF Placed, Pushing, TypeOK
<1> QED
  BY <1>1, <1>2, <1>6, <1>9, <1>10, <1>11, <1>14, <1>15, <1>16, <1>17, PlaceTaken

LEMMA PopLostKeeps ==
  ASSUME DequeConstants, DequeInv, PopClaim, head[Mine] # oval
  PROVE  DequeInv'
<1>1. /\ opc = "claim" /\ opc' = "lost"
      /\ head[Mine] # oval
      /\ UNCHANGED <<head, tail, steal_tail, steal_head, entries, owner_block, thief_block,
                     overflow, oval, tpc, loc, pushed, taken, fell, early, overlap>>
  BY DEF PopClaim, Owner, blocks, cursors, thieves, ghosts
<1>2. /\ Mine \in Blocks /\ Above \in Blocks /\ Above # Mine
      /\ Mine' = Mine /\ Above' = Above /\ Below' = Below
      /\ TypeOK /\ InRange /\ Alone
  BY <1>1, OwnBlocks DEF Mine, Above, Below, DequeInv
<1>3. TypeOK'
  BY <1>1, <1>2 DEF TypeOK, OwnerPC, Blocks
<1>4. InRange'
  BY <1>1, <1>2 DEF InRange, Pushing, TypeOK, Blocks
<1>5. Alone'
  BY <1>1, <1>2, OwnerAlone
<1> SUFFICES ASSUME Undisturbed' PROVE Cursors' /\ OwnerKnows' /\ LastLook' /\ OnePlace'
  BY <1>3, <1>4, <1>5 DEF DequeInv
<1>6. Cursors /\ OwnerKnows /\ LastLook /\ OnePlace
  BY <1>1, <1>2, WasUndisturbed DEF DequeInv
<1>7. \A b \in Blocks : Readers(b)' = Readers(b)
  BY <1>1, ReadersStay
<1>8. FALSE
  BY <1>1, <1>6 DEF OwnerKnows
<1>9. Cursors'
  BY <1>1, <1>2, <1>6, <1>7, <1>8 DEF Cursors, GrantedClosed, MineClosed, CommitsBounded, NoCommits,
     Resetting, TypeOK, Blocks
<1>10. OwnerKnows'
  BY <1>1, <1>2, <1>6, <1>7, <1>8, <1>9 DEF OwnerKnows, Resetting, Cursors, MineClosed, GrantedClosed, NoCommits,
     TypeOK, Blocks
<1>11. LastLook'
  BY <1>1, <1>2, <1>5, <1>6 DEF LastLook, Alone, Active
<1>12. \A b \in Blocks : Live(b)' \subseteq Live(b)
  BY <1>1, <1>2, <1>6, <1>8 DEF Live, Held, TypeOK, Blocks
<1>13. Placed' >= Placed /\ Placed \in Int /\ Placed' \in Int
  BY <1>1, <1>2 DEF Placed, Pushing, TypeOK
<1> QED
  BY <1>1, <1>2, <1>6, <1>9, <1>10, <1>11, <1>12, <1>13, FewerPlaces

-----------------------------------------------------------------------------
(* The thieves' steps                                                       *)

(* A thief that moves alone, as far as the history variable can tell.       *)
LEMMA ThiefAlone ==
  ASSUME Alone, NEW t \in Thieves, Active(t)
  PROVE  overlap = "no" => /\ opc = "idle" /\ \A u \in Thieves \ {t} : ~Active(u)
                           /\ tpc[t] # "bound" => loc[t].ob = owner_block
  BY DEF Alone, Active

(* Of the thieves only t moves.                                             *)
MovesOnly(t) ==
  /\ tpc'[t] \in ThiefPC /\ loc'[t] \in Locals
  /\ tpc' = [tpc EXCEPT ![t] = tpc'[t]] /\ loc' = [loc EXCEPT ![t] = loc'[t]]

(* What every step of a thief leaves, whichever it is.                      *)
LEMMA ThiefBasics ==
  ASSUME DequeConstants, TypeOK, InRange, Alone,
         NEW t \in Thieves, MovesOnly(t),
         UNCHANGED <<tail, entries, owner_block, overflow, opc, oval, pushed, early>>,
         head' \in [Blocks -> 0 .. NE], steal_tail' \in [Blocks -> 0 .. NE], steal_head' \in [Blocks -> Nat],
         thief_block' \in Nat, taken' \in [Items -> Nat],
         fell' = fell \/ fell' = "yes", overlap' = overlap \/ overlap' = "yes",
         tpc'[t] \in {"reserve", "read", "claim", "lift"} => loc'[t].at < NE,
         tpc'[t] \in {"lift", "granted"} => fell' = "yes",
         overlap' = "no" => /\ overlap = "no" /\ opc = "idle" /\ \A u \in Thieves \ {t} : ~Active(u)
                            /\ tpc'[t] \notin {"idle", "bound"} => loc'[t].ob = owner_block
  PROVE  TypeOK' /\ InRange' /\ Alone'
<1>1. TypeOK'
  BY DEF TypeOK, Blocks, MovesOnly
<1>2. \A u \in Thieves : /\ tpc'[u] = IF u = t THEN tpc'[t] ELSE tpc[u]
                         /\ loc'[u] = IF u = t THEN loc'[t] ELSE loc[u]
  BY DEF TypeOK, MovesOnly
<1>3. InRange'
  BY <1>2 DEF InRange, Pushing, Mine
<1>4. Alone'
  BY <1>2 DEF Alone, Active
<1> QED BY <1>1, <1>3, <1>4

(* A thief that writes to no block and takes or gives up no actor.          *)
LEMMA ThiefWanders ==
  ASSUME DequeConstants, DequeInv,
         NEW t \in Thieves, MovesOnly(t),
         UNCHANGED <<head, tail, steal_tail, steal_head, entries, owner_block, overflow, opc, oval, pushed,
                     taken, fell, early>>,
         thief_block' \in Nat, overlap' = overlap \/ overlap' = "yes",
         tpc'[t] \in {"reserve", "read", "claim", "lift"} => loc'[t].at < NE,
         tpc'[t] \in {"lift", "granted"} => fell = "yes",
         overlap' = "no" => /\ overlap = "no" /\ opc = "idle" /\ \A u \in Thieves \ {t} : ~Active(u)
                            /\ tpc'[t] \notin {"idle", "bound"} => loc'[t].ob = owner_block
                            /\ tpc'[t] = "claim" => loc'[t].at < tail[Mine],
         tpc'[t] \in {"read", "commit"} => loc'[t].epoch = loc[t].epoch,
         tpc[t] \in {"read", "commit"} <=> tpc'[t] \in {"read", "commit"},
         Carries(t)' => Carries(t) /\ Carried(t)' = Carried(t)
  PROVE  DequeInv'
<1>1. TypeOK /\ InRange /\ Alone
  BY DEF DequeInv
<1>2. TypeOK' /\ InRange' /\ Alone'
  <2>1. /\ head' \in [Blocks -> 0 .. NE] /\ steal_tail' \in [Blocks -> 0 .. NE]
        /\ steal_head' \in [Blocks -> Nat] /\ taken' \in [Items -> Nat]
    BY <1>1 DEF TypeOK, Blocks
  <2> QED BY <1>1, <2>1, ThiefBasics
<1> SUFFICES ASSUME Undisturbed' PROVE Cursors' /\ OwnerKnows' /\ LastLook' /\ OnePlace'
  BY <1>2 DEF DequeInv
<1>3. Cursors /\ OwnerKnows /\ LastLook /\ OnePlace
  BY <1>1, WasUndisturbed DEF DequeInv
<1>4. \A u \in Thieves : /\ tpc'[u] = IF u = t THEN tpc'[t] ELSE tpc[u]
                         /\ loc'[u] = IF u = t THEN loc'[t] ELSE loc[u]
  BY <1>1 DEF TypeOK, MovesOnly
<1>5. \A b \in Blocks : Readers(b)' = Readers(b)
  BY <1>4 DEF Readers
<1>6. Mine' = Mine /\ Above' = Above /\ Below' = Below
  BY DEF Mine, Above, Below
<1>7. Cursors'
  BY <1>3, <1>5, <1>6 DEF Cursors, GrantedClosed, MineClosed, CommitsBounded, NoCommits, Resetting
<1>8. OwnerKnows'
  BY <1>3, <1>5, <1>6, <1>1, OwnBlocks DEF OwnerKnows, Resetting
<1>9. LastLook'
  BY <1>3, <1>4, <1>6 DEF LastLook, Active
<1>10. \A u \in Thieves : Carries(u)' => Carries(u) /\ Carried(u)' = Carried(u)
  <2> TAKE u \in Thieves
  <2>1. CASE u # t
    BY <1>4, <2>1 DEF Carries, Carried, Fresh, Theirs
  <2> QED BY <2>1
<1>11. \A b \in Blocks : \A j \in Live(b)' : j \in Live(b) /\ entries'[b][j] = entries[b][j]
  BY <1>6 DEF Live, Held
<1>12. Placed' = Placed /\ Placed \in Int
  BY <1>1 DEF Placed, Pushing, TypeOK
<1> QED
  BY <1>1, <1>3, <1>7, <1>8, <1>9, <1>10, <1>11, <1>12, PlacesKept

LEMMA StealCallKeeps ==
  ASSUME DequeConstants, DequeInv, NEW t \in Thieves, StealCall(t)
  PROVE  DequeInv'
<1> DEFINE r == [Unset EXCEPT !.tb = thief_block, !.epoch = thief_block]
<1>1. /\ TypeOK /\ InRange /\ Alone
      /\ loc[t] \in Locals /\ Fresh(t) \in Blocks /\ Theirs(t) \in Blocks
  BY ThiefBlocks DEF DequeInv
<1>2. /\ tpc[t] = "idle" /\ tpc' = [tpc EXCEPT ![t] = "bound"] /\ loc' = [loc EXCEPT ![t] = r]
      /\ UNCHANGED <<head, tail, steal_tail, steal_head, entries, owner_block, overflow, opc, oval, pushed,
                     taken, fell, early>>
      /\ thief_block' = thief_block
      /\ overlap' = IF opc = "idle" /\ \A u \in Thieves : tpc[u] = "idle" THEN overlap ELSE "yes"
  BY DEF StealCall, Thief, ThiefReads, NextEpoch, GiveUp, Sentinel, blocks, owner, ghosts, Begins
<1>3. r \in Locals
  <2>1. Unset \in Locals /\ thief_block \in Nat
    BY <1>1, ZeroAndEnd DEF Unset, Locals, TypeOK, DequeConstants
  <2>2. r \in Locals
    BY <2>1 DEF Locals
  <2> QED BY <2>2
<1>4. tpc'[t] = "bound" /\ loc'[t] = r
  BY <1>1, <1>2 DEF TypeOK
<1>10. MovesOnly(t) /\ thief_block' \in Nat
  BY <1>1, <1>2, <1>3, <1>4 DEF MovesOnly, ThiefPC, TypeOK, Locals
<1>5. overlap' = "no" => /\ overlap = "no" /\ opc = "idle" /\ \A u \in Thieves \ {t} : ~Active(u)
                         /\ tpc'[t] \notin {"idle", "bound"} => loc'[t].ob = owner_block
                         /\ tpc'[t] # "claim"
  BY <1>1, <1>2, <1>4, ThiefAlone DEF Active
<1>8. /\ tpc'[t] \in {"reserve", "read", "claim", "lift"} => loc'[t].at < NE
      /\ tpc'[t] \in {"lift", "granted"} => fell = "yes"
      /\ tpc'[t] \in {"read", "commit"} => loc'[t].epoch = loc[t].epoch
      /\ tpc[t] \in {"read", "commit"} <=> tpc'[t] \in {"read", "commit"}
  BY <1>2, <1>4
<1>9. Carries(t)' => Carries(t) /\ Carried(t)' = Carried(t)
  BY <1>2, <1>4 DEF Carries
<1> QED
  BY <1>1, <1>2, <1>3, <1>4, <1>5, <1>8, <1>9, <1>10, ThiefWanders

LEMMA StealBoundKeeps ==
  ASSUME DequeConstants, DequeInv, NEW t \in Thieves, StealBound(t)
  PROVE  DequeInv'
<1> DEFINE r == [loc[t] EXCEPT !.ob = owner_block]
<1>1. /\ TypeOK /\ InRange /\ Alone
      /\ loc[t] \in Locals /\ Fresh(t) \in Blocks /\ Theirs(t) \in Blocks
  BY ThiefBlocks DEF DequeInv
<1>2. /\ tpc[t] = "bound" /\ tpc' = [tpc EXCEPT ![t] = "scan"] /\ loc' = [loc EXCEPT ![t] = r]
      /\ UNCHANGED <<head, tail, steal_tail, steal_head, entries, owner_block, overflow, opc, oval, pushed,
                     taken, fell, early>>
      /\ thief_block' = thief_block /\ overlap' = overlap
  BY DEF StealBound, Thief, ThiefReads, NextEpoch, GiveUp, Sentinel, blocks, owner, ghosts
<1>3. r \in Locals
  BY <1>1, <1>2 DEF Locals, Unset, TypeOK, Blocks, DequeConstants
<1>4. tpc'[t] = "scan" /\ loc'[t] = r
  BY <1>1, <1>2 DEF TypeOK
<1>10. MovesOnly(t) /\ thief_block' \in Nat
  BY <1>1, <1>2, <1>3, <1>4 DEF MovesOnly, ThiefPC, TypeOK, Locals
<1>5. overlap' = "no" => /\ overlap = "no" /\ opc = "idle" /\ \A u \in Thieves \ {t} : ~Active(u)
                         /\ tpc'[t] \notin {"idle", "bound"} => loc'[t].ob = owner_block
                         /\ tpc'[t] # "claim"
  BY <1>1, <1>2, <1>4, ThiefAlone DEF Active, Locals
<1>8. /\ tpc'[t] \in {"reserve", "read", "claim", "lift"} => loc'[t].at < NE
      /\ tpc'[t] \in {"lift", "granted"} => fell = "yes"
      /\ tpc'[t] \in {"read", "commit"} => loc'[t].epoch = loc[t].epoch
      /\ tpc[t] \in {"read", "commit"} <=> tpc'[t] \in {"read", "commit"}
  BY <1>2, <1>4
<1>9. Carries(t)' => Carries(t) /\ Carried(t)' = Carried(t)
  BY <1>2, <1>4 DEF Carries
<1> QED
  BY <1>1, <1>2, <1>3, <1>4, <1>5, <1>8, <1>9, <1>10, ThiefWanders

LEMMA ScanPastKeeps ==
  ASSUME DequeConstants, DequeInv, NEW t \in Thieves, tpc[t] \in {"scan", "end", "reserve"}, NextEpoch(t)
  PROVE  DequeInv'
<1> DEFINE r == [loc[t] EXCEPT !.epoch = @ + 1]
<1>1. /\ TypeOK /\ InRange /\ Alone
      /\ loc[t] \in Locals /\ Fresh(t) \in Blocks /\ Theirs(t) \in Blocks
  BY ThiefBlocks DEF DequeInv
<1>0. loc[t].epoch + 1 \in Nat
  BY <1>1 DEF Locals
<1>2. /\ tpc[t] \in {"scan", "end", "reserve"} /\ tpc' = [tpc EXCEPT ![t] = "scan"] /\ loc' = [loc EXCEPT ![t] = r]
      /\ UNCHANGED <<head, tail, steal_tail, steal_head, entries, owner_block, overflow, opc, oval, pushed,
                     taken, fell, early>>
      /\ thief_block' = thief_block /\ overlap' = overlap
  BY DEF NextEpoch, Thief, ThiefReads, NextEpoch, GiveUp, Sentinel, blocks, owner, ghosts
<1>3. r \in Locals
  BY <1>1, <1>2, <1>0 DEF Locals, Unset, TypeOK, Blocks, DequeConstants
<1>4. tpc'[t] = "scan" /\ loc'[t] = r
  BY <1>1, <1>2 DEF TypeOK
<1>10. MovesOnly(t) /\ thief_block' \in Nat
  BY <1>1, <1>2, <1>3, <1>4 DEF MovesOnly, ThiefPC, TypeOK, Locals
<1>5. overlap' = "no" => /\ overlap = "no" /\ opc = "idle" /\ \A u \in Thieves \ {t} : ~Active(u)
                         /\ tpc'[t] \notin {"idle", "bound"} => loc'[t].ob = owner_block
                         /\ tpc'[t] # "claim"
  BY <1>1, <1>2, <1>4, ThiefAlone DEF Active, Locals
<1>8. /\ tpc'[t] \in {"reserve", "read", "claim", "lift"} => loc'[t].at < NE
      /\ tpc'[t] \in {"lift", "granted"} => fell = "yes"
      /\ tpc'[t] \in {"read", "commit"} => loc'[t].epoch = loc[t].epoch
      /\ tpc[t] \in {"read", "commit"} <=> tpc'[t] \in {"read", "commit"}
  BY <1>2, <1>4
<1>9. Carries(t)' => Carries(t) /\ Carried(t)' = Carried(t)
  BY <1>2, <1>4 DEF Carries
<1> QED
  BY <1>1, <1>2, <1>3, <1>4, <1>5, <1>8, <1>9, <1>10, ThiefWanders

LEMMA ScanBlockKeeps ==
  ASSUME DequeConstants, DequeInv, NEW t \in Thieves, ScanCursor(t), steal_tail[Fresh(t)] # NE
  PROVE  DequeInv'
<1> DEFINE r == [loc[t] EXCEPT !.at = steal_tail[Fresh(t)]]
<1>1. /\ TypeOK /\ InRange /\ Alone
      /\ loc[t] \in Locals /\ Fresh(t) \in Blocks /\ Theirs(t) \in Blocks
  BY ThiefBlocks DEF DequeInv
<1>2. /\ tpc[t] = "scan" /\ tpc' = [tpc EXCEPT ![t] = "end"] /\ loc' = [loc EXCEPT ![t] = r]
      /\ UNCHANGED <<head, tail, steal_tail, steal_head, entries, owner_block, overflow, opc, oval, pushed,
                     taken, fell, early>>
      /\ thief_block' = thief_block /\ overlap' = overlap
  BY DEF ScanCursor, Thief, ThiefReads, NextEpoch, GiveUp, Sentinel, blocks, owner, ghosts
<1>3. r \in Locals
  BY <1>1, <1>2, Ranges DEF Locals, Unset, TypeOK, Blocks, DequeConstants
<1>4. tpc'[t] = "end" /\ loc'[t] = r
  BY <1>1, <1>2 DEF TypeOK
<1>10. MovesOnly(t) /\ thief_block' \in Nat
  BY <1>1, <1>2, <1>3, <1>4 DEF MovesOnly, ThiefPC, TypeOK, Locals
<1>5. overlap' = "no" => /\ overlap = "no" /\ opc = "idle" /\ \A u \in Thieves \ {t} : ~Active(u)
                         /\ tpc'[t] \notin {"idle", "bound"} => loc'[t].ob = owner_block
                         /\ tpc'[t] # "claim"
  BY <1>1, <1>2, <1>4, ThiefAlone DEF Active, Locals
<1>8. /\ tpc'[t] \in {"reserve", "read", "claim", "lift"} => loc'[t].at < NE
      /\ tpc'[t] \in {"lift", "granted"} => fell = "yes"
      /\ tpc'[t] \in {"read", "commit"} => loc'[t].epoch = loc[t].epoch
      /\ tpc[t] \in {"read", "commit"} <=> tpc'[t] \in {"read", "commit"}
  BY <1>2, <1>4
<1>9. Carries(t)' => Carries(t) /\ Carried(t)' = Carried(t)
  BY <1>2, <1>4 DEF Carries
<1> QED
  BY <1>1, <1>2, <1>3, <1>4, <1>5, <1>8, <1>9, <1>10, ThiefWanders

LEMMA ScanToReserveKeeps ==
  ASSUME DequeConstants, DequeInv, NEW t \in Thieves, ScanEnd(t), ~(loc[t].at >= tail[Fresh(t)])
  PROVE  DequeInv'
<1> DEFINE r == [loc[t] EXCEPT !.end = tail[Fresh(t)]]
<1>1. /\ TypeOK /\ InRange /\ Alone
      /\ loc[t] \in Locals /\ Fresh(t) \in Blocks /\ Theirs(t) \in Blocks
  BY ThiefBlocks DEF DequeInv
<1>2. /\ tpc[t] = "end" /\ tpc' = [tpc EXCEPT ![t] = "reserve"] /\ loc' = [loc EXCEPT ![t] = r]
      /\ UNCHANGED <<head, tail, steal_tail, steal_head, entries, owner_block, overflow, opc, oval, pushed,
                     taken, fell, early>>
      /\ thief_block' = thief_block /\ overlap' = overlap /\ ~(loc[t].at >= tail[Fresh(t)])
  BY DEF ScanEnd, Thief, ThiefReads, NextEpoch, GiveUp, Sentinel, blocks, owner, ghosts
<1>3. r \in Locals
  BY <1>1, <1>2, Ranges DEF Locals, Unset, TypeOK, Blocks, DequeConstants
<1>4. tpc'[t] = "reserve" /\ loc'[t] = r
  BY <1>1, <1>2 DEF TypeOK
<1>10. MovesOnly(t) /\ thief_block' \in Nat
  BY <1>1, <1>2, <1>3, <1>4 DEF MovesOnly, ThiefPC, TypeOK, Locals
<1>5. overlap' = "no" => /\ overlap = "no" /\ opc = "idle" /\ \A u \in Thieves \ {t} : ~Active(u)
                         /\ tpc'[t] \notin {"idle", "bound"} => loc'[t].ob = owner_block
                         /\ tpc'[t] # "claim"
  BY <1>1, <1>2, <1>4, ThiefAlone DEF Active, Locals
<1>6. loc'[t].at < NE
  BY <1>1, <1>2, Ranges DEF Locals, DequeConstants
<1>8. /\ tpc'[t] \in {"reserve", "read", "claim", "lift"} => loc'[t].at < NE
      /\ tpc'[t] \in {"lift", "granted"} => fell = "yes"
      /\ tpc'[t] \in {"read", "commit"} => loc'[t].epoch = loc[t].epoch
      /\ tpc[t] \in {"read", "commit"} <=> tpc'[t] \in {"read", "commit"}
  BY <1>2, <1>4, <1>6
<1>9. Carries(t)' => Carries(t) /\ Carried(t)' = Carried(t)
  BY <1>2, <1>4 DEF Carries
<1> QED
  BY <1>1, <1>2, <1>3, <1>4, <1>5, <1>8, <1>9, <1>10, <1>6, ThiefWanders

LEMMA GiveUpKeeps ==
  ASSUME DequeConstants, DequeInv, NEW t \in Thieves, tpc[t] \in {"scan", "bottom", "top", "claim"}, GiveUp(t)
  PROVE  DequeInv'
<1> DEFINE r == Unset
<1>1. /\ TypeOK /\ InRange /\ Alone
      /\ loc[t] \in Locals /\ Fresh(t) \in Blocks /\ Theirs(t) \in Blocks
  BY ThiefBlocks DEF DequeInv
<1>2. /\ tpc[t] \in {"scan", "bottom", "top", "claim"} /\ tpc' = [tpc EXCEPT ![t] = "idle"] /\ loc' = [loc EXCEPT ![t] = r]
      /\ UNCHANGED <<head, tail, steal_tail, steal_head, entries, owner_block, overflow, opc, oval, pushed,
                     taken, fell, early>>
      /\ thief_block' = thief_block /\ overlap' = overlap
  BY DEF GiveUp, Thief, ThiefReads, NextEpoch, GiveUp, Sentinel, blocks, owner, ghosts
<1>3. r \in Locals
  BY <1>1, <1>2 DEF Locals, Unset, TypeOK, Blocks, DequeConstants
<1>4. tpc'[t] = "idle" /\ loc'[t] = r
  BY <1>1, <1>2 DEF TypeOK
<1>10. MovesOnly(t) /\ thief_block' \in Nat
  BY <1>1, <1>2, <1>3, <1>4 DEF MovesOnly, ThiefPC, TypeOK, Locals
<1>5. overlap' = "no" => /\ overlap = "no" /\ opc = "idle" /\ \A u \in Thieves \ {t} : ~Active(u)
                         /\ tpc'[t] \notin {"idle", "bound"} => loc'[t].ob = owner_block
                         /\ tpc'[t] # "claim"
  BY <1>1, <1>2, <1>4, ThiefAlone DEF Active
<1>8. /\ tpc'[t] \in {"reserve", "read", "claim", "lift"} => loc'[t].at < NE
      /\ tpc'[t] \in {"lift", "granted"} => fell = "yes"
      /\ tpc'[t] \in {"read", "commit"} => loc'[t].epoch = loc[t].epoch
      /\ tpc[t] \in {"read", "commit"} <=> tpc'[t] \in {"read", "commit"}
  BY <1>2, <1>4
<1>9. Carries(t)' => Carries(t) /\ Carried(t)' = Carried(t)
  BY <1>2, <1>4 DEF Carries
<1> QED
  BY <1>1, <1>2, <1>3, <1>4, <1>5, <1>8, <1>9, <1>10, ThiefWanders

LEMMA ReadReservedKeeps ==
  ASSUME DequeConstants, DequeInv, NEW t \in Thieves, ReadReserved(t)
  PROVE  DequeInv'
<1> DEFINE r == [loc[t] EXCEPT !.got = entries[Fresh(t)][loc[t].at]]
<1>1. /\ TypeOK /\ InRange /\ Alone
      /\ loc[t] \in Locals /\ Fresh(t) \in Blocks /\ Theirs(t) \in Blocks
  BY ThiefBlocks DEF DequeInv
<1>0. entries[Fresh(t)][loc[t].at] \in 0 .. MaxPush
  <2>1. loc[t].at \in 0 .. NE - 1
    BY <1>1 DEF ReadReserved, InRange, Locals, DequeConstants
  <2> QED BY <1>1, <2>1 DEF TypeOK, Blocks
<1>2. /\ tpc[t] = "read" /\ tpc' = [tpc EXCEPT ![t] = "commit"] /\ loc' = [loc EXCEPT ![t] = r]
      /\ UNCHANGED <<head, tail, steal_tail, steal_head, entries, owner_block, overflow, opc, oval, pushed,
                     taken, fell, early>>
      /\ thief_block' = thief_block /\ overlap' = overlap
  BY DEF ReadReserved, Thief, ThiefReads, NextEpoch, GiveUp, Sentinel, blocks, owner, ghosts
<1>3. r \in Locals
  BY <1>1, <1>2, <1>0 DEF Locals, Unset, TypeOK, Blocks, DequeConstants
<1>4. tpc'[t] = "commit" /\ loc'[t] = r
  BY <1>1, <1>2 DEF TypeOK
<1>10. MovesOnly(t) /\ thief_block' \in Nat
  BY <1>1, <1>2, <1>3, <1>4 DEF MovesOnly, ThiefPC, TypeOK, Locals
<1>5. overlap' = "no" => /\ overlap = "no" /\ opc = "idle" /\ \A u \in Thieves \ {t} : ~Active(u)
                         /\ tpc'[t] \notin {"idle", "bound"} => loc'[t].ob = owner_block
                         /\ tpc'[t] # "claim"
  BY <1>1, <1>2, <1>4, ThiefAlone DEF Active, Locals
<1>6. r.epoch = loc[t].epoch /\ r.got = entries[Fresh(t)][loc[t].at]
  BY <1>1 DEF Locals
<1>7. Carries(t) /\ Carried(t)' = Carried(t)
  BY <1>2, <1>4, <1>6 DEF Carries, Carried
<1>8. /\ tpc'[t] \in {"reserve", "read", "claim", "lift"} => loc'[t].at < NE
      /\ tpc'[t] \in {"lift", "granted"} => fell = "yes"
      /\ tpc'[t] \in {"read", "commit"} => loc'[t].epoch = loc[t].epoch
      /\ tpc[t] \in {"read", "commit"} <=> tpc'[t] \in {"read", "commit"}
  BY <1>2, <1>4, <1>6
<1>9. Carries(t)' => Carries(t) /\ Carried(t)' = Carried(t)
  BY <1>2, <1>4, <1>7 DEF Carries
<1> QED
  BY <1>1, <1>2, <1>3, <1>4, <1>5, <1>8, <1>9, <1>10, <1>6, <1>7, ThiefWanders

LEMMA AdvanceThievesKeeps ==
  ASSUME DequeConstants, DequeInv, NEW t \in Thieves, AdvanceThieves(t)
  PROVE  DequeInv'
<1> DEFINE r == loc[t]
<1>1. /\ TypeOK /\ InRange /\ Alone
      /\ loc[t] \in Locals /\ Fresh(t) \in Blocks /\ Theirs(t) \in Blocks
  BY ThiefBlocks DEF DequeInv
<1>2. /\ tpc[t] = "advance" /\ tpc' = [tpc EXCEPT ![t] = "return"] /\ loc' = [loc EXCEPT ![t] = r]
      /\ UNCHANGED <<head, tail, steal_tail, steal_head, entries, owner_block, overflow, opc, oval, pushed,
                     taken, fell, early>>
      /\ overlap' = overlap /\ thief_block' = IF thief_block = loc[t].tb THEN loc[t].epoch + 1 ELSE thief_block
  BY DEF AdvanceThieves, Thief, ThiefReads, NextEpoch, GiveUp, Sentinel, blocks, owner, ghosts
<1>3. r \in Locals
  BY <1>1, <1>2 DEF Locals, Unset, TypeOK, Blocks, DequeConstants
<1>4. tpc'[t] = "return" /\ loc'[t] = r
  BY <1>1, <1>2 DEF TypeOK
<1>10. MovesOnly(t) /\ thief_block' \in Nat
  BY <1>1, <1>2, <1>3, <1>4 DEF MovesOnly, ThiefPC, TypeOK, Locals
<1>5. overlap' = "no" => /\ overlap = "no" /\ opc = "idle" /\ \A u \in Thieves \ {t} : ~Active(u)
                         /\ tpc'[t] \notin {"idle", "bound"} => loc'[t].ob = owner_block
                         /\ tpc'[t] # "claim"
  BY <1>1, <1>2, <1>4, ThiefAlone DEF Active
<1>7. Carries(t) /\ Carried(t)' = Carried(t)
  BY <1>2, <1>4 DEF Carries, Carried
<1>8. /\ tpc'[t] \in {"reserve", "read", "claim", "lift"} => loc'[t].at < NE
      /\ tpc'[t] \in {"lift", "granted"} => fell = "yes"
      /\ tpc'[t] \in {"read", "commit"} => loc'[t].epoch = loc[t].epoch
      /\ tpc[t] \in {"read", "commit"} <=> tpc'[t] \in {"read", "commit"}
  BY <1>2, <1>4
<1>9. Carries(t)' => Carries(t) /\ Carried(t)' = Carried(t)
  BY <1>2, <1>4, <1>7 DEF Carries
<1> QED
  BY <1>1, <1>2, <1>3, <1>4, <1>5, <1>8, <1>9, <1>10, <1>7, ThiefWanders

LEMMA FallbackStartKeeps ==
  ASSUME DequeConstants, DequeInv, NEW t \in Thieves, Fallback(t), steal_tail[Theirs(t)] = NE
  PROVE  DequeInv'
<1> DEFINE r == loc[t]
<1>1. /\ TypeOK /\ InRange /\ Alone
      /\ loc[t] \in Locals /\ Fresh(t) \in Blocks /\ Theirs(t) \in Blocks
  BY ThiefBlocks DEF DequeInv
<1>2. /\ tpc[t] = "scan" /\ tpc' = [tpc EXCEPT ![t] = "bottom"] /\ loc' = [loc EXCEPT ![t] = r]
      /\ UNCHANGED <<head, tail, steal_tail, steal_head, entries, owner_block, overflow, opc, oval, pushed,
                     taken, fell, early>>
      /\ thief_block' = thief_block /\ overlap' = overlap
  BY DEF Fallback, Thief, ThiefReads, NextEpoch, GiveUp, Sentinel, blocks, owner, ghosts
<1>3. r \in Locals
  BY <1>1, <1>2 DEF Locals, Unset, TypeOK, Blocks, DequeConstants
<1>4. tpc'[t] = "bottom" /\ loc'[t] = r
  BY <1>1, <1>2 DEF TypeOK
<1>10. MovesOnly(t) /\ thief_block' \in Nat
  BY <1>1, <1>2, <1>3, <1>4 DEF MovesOnly, ThiefPC, TypeOK, Locals
<1>5. overlap' = "no" => /\ overlap = "no" /\ opc = "idle" /\ \A u \in Thieves \ {t} : ~Active(u)
                         /\ tpc'[t] \notin {"idle", "bound"} => loc'[t].ob = owner_block
                         /\ tpc'[t] # "claim"
  BY <1>1, <1>2, <1>4, ThiefAlone DEF Active
<1>8. /\ tpc'[t] \in {"reserve", "read", "claim", "lift"} => loc'[t].at < NE
      /\ tpc'[t] \in {"lift", "granted"} => fell = "yes"
      /\ tpc'[t] \in {"read", "commit"} => loc'[t].epoch = loc[t].epoch
      /\ tpc[t] \in {"read", "commit"} <=> tpc'[t] \in {"read", "commit"}
  BY <1>2, <1>4
<1>9. Carries(t)' => Carries(t) /\ Carried(t)' = Carried(t)
  BY <1>2, <1>4 DEF Carries
<1> QED
  BY <1>1, <1>2, <1>3, <1>4, <1>5, <1>8, <1>9, <1>10, ThiefWanders

LEMMA FallbackHeadKeeps ==
  ASSUME DequeConstants, DequeInv, NEW t \in Thieves, FallbackHead(t)
  PROVE  DequeInv'
<1> DEFINE r == [loc[t] EXCEPT !.at = head[Theirs(t)]]
<1>1. /\ TypeOK /\ InRange /\ Alone
      /\ loc[t] \in Locals /\ Fresh(t) \in Blocks /\ Theirs(t) \in Blocks
  BY ThiefBlocks DEF DequeInv
<1>2. /\ tpc[t] = "bottom" /\ tpc' = [tpc EXCEPT ![t] = "top"] /\ loc' = [loc EXCEPT ![t] = r]
      /\ UNCHANGED <<head, tail, steal_tail, steal_head, entries, owner_block, overflow, opc, oval, pushed,
                     taken, fell, early>>
      /\ thief_block' = thief_block /\ overlap' = overlap
  BY DEF FallbackHead, Thief, ThiefReads, NextEpoch, GiveUp, Sentinel, blocks, owner, ghosts
<1>3. r \in Locals
  BY <1>1, <1>2, Ranges DEF Locals, Unset, TypeOK, Blocks, DequeConstants
<1>4. tpc'[t] = "top" /\ loc'[t] = r
  BY <1>1, <1>2 DEF TypeOK
<1>10. MovesOnly(t) /\ thief_block' \in Nat
  BY <1>1, <1>2, <1>3, <1>4 DEF MovesOnly, ThiefPC, TypeOK, Locals
<1>5. overlap' = "no" => /\ overlap = "no" /\ opc = "idle" /\ \A u \in Thieves \ {t} : ~Active(u)
                         /\ tpc'[t] \notin {"idle", "bound"} => loc'[t].ob = owner_block
                         /\ tpc'[t] # "claim"
  BY <1>1, <1>2, <1>4, ThiefAlone DEF Active, Locals
<1>8. /\ tpc'[t] \in {"reserve", "read", "claim", "lift"} => loc'[t].at < NE
      /\ tpc'[t] \in {"lift", "granted"} => fell = "yes"
      /\ tpc'[t] \in {"read", "commit"} => loc'[t].epoch = loc[t].epoch
      /\ tpc[t] \in {"read", "commit"} <=> tpc'[t] \in {"read", "commit"}
  BY <1>2, <1>4
<1>9. Carries(t)' => Carries(t) /\ Carried(t)' = Carried(t)
  BY <1>2, <1>4 DEF Carries
<1> QED
  BY <1>1, <1>2, <1>3, <1>4, <1>5, <1>8, <1>9, <1>10, ThiefWanders

LEMMA FallbackLookKeeps ==
  ASSUME DequeConstants, DequeInv, NEW t \in Thieves, FallbackTail(t), ~(loc[t].at >= tail[Theirs(t)])
  PROVE  DequeInv'
<1> DEFINE r == loc[t]
<1>1. /\ TypeOK /\ InRange /\ Alone
      /\ loc[t] \in Locals /\ Fresh(t) \in Blocks /\ Theirs(t) \in Blocks
  BY ThiefBlocks DEF DequeInv
<1>2. /\ tpc[t] = "top" /\ tpc' = [tpc EXCEPT ![t] = "claim"] /\ loc' = [loc EXCEPT ![t] = r]
      /\ UNCHANGED <<head, tail, steal_tail, steal_head, entries, owner_block, overflow, opc, oval, pushed,
                     taken, fell, early>>
      /\ thief_block' = thief_block /\ overlap' = overlap /\ ~(loc[t].at >= tail[Theirs(t)])
  BY DEF FallbackTail, Thief, ThiefReads, NextEpoch, GiveUp, Sentinel, blocks, owner, ghosts
<1>3. r \in Locals
  BY <1>1, <1>2 DEF Locals, Unset, TypeOK, Blocks, DequeConstants
<1>4. tpc'[t] = "claim" /\ loc'[t] = r
  BY <1>1, <1>2 DEF TypeOK
<1>10. MovesOnly(t) /\ thief_block' \in Nat
  BY <1>1, <1>2, <1>3, <1>4 DEF MovesOnly, ThiefPC, TypeOK, Locals
<1>5. overlap' = "no" => /\ overlap = "no" /\ opc = "idle" /\ \A u \in Thieves \ {t} : ~Active(u)
                         /\ tpc'[t] \notin {"idle", "bound"} => loc'[t].ob = owner_block
                         /\ tpc'[t] = "claim" => loc'[t].at < tail[Mine]
  BY <1>1, <1>2, <1>4, ThiefAlone, Ranges DEF Active, Theirs, Mine, Locals, DequeConstants
<1>6. loc'[t].at < NE
  BY <1>1, <1>2, Ranges DEF Locals, DequeConstants
<1>8. /\ tpc'[t] \in {"reserve", "read", "claim", "lift"} => loc'[t].at < NE
      /\ tpc'[t] \in {"lift", "granted"} => fell = "yes"
      /\ tpc'[t] \in {"read", "commit"} => loc'[t].epoch = loc[t].epoch
      /\ tpc[t] \in {"read", "commit"} <=> tpc'[t] \in {"read", "commit"}
  BY <1>2, <1>4, <1>6
<1>9. Carries(t)' => Carries(t) /\ Carried(t)' = Carried(t)
  BY <1>2, <1>4 DEF Carries
<1> QED
  BY <1>1, <1>2, <1>3, <1>4, <1>5, <1>8, <1>9, <1>10, <1>6, ThiefWanders

LEMMA FallbackReadKeeps ==
  ASSUME DequeConstants, DequeInv, NEW t \in Thieves, FallbackRead(t)
  PROVE  DequeInv'
<1> DEFINE r == [loc[t] EXCEPT !.got = entries[Theirs(t)][loc[t].at]]
<1>1. /\ TypeOK /\ InRange /\ Alone
      /\ loc[t] \in Locals /\ Fresh(t) \in Blocks /\ Theirs(t) \in Blocks
  BY ThiefBlocks DEF DequeInv
<1>0. entries[Theirs(t)][loc[t].at] \in 0 .. MaxPush
  <2>1. loc[t].at \in 0 .. NE - 1
    BY <1>1 DEF FallbackRead, InRange, Locals, DequeConstants
  <2> QED BY <1>1, <2>1 DEF TypeOK, Blocks
<1>2. /\ tpc[t] = "lift" /\ tpc' = [tpc EXCEPT ![t] = "granted"] /\ loc' = [loc EXCEPT ![t] = r]
      /\ UNCHANGED <<head, tail, steal_tail, steal_head, entries, owner_block, overflow, opc, oval, pushed,
                     taken, fell, early>>
      /\ thief_block' = thief_block /\ overlap' = overlap
  BY DEF FallbackRead, Thief, ThiefReads, NextEpoch, GiveUp, Sentinel, blocks, owner, ghosts
<1>3. r \in Locals
  BY <1>1, <1>2, <1>0 DEF Locals, Unset, TypeOK, Blocks, DequeConstants
<1>4. tpc'[t] = "granted" /\ loc'[t] = r
  BY <1>1, <1>2 DEF TypeOK
<1>10. MovesOnly(t) /\ thief_block' \in Nat
  BY <1>1, <1>2, <1>3, <1>4 DEF MovesOnly, ThiefPC, TypeOK, Locals
<1>5. overlap' = "no" => /\ overlap = "no" /\ opc = "idle" /\ \A u \in Thieves \ {t} : ~Active(u)
                         /\ tpc'[t] \notin {"idle", "bound"} => loc'[t].ob = owner_block
                         /\ tpc'[t] # "claim"
  BY <1>1, <1>2, <1>4, ThiefAlone DEF Active, Locals
<1>6. fell = "yes" /\ r.got = entries[Theirs(t)][loc[t].at]
  BY <1>1, <1>2 DEF Locals, Alone
<1>7. Carries(t) /\ Carried(t)' = Carried(t)
  BY <1>2, <1>4, <1>6 DEF Carries, Carried
<1>8. /\ tpc'[t] \in {"reserve", "read", "claim", "lift"} => loc'[t].at < NE
      /\ tpc'[t] \in {"lift", "granted"} => fell = "yes"
      /\ tpc'[t] \in {"read", "commit"} => loc'[t].epoch = loc[t].epoch
      /\ tpc[t] \in {"read", "commit"} <=> tpc'[t] \in {"read", "commit"}
  BY <1>2, <1>4, <1>6
<1>9. Carries(t)' => Carries(t) /\ Carried(t)' = Carried(t)
  BY <1>2, <1>4, <1>7 DEF Carries
<1> QED
  BY <1>1, <1>2, <1>3, <1>4, <1>5, <1>8, <1>9, <1>10, <1>6, <1>7, ThiefWanders

LEMMA ReserveKeeps ==
  ASSUME DequeConstants, DequeInv, NEW t \in Thieves, Reserve(t), steal_tail[Fresh(t)] = loc[t].at
  PROVE  DequeInv'
<1>1. /\ TypeOK /\ InRange /\ Alone /\ loc[t] \in Locals /\ Fresh(t) \in Blocks
  BY ThiefBlocks DEF DequeInv
<1>b. PICK b \in Blocks : b = Fresh(t)
  BY <1>1
<1>j. PICK j : j = loc[t].at
  OBVIOUS
<1>2. /\ tpc[t] = "reserve" /\ tpc' = [tpc EXCEPT ![t] = "read"] /\ loc' = [loc EXCEPT ![t] = loc[t]]
      /\ steal_tail' = [steal_tail EXCEPT ![b] = j + 1] /\ steal_tail[b] = j
      /\ UNCHANGED <<head, tail, steal_head, entries, owner_block, thief_block, overflow, opc, oval, pushed,
                     taken, fell, early, overlap>>
  BY <1>b, <1>j DEF Reserve, Thief, StoreStealTail, Put, owner, ghosts
<1>3. j \in Indices
  BY <1>1, <1>2, <1>j DEF InRange, Locals, Indices, DequeConstants
<1>4. /\ \A u \in Thieves : tpc'[u] = IF u = t THEN "read" ELSE tpc[u]
      /\ loc' = loc /\ MovesOnly(t)
  BY <1>1, <1>2 DEF TypeOK, MovesOnly, ThiefPC
<1>5. TypeOK' /\ InRange' /\ Alone'
  <2>1. j + 1 \in 0 .. NE
    BY <1>3 DEF Indices, DequeConstants
  <2>2. steal_tail' \in [Blocks -> 0 .. NE]
    BY <1>1, <1>2, <2>1 DEF TypeOK, Blocks
  <2>3. /\ head' \in [Blocks -> 0 .. NE] /\ steal_head' \in [Blocks -> Nat] /\ thief_block' \in Nat
        /\ taken' \in [Items -> Nat]
    BY <1>1, <1>2 DEF TypeOK, Blocks
  <2>4. overlap' = "no" => /\ overlap = "no" /\ opc = "idle" /\ \A u \in Thieves \ {t} : ~Active(u)
                           /\ loc'[t].ob = owner_block
    BY <1>1, <1>2, <1>4, ThiefAlone DEF Active
  <2>5. tpc'[t] = "read" /\ loc'[t].at < NE
    BY <1>3, <1>4, <1>j DEF Indices, DequeConstants
  <2> QED BY <1>1, <1>2, <1>4, <2>2, <2>3, <2>4, <2>5, ThiefBasics
<1> SUFFICES ASSUME Undisturbed' PROVE Cursors' /\ OwnerKnows' /\ LastLook' /\ OnePlace'
  BY <1>5 DEF DequeInv
<1>6. Cursors /\ OwnerKnows /\ LastLook /\ OnePlace
  BY <1>1, <1>2, WasUndisturbed DEF DequeInv
<1>7. /\ steal_tail[b] # NE /\ head[b] = NE /\ tail[b] = NE
      /\ opc \notin {"reclaim", "drain"} /\ ~Resetting => b # Mine
      /\ Resetting => b # Above
      /\ opc \in {"settle", "settled"} => b # Below
  BY <1>1, <1>2, <1>3, <1>6 DEF Cursors, GrantedClosed, MineClosed, OwnerKnows, Indices, DequeConstants
<1>8. Mine' = Mine /\ Above' = Above /\ Below' = Below
  BY <1>2 DEF Mine, Above, Below
<1>9. /\ Readers(b)' = Readers(b) \cup {t} /\ t \notin Readers(b)
      /\ \A c \in Blocks : c # b => Readers(c)' = Readers(c)
  <2>1. \A c \in Blocks : \A u \in Thieves : u \in Readers(c)' <=> u \in Readers(c) \/ (u = t /\ c = b)
    BY <1>2, <1>4, <1>b DEF Readers, Fresh
  <2>2. \A c \in Blocks : Readers(c)' \subseteq Thieves /\ Readers(c) \subseteq Thieves
    BY DEF Readers
  <2>3. t \notin Readers(b)
    BY <1>2 DEF Readers
  <2> QED BY <2>1, <2>2, <2>3
<1>10. Cursors'
  <2>1. GrantedClosed' /\ MineClosed' /\ NoCommits'
    BY <1>1, <1>2, <1>6, <1>7, <1>8, <1>9 DEF Cursors, GrantedClosed, MineClosed, NoCommits, Resetting, TypeOK, Blocks
  <2>2. CommitsBounded'
    <3> SUFFICES ASSUME NEW c \in Blocks
                 PROVE  Cardinality(Readers(c)') + steal_head[c] <= steal_tail'[c]
      BY <1>2 DEF CommitsBounded
    <3>1. /\ Cardinality(Readers(c)) + steal_head[c] <= steal_tail[c]
          /\ Cardinality(Readers(c)) \in Nat /\ steal_head[c] \in Nat /\ steal_tail[c] \in 0 .. NE
      BY <1>1, <1>6, Ranges DEF Cursors, CommitsBounded
    <3>2. CASE c # b
      BY <1>1, <1>2, <1>9, <3>1, <3>2 DEF TypeOK, Blocks
    <3>3. CASE c = b
      <4>1. IsFiniteSet(Readers(b))
        BY FS_Subset DEF DequeConstants, Readers
      <4>2. Cardinality(Readers(b) \cup {t}) = Cardinality(Readers(b)) + 1
        BY <1>9, <4>1, FS_AddElement
      <4>3. steal_tail'[b] = steal_tail[b] + 1
        BY <1>1, <1>2 DEF TypeOK, Blocks
      <4>4. Readers(c)' = Readers(b) \cup {t}
        BY <1>9, <3>3
      <4> QED BY <3>1, <3>3, <4>2, <4>3, <4>4
    <3> QED BY <3>2, <3>3
  <2> QED BY <2>1, <2>2 DEF Cursors
<1>11. OwnerKnows'
  <2>1. /\ opc = "open" => Readers(Mine)' = Readers(Mine)
        /\ opc \in {"settle", "settled"} => /\ Readers(Below)' = Readers(Below)
                                            /\ steal_tail'[Below] = steal_tail[Below]
        /\ Resetting => steal_tail'[Above] = steal_tail[Above]
    BY <1>1, <1>2, <1>7, <1>8, <1>9, OwnBlocks DEF Resetting, TypeOK, Blocks
  <2> QED BY <1>2, <1>6, <1>8, <2>1 DEF OwnerKnows, Resetting
<1>12. LastLook'
  BY <1>2, <1>4, <1>6, <1>8 DEF LastLook
<1>13. Held(b) = {} /\ \A c \in Blocks : Held(c)' = Held(c)
  <2>1. Held(b) = head[b] .. tail[b] - 1
    BY <1>7 DEF Held, Resetting
  <2>2. head[b] .. tail[b] - 1 = {}
    BY <1>7 DEF DequeConstants
  <2>3. \A c \in Blocks : Held(c)' = Held(c)
    BY <1>2, <1>8 DEF Held
  <2> QED BY <2>1, <2>2, <2>3
<1>14. j \in Live(b) /\ j \notin Live(b)' /\ \A c \in Blocks : Live(c)' \subseteq Live(c)
  <2>1. j \in Live(b) /\ Live(b) = j .. NE - 1
    BY <1>2, <1>3, <1>13 DEF Live, Indices, DequeConstants
  <2>2. \A c \in Blocks : c # b => Live(c)' = Live(c)
    BY <1>1, <1>2, <1>13 DEF Live, TypeOK, Blocks
  <2>3. \A c \in Blocks : c = b => Live(c)' = j + 1 .. NE - 1
    BY <1>1, <1>2, <1>13 DEF Live, TypeOK, Blocks
  <2>4. j \notin j + 1 .. NE - 1 /\ j + 1 .. NE - 1 \subseteq j .. NE - 1
    BY <1>3 DEF Indices
  <2> QED BY <2>1, <2>2, <2>3, <2>4
<1>15. ~Carries(t) /\ Carried(t)' = entries[b][j]
  BY <1>2, <1>4, <1>b, <1>j DEF Carries, Carried, Fresh
<1>16. \A u \in Thieves \ {t} : Carries(u)' => Carries(u) /\ Carried(u)' = Carried(u)
  BY <1>2, <1>4 DEF Carries, Carried, Fresh, Theirs
<1>17. Placed' = Placed
  BY <1>2 DEF Placed, Pushing
<1> QED
  BY <1>1, <1>2, <1>6, <1>10, <1>11, <1>12, <1>14, <1>15, <1>16, <1>17, PlaceMoved

LEMMA CommitKeeps ==
  ASSUME DequeConstants, DequeInv, NEW t \in Thieves, Commit(t)
  PROVE  DequeInv'
<1>1. /\ TypeOK /\ InRange /\ Alone /\ loc[t] \in Locals /\ Fresh(t) \in Blocks /\ Theirs(t) \in Blocks
  BY ThiefBlocks DEF DequeInv
<1>b. PICK b \in Blocks : b = Fresh(t)
  BY <1>1
<1>2. /\ tpc[t] = "commit" /\ loc' = [loc EXCEPT ![t] = loc[t]]
      /\ tpc' = [tpc EXCEPT ![t] = IF loc[t].at + 1 >= loc[t].end THEN "advance" ELSE "return"]
      /\ steal_head' = [steal_head EXCEPT ![b] = steal_head[b] + 1]
      /\ UNCHANGED <<head, tail, steal_tail, entries, owner_block, thief_block, overflow, opc, oval, pushed,
                     taken, fell, early, overlap>>
  BY <1>b DEF Commit, Thief, StoreStealHead, Put, owner, ghosts
<1>4. /\ \A u \in Thieves \ {t} : tpc'[u] = tpc[u]
      /\ tpc'[t] \in {"advance", "return"} /\ loc' = loc /\ MovesOnly(t)
  BY <1>1, <1>2 DEF TypeOK, MovesOnly, ThiefPC
<1>5. TypeOK' /\ InRange' /\ Alone'
  <2>1. steal_head[b] + 1 \in Nat
    BY <1>1, SMTT(30) DEF TypeOK, Blocks
  <2>2. /\ head' \in [Blocks -> 0 .. NE] /\ steal_tail' \in [Blocks -> 0 .. NE]
        /\ steal_head' \in [Blocks -> Nat] /\ thief_block' \in Nat /\ taken' \in [Items -> Nat]
    BY <1>1, <1>2, <2>1 DEF TypeOK, Blocks
  <2>4. overlap' = "no" => /\ overlap = "no" /\ opc = "idle" /\ \A u \in Thieves \ {t} : ~Active(u)
                           /\ loc'[t].ob = owner_block
    BY <1>1, <1>2, <1>4, ThiefAlone DEF Active
  <2> QED BY <1>1, <1>2, <1>4, <2>2, <2>4, ThiefBasics
<1> SUFFICES ASSUME Undisturbed' PROVE Cursors' /\ OwnerKnows' /\ LastLook' /\ OnePlace'
  BY <1>5 DEF DequeInv
<1>6. Cursors /\ OwnerKnows /\ LastLook /\ OnePlace
  BY <1>1, <1>2, WasUndisturbed DEF DequeInv
<1>8. Mine' = Mine /\ Above' = Above /\ Below' = Below
  BY <1>2 DEF Mine, Above, Below
<1>7. t \in Readers(b) /\ head[b] = NE /\ tail[b] = NE
  <2>1. t \in Readers(b)
    BY <1>2, <1>b DEF Readers, Fresh
  <2> QED BY <1>6, <2>1 DEF Cursors, GrantedClosed
<1>9. \A c \in Blocks : /\ c = b => Readers(c)' = Readers(b) \ {t}
                        /\ c # b => Readers(c)' = Readers(c)
  <2>1. \A c \in Blocks : \A u \in Thieves : u \in Readers(c)' <=> u \in Readers(c) /\ u # t
    BY <1>2, <1>4 DEF Readers
  <2>2. \A c \in Blocks : Readers(c)' \subseteq Thieves /\ Readers(c) \subseteq Thieves
    BY DEF Readers
  <2>3. \A c \in Blocks : c # b => t \notin Readers(c)
    BY <1>b DEF Readers, Fresh
  <2> QED BY <2>1, <2>2, <2>3
<1>10. /\ Cardinality(Readers(b) \ {t}) = Cardinality(Readers(b)) - 1
       /\ \A c \in Blocks : Cardinality(Readers(c)') + steal_head'[c] = Cardinality(Readers(c)) + steal_head[c]
  <2>1. IsFiniteSet(Readers(b))
    BY FS_Subset DEF DequeConstants, Readers
  <2>2. Cardinality(Readers(b) \ {t}) = Cardinality(Readers(b)) - 1
    BY <1>7, <2>1, FS_RemoveElement
  <2>3. \A c \in Blocks : Cardinality(Readers(c)) \in Nat /\ steal_head[c] \in Nat
    BY <1>1, Ranges
  <2>4. \A c \in Blocks : steal_head'[c] = IF c = b THEN steal_head[c] + 1 ELSE steal_head[c]
    BY <1>1, <1>2 DEF TypeOK, Blocks
  <2>5. \A c \in Blocks : c = b => Cardinality(Readers(c)') = Cardinality(Readers(c)) - 1
    BY <1>9, <2>2
  <2>6. \A c \in Blocks : c # b => Cardinality(Readers(c)') = Cardinality(Readers(c))
    BY <1>9
  <2> QED BY <2>2, <2>3, <2>4, <2>5, <2>6
<1>11. Cursors'
  <2>1. GrantedClosed' /\ MineClosed'
    BY <1>2, <1>6, <1>7, <1>8, <1>9 DEF Cursors, GrantedClosed, MineClosed, Resetting
  <2>2. CommitsBounded'
    BY <1>2, <1>6, <1>10 DEF Cursors, CommitsBounded
  <2>3. \A c \in Blocks : c # b => steal_head'[c] = steal_head[c]
    BY <1>1, <1>2 DEF TypeOK, Blocks
  <2>4. NoCommits'
    BY <1>2, <1>6, <1>7, <1>8, <2>3 DEF Cursors, NoCommits
  <2> QED BY <2>1, <2>2, <2>4 DEF Cursors
<1>12. OwnerKnows'
  <2>1. \A c \in Blocks : c = Mine /\ opc = "open" /\ oval < NE => Readers(c)' = {} /\ steal_head'[c] = 0
    BY <1>1, <1>2, <1>6, <1>7, <1>9 DEF OwnerKnows, TypeOK, Blocks
  <2>2. \A c \in Blocks : c = Below /\ opc = "settle" => Cardinality(Readers(c)') + steal_head'[c] <= oval
    BY <1>6, <1>10 DEF OwnerKnows
  <2>3. \A c \in Blocks : c = Below /\ opc = "settled" => Readers(c)' = {}
    BY <1>6, <1>7, <1>9 DEF OwnerKnows
  <2>4. /\ opc = "open" /\ oval < NE => Readers(Mine)' = {} /\ steal_head'[Mine] = 0
        /\ opc = "settle" => Cardinality(Readers(Below))' + steal_head'[Below] <= oval
        /\ opc = "settled" => Readers(Below)' = {}
    BY <1>1, <1>8, <2>1, <2>2, <2>3, OwnBlocks DEF Readers
  <2> QED BY <1>2, <1>6, <1>8, <2>4 DEF OwnerKnows, Resetting
<1>13. LastLook'
  BY <1>2, <1>4, <1>6, <1>8 DEF LastLook
<1>14. \A c \in Blocks : \A j \in Live(c)' : j \in Live(c) /\ entries'[c][j] = entries[c][j]
  BY <1>2, <1>8 DEF Live, Held
<1>15. \A u \in Thieves : Carries(u)' => Carries(u) /\ Carried(u)' = Carried(u)
  BY <1>2, <1>4 DEF Carries, Carried, Fresh, Theirs
<1>16. Placed' = Placed /\ Placed \in Int
  BY <1>1, <1>2 DEF Placed, Pushing, TypeOK
<1> QED
  BY <1>1, <1>2, <1>6, <1>11, <1>12, <1>13, <1>14, <1>15, <1>16, PlacesKept

LEMMA ReturnKeeps ==
  ASSUME DequeConstants, DequeInv, NEW t \in Thieves, Return(t)
  PROVE  DequeInv'
<1>1. /\ TypeOK /\ InRange /\ Alone /\ loc[t] \in Locals /\ Fresh(t) \in Blocks /\ Theirs(t) \in Blocks
  BY ThiefBlocks DEF DequeInv
<1>i. PICK i : i = loc[t].got
  OBVIOUS
<1>2. /\ tpc[t] = "return" /\ tpc' = [tpc EXCEPT ![t] = "idle"] /\ loc' = [loc EXCEPT ![t] = Unset]
      /\ taken' = [taken EXCEPT ![i] = @ + 1]
      /\ UNCHANGED <<head, tail, steal_tail, steal_head, entries, owner_block, thief_block, overflow, opc, oval,
                     pushed, fell, early, overlap>>
  BY <1>i DEF Return, Take, Thief, blocks, owner
<1>3. Unset \in Locals
  BY ZeroAndEnd DEF Unset, Locals, DequeConstants
<1>4. /\ \A u \in Thieves : /\ tpc'[u] = IF u = t THEN "idle" ELSE tpc[u]
                            /\ loc'[u] = IF u = t THEN Unset ELSE loc[u]
      /\ MovesOnly(t)
  BY <1>1, <1>2, <1>3 DEF TypeOK, MovesOnly, ThiefPC
<1>5. TypeOK' /\ InRange' /\ Alone'
  <2>1. taken' \in [Items -> Nat]
    BY <1>1, <1>2, CountsAreNumbers
  <2>2. /\ head' \in [Blocks -> 0 .. NE] /\ steal_tail' \in [Blocks -> 0 .. NE]
        /\ steal_head' \in [Blocks -> Nat] /\ thief_block' \in Nat
    BY <1>1, <1>2 DEF TypeOK, Blocks
  <2>3. overlap' = "no" => overlap = "no" /\ opc = "idle" /\ \A u \in Thieves \ {t} : ~Active(u)
    BY <1>1, <1>2, ThiefAlone DEF Active
  <2> QED BY <1>1, <1>2, <1>4, <2>1, <2>2, <2>3, ThiefBasics
<1> SUFFICES ASSUME Undisturbed' PROVE Cursors' /\ OwnerKnows' /\ LastLook' /\ OnePlace'
  BY <1>5 DEF DequeInv
<1>6. Cursors /\ OwnerKnows /\ LastLook /\ OnePlace
  BY <1>1, <1>2, WasUndisturbed DEF DequeInv
<1>8. Mine' = Mine /\ Above' = Above /\ Below' = Below
  BY <1>2 DEF Mine, Above, Below
<1>9. \A c \in Blocks : Readers(c)' = Readers(c)
  BY <1>2, <1>4 DEF Readers
<1>11. Cursors'
  BY <1>2, <1>6, <1>8, <1>9 DEF Cursors, GrantedClosed, MineClosed, CommitsBounded, NoCommits, Resetting
<1>12. OwnerKnows'
  BY <1>1, <1>2, <1>6, <1>8, <1>9, OwnBlocks DEF OwnerKnows, Resetting
<1>13. LastLook'
  BY <1>2, <1>4, <1>6, <1>8 DEF LastLook
<1>14. Carries(t) /\ Carried(t) = i
  BY <1>2, <1>i DEF Carries, Carried
<1>15. \A u \in Thieves : Carries(u)' => Carries(u) /\ Carried(u)' = Carried(u) /\ Carried(u) # i
  <2> SUFFICES ASSUME NEW u \in Thieves, Carries(u)' PROVE Carries(u) /\ Carried(u)' = Carried(u) /\ Carried(u) # i
    OBVIOUS
  <2>1. u # t
    BY <1>4 DEF Carries
  <2>2. Carries(u) /\ Carried(u)' = Carried(u)
    BY <1>2, <1>4, <2>1 DEF Carries, Carried, Fresh, Theirs
  <2> QED BY <1>6, <1>14, <2>1, <2>2 DEF OnePlace
<1>16. \A c \in Blocks : \A j \in Live(c)' : j \in Live(c) /\ entries[c][j] # i
  <2>1. \A c \in Blocks : Live(c)' = Live(c)
    BY <1>2, <1>8 DEF Live, Held
  <2> QED BY <1>6, <1>14, <2>1 DEF OnePlace
<1>17. Untaken(i)
  BY <1>6, <1>14 DEF OnePlace
<1>18. Placed' = Placed /\ Placed \in Int
  BY <1>1, <1>2 DEF Placed, Pushing, TypeOK
<1> QED
  BY <1>1, <1>2, <1>6, <1>11, <1>12, <1>13, <1>15, <1>16, <1>17, <1>18, PlaceTaken

LEMMA FallbackClaimKeeps ==
  ASSUME DequeConstants, DequeInv, NEW t \in Thieves, FallbackClaim(t), head[Theirs(t)] = loc[t].at
  PROVE  DequeInv'
<1>1. /\ TypeOK /\ InRange /\ Alone /\ loc[t] \in Locals /\ Fresh(t) \in Blocks /\ Theirs(t) \in Blocks
  BY ThiefBlocks DEF DequeInv
<1>b. PICK b \in Blocks : b = Theirs(t)
  BY <1>1
<1>j. PICK j : j = loc[t].at
  OBVIOUS
<1>2. /\ tpc[t] = "claim" /\ tpc' = [tpc EXCEPT ![t] = "lift"] /\ loc' = [loc EXCEPT ![t] = loc[t]]
      /\ head' = [head EXCEPT ![b] = j + 1] /\ head[b] = j /\ fell' = "yes"
      /\ UNCHANGED <<tail, steal_tail, steal_head, entries, owner_block, thief_block, overflow, opc, oval,
                     pushed, taken, early, overlap>>
  BY <1>b, <1>j DEF FallbackClaim, Thief, StoreHead, Put, owner
<1>3. j \in Indices
  BY <1>1, <1>2, <1>j DEF InRange, Locals, Indices, DequeConstants
<1>4. /\ \A u \in Thieves : tpc'[u] = IF u = t THEN "lift" ELSE tpc[u]
      /\ loc' = loc /\ MovesOnly(t)
  BY <1>1, <1>2 DEF TypeOK, MovesOnly, ThiefPC
<1>7. overlap = "no" => /\ opc = "idle" /\ loc[t].ob = owner_block
                        /\ \A u \in Thieves \ {t} : ~Active(u)
  BY <1>1, <1>2, ThiefAlone DEF Active
<1>5. TypeOK' /\ InRange' /\ Alone'
  <2>1. j + 1 \in 0 .. NE
    BY <1>3 DEF Indices, DequeConstants
  <2>2. head' \in [Blocks -> 0 .. NE]
    BY <1>1, <1>2, <2>1 DEF TypeOK, Blocks
  <2>3. /\ steal_tail' \in [Blocks -> 0 .. NE] /\ steal_head' \in [Blocks -> Nat] /\ thief_block' \in Nat
        /\ taken' \in [Items -> Nat]
    BY <1>1, <1>2 DEF TypeOK, Blocks
  <2>4. tpc'[t] = "lift" /\ loc'[t].at < NE
    BY <1>3, <1>4, <1>j DEF Indices, DequeConstants
  <2> QED BY <1>1, <1>2, <1>4, <1>7, <2>2, <2>3, <2>4, ThiefBasics
<1> SUFFICES ASSUME Undisturbed' PROVE Cursors' /\ OwnerKnows' /\ LastLook' /\ OnePlace'
  BY <1>5 DEF DequeInv
<1>6. Cursors /\ OwnerKnows /\ LastLook /\ OnePlace
  BY <1>1, <1>2, WasUndisturbed DEF DequeInv
<1>8. Mine' = Mine /\ Above' = Above /\ Below' = Below
  BY <1>2 DEF Mine, Above, Below
<1>9. /\ overlap = "no" /\ opc = "idle" /\ b = Mine /\ \A u \in Thieves \ {t} : tpc[u] = "idle"
  <2>1. overlap = "no"
    BY <1>2 DEF Undisturbed
  <2> QED BY <1>7, <1>b, <2>1 DEF Active, Theirs, Mine
<1>10. /\ j < tail[b] /\ tail[b] \in 0 .. NE /\ steal_tail[b] = NE /\ steal_head[b] = 0
       /\ head'[b] = j + 1 /\ \A c \in Blocks : c # b => head'[c] = head[c]
  <2>1. j < tail[b] /\ steal_tail[b] = NE
    BY <1>2, <1>6, <1>9, <1>j DEF LastLook, Cursors, MineClosed, Resetting
  <2>2. tail[b] \in 0 .. NE /\ j # NE
    BY <1>1, <1>3, Ranges DEF Indices, DequeConstants
  <2>3. steal_head[b] = 0
    BY <1>2, <1>6, <1>9, <2>2 DEF Cursors, NoCommits
  <2> QED BY <1>1, <1>2, <2>1, <2>2, <2>3 DEF TypeOK, Blocks
<1>11. \A c \in Blocks : Readers(c) = {} /\ Readers(c)' = Readers(c)
  BY <1>2, <1>4, <1>9 DEF Readers
<1>12. Cursors'
  <2>1. GrantedClosed' /\ NoCommits'
    BY <1>2, <1>6, <1>8, <1>10, <1>11 DEF Cursors, GrantedClosed, NoCommits
  <2>2. MineClosed' /\ CommitsBounded'
    BY <1>2, <1>6, <1>8, <1>11 DEF Cursors, MineClosed, CommitsBounded, Resetting
  <2> QED BY <2>1, <2>2 DEF Cursors
<1>13. OwnerKnows'
  BY <1>2, <1>9 DEF OwnerKnows, Resetting
<1>14. LastLook'
  BY <1>4, <1>9 DEF LastLook
<1>15. /\ Live(b) = (j .. tail[b] - 1) \cup (NE .. NE - 1)
       /\ \A c \in Blocks : Live(c)' = IF c = b THEN (j + 1 .. tail[b] - 1) \cup (NE .. NE - 1) ELSE Live(c)
  BY <1>1, <1>2, <1>8, <1>9, <1>10 DEF Live, Held
<1>16. j \in Live(b) /\ j \notin Live(b)' /\ \A c \in Blocks : Live(c)' \subseteq Live(c)
  <2>1. /\ j \in j .. tail[b] - 1 /\ j \notin j + 1 .. tail[b] - 1 /\ j \notin NE .. NE - 1
        /\ j + 1 .. tail[b] - 1 \subseteq j .. tail[b] - 1
    BY <1>3, <1>10 DEF Indices, DequeConstants
  <2> QED BY <1>15, <2>1
<1>17. ~Carries(t) /\ Carried(t)' = entries[b][j]
  BY <1>2, <1>4, <1>b, <1>j DEF Carries, Carried, Theirs
<1>18. \A u \in Thieves \ {t} : Carries(u)' => Carries(u) /\ Carried(u)' = Carried(u)
  BY <1>4, <1>9 DEF Carries
<1>19. Placed' = Placed
  BY <1>2 DEF Placed, Pushing
<1> QED
  BY <1>1, <1>2, <1>6, <1>12, <1>13, <1>14, <1>16, <1>17, <1>18, <1>19, PlaceMoved

(* A steal from the owner's block is reported only if another call came     *)
(* between.                                                                 *)
LEMMA FallbackReportKeeps ==
  ASSUME DequeConstants, DequeInv, NEW t \in Thieves, FallbackReport(t)
  PROVE  DequeInv'
<1>1. /\ TypeOK /\ InRange /\ Alone /\ loc[t] \in Locals /\ Fresh(t) \in Blocks /\ Theirs(t) \in Blocks
  BY ThiefBlocks DEF DequeInv
<1>2. /\ tpc[t] = "granted" /\ tpc' = [tpc EXCEPT ![t] = "return"] /\ loc' = [loc EXCEPT ![t] = loc[t]]
      /\ UNCHANGED <<head, tail, steal_tail, entries, owner_block, thief_block, overflow, opc, oval, pushed,
                     taken, fell, early, overlap>>
  BY DEF FallbackReport, Thief, StoreStealHead, blocks, owner, ghosts
<1>3. steal_head' = steal_head \/ (/\ steal_tail[Theirs(t)] # NE
                                   /\ steal_head' = [steal_head EXCEPT ![Theirs(t)] = steal_head[Theirs(t)] + 1])
  BY DEF FallbackReport, StoreStealHead, Put, blocks, Sentinel
<1>4. tpc'[t] = "return" /\ loc'[t] = loc[t] /\ loc' = loc /\ MovesOnly(t) /\ fell = "yes"
  BY <1>1, <1>2 DEF TypeOK, MovesOnly, ThiefPC, Alone
<1>7. overlap = "no" => /\ opc = "idle" /\ loc[t].ob = owner_block
                        /\ \A u \in Thieves \ {t} : ~Active(u)
  BY <1>1, <1>2, ThiefAlone DEF Active
<1>8. CASE steal_head' = steal_head
  <2>1. Carries(t)' => Carries(t) /\ Carried(t)' = Carried(t)
    BY <1>2, <1>4 DEF Carries, Carried
  <2>2. thief_block' \in Nat
    BY <1>1, <1>2 DEF TypeOK
  <2> QED BY <1>2, <1>4, <1>7, <1>8, <2>1, <2>2, ThiefWanders
<1>9. CASE /\ steal_tail[Theirs(t)] # NE
           /\ steal_head' = [steal_head EXCEPT ![Theirs(t)] = steal_head[Theirs(t)] + 1]
  <2>1. TypeOK' /\ InRange' /\ Alone'
    <3>1. steal_head[Theirs(t)] + 1 \in Nat
      BY <1>1 DEF TypeOK, Blocks
    <3>2. /\ head' \in [Blocks -> 0 .. NE] /\ steal_tail' \in [Blocks -> 0 .. NE]
          /\ steal_head' \in [Blocks -> Nat] /\ thief_block' \in Nat /\ taken' \in [Items -> Nat]
      BY <1>1, <1>2, <1>9, <3>1 DEF TypeOK, Blocks
    <3> QED BY <1>1, <1>2, <1>4, <1>7, <3>2, ThiefBasics
  <2>2. ~Undisturbed'
    <3> SUFFICES ASSUME Undisturbed' PROVE FALSE
      OBVIOUS
    <3>1. overlap = "no" /\ Undisturbed
      BY <1>2, <1>4 DEF Undisturbed
    <3>2. opc = "idle" /\ Theirs(t) = Mine
      BY <1>7, <3>1 DEF Theirs, Mine
    <3>3. steal_tail[Mine] = NE
      BY <3>1, <3>2 DEF DequeInv, Cursors, MineClosed, Resetting
    <3> QED BY <1>9, <3>2, <3>3
  <2> QED BY <2>1, <2>2 DEF DequeInv
<1> QED BY <1>3, <1>8, <1>9

-----------------------------------------------------------------------------
(* The invariant                                                            *)

LEMMA DequeInit == DequeConstants /\ Init => DequeInv
<1> SUFFICES ASSUME DequeConstants, Init PROVE DequeInv
  OBVIOUS
<1>1. TypeOK /\ InRange
  BY TypeInit
<1>2. /\ opc = "idle" /\ pushed = 0 /\ fell = "no" /\ early = "no" /\ overlap = "no"
      /\ \A t \in Thieves : tpc[t] = "idle"
      /\ \A i \in Items : taken[i] = 0
      /\ \A b \in Blocks : head[b] = 0 /\ tail[b] = 0 /\ steal_head[b] = 0 /\ steal_tail[b] = NE
  BY DEF Init, Sentinel, Blocks
<1>3. Alone
  BY <1>2 DEF Alone, Active
<1>4. \A b \in Blocks : Readers(b) = {} /\ Cardinality(Readers(b)) = 0
  BY <1>2, FS_EmptySet DEF Readers
<1>5. Mine \in Blocks
  BY <1>1, OwnBlocks
<1>6. Cursors /\ OwnerKnows /\ LastLook
  BY <1>2, <1>4, <1>5 DEF Cursors, GrantedClosed, MineClosed, CommitsBounded, NoCommits, OwnerKnows,
     LastLook, Resetting, DequeConstants
<1>7. \A b \in Blocks : Live(b) = {}
  <2>1. NE .. NE - 1 = {}
    BY DEF DequeConstants
  <2> QED BY <1>2, <2>1, EmptyRange DEF Live, Held
<1>8. OnePlace
  BY <1>2, <1>7 DEF OnePlace, Carries
<1> QED BY <1>1, <1>3, <1>6, <1>8 DEF DequeInv

(* Each step of the owner and of the thieves.                               *)
LEMMA OwnerStep ==
  ASSUME DequeConstants, DequeInv, Push \/ Pop \/ OwnerInside
  PROVE  DequeInv'
<1>1. CASE Reclaim
  <2>1. opc' \in {"reset", "drain"}
    BY <1>1 DEF Reclaim, OwnerReads
  <2> QED BY <1>1, <2>1, ReclaimedKeeps, DrainKeeps
<1>2. CASE Reset
  <2>1. opc \in {"reset", "reset_tail", "reset_commits", "reset_steals"}
    BY <1>2 DEF Reset
  <2> QED BY <1>2, <2>1, Reset1Keeps, Reset2Keeps, Reset3Keeps, Reset4Keeps
<1>3. CASE PopClaim
  BY <1>3, PopWonKeeps, PopLostKeeps
<1>4. CASE Takeover
  BY <1>4, TakenOverKeeps, TakeoverKeeps
<1>5. CASE Push \/ PushWrite \/ PushPublish \/ PushOverflow \/ GrantLoad \/ GrantClose \/ GrantOpen
  BY <1>5, PushKeeps, PushWriteKeeps, PushPublishKeeps, PushOverflowKeeps, GrantLoadKeeps, GrantCloseKeeps,
     GrantOpenKeeps
<1>6. CASE \/ Pop \/ PopLook \/ PopTop \/ PopLast \/ PopResetHead \/ PopResetTail
           \/ PopRetreat \/ TakeoverSpin \/ TakeoverDone
  BY <1>6, PopKeeps, PopLookKeeps, PopTopKeeps, PopLastKeeps, PopResetHeadKeeps, PopResetTailKeeps,
     PopRetreatKeeps, TakeoverSpinKeeps, TakeoverDoneKeeps
<1> QED BY <1>1, <1>2, <1>3, <1>4, <1>5, <1>6 DEF OwnerInside

LEMMA ThiefStep ==
  ASSUME DequeConstants, DequeInv, NEW t \in Thieves, StealCall(t) \/ ThiefInside(t)
  PROVE  DequeInv'
<1>1. CASE ScanCursor(t)
  <2>1. CASE steal_tail[Fresh(t)] = NE
    BY <1>1, <2>1, ScanPastKeeps DEF ScanCursor, Sentinel
  <2> QED BY <1>1, <2>1, ScanBlockKeeps
<1>2. CASE ScanEnd(t)
  <2>1. CASE loc[t].at >= tail[Fresh(t)]
    BY <1>2, <2>1, ScanPastKeeps DEF ScanEnd
  <2> QED BY <1>2, <2>1, ScanToReserveKeeps
<1>3. CASE Reserve(t)
  <2>1. CASE steal_tail[Fresh(t)] # loc[t].at
    BY <1>3, <2>1, ScanPastKeeps DEF Reserve
  <2> QED BY <1>3, <2>1, ReserveKeeps
<1>4. CASE Fallback(t)
  <2>1. CASE steal_tail[Theirs(t)] # NE
    BY <1>4, <2>1, GiveUpKeeps DEF Fallback, Sentinel
  <2> QED BY <1>4, <2>1, FallbackStartKeeps
<1>5. CASE FallbackTail(t)
  <2>1. CASE loc[t].at >= tail[Theirs(t)]
    BY <1>5, <2>1, GiveUpKeeps DEF FallbackTail
  <2> QED BY <1>5, <2>1, FallbackLookKeeps
<1>6. CASE FallbackClaim(t)
  <2>1. CASE head[Theirs(t)] # loc[t].at
    BY <1>6, <2>1, GiveUpKeeps DEF FallbackClaim
  <2> QED BY <1>6, <2>1, FallbackClaimKeeps
<1>7. CASE \/ StealCall(t) \/ StealBound(t) \/ ReadReserved(t) \/ Commit(t) \/ AdvanceThieves(t) \/ Return(t)
           \/ FallbackHead(t) \/ FallbackRead(t) \/ FallbackReport(t)
  BY <1>7, StealCallKeeps, StealBoundKeeps, ReadReservedKeeps, CommitKeeps, AdvanceThievesKeeps, ReturnKeeps,
     FallbackHeadKeeps, FallbackReadKeeps, FallbackReportKeeps
<1> QED BY <1>1, <1>2, <1>3, <1>4, <1>5, <1>6, <1>7 DEF ThiefInside

LEMMA DequeStep ==
  ASSUME DequeConstants, DequeInv, [Next]_vars
  PROVE  DequeInv'
<1>1. CASE Push \/ Pop \/ OwnerInside
  BY <1>1, OwnerStep
<1>2. CASE \E t \in Thieves : StealCall(t) \/ ThiefInside(t)
  BY <1>2, ThiefStep
<1>3. CASE UNCHANGED vars
  <2>1. UNCHANGED <<head, tail, steal_tail, steal_head, entries, owner_block, thief_block, overflow, opc, oval,
                    tpc, loc, pushed, taken, fell, early, overlap>>
    BY <1>3 DEF vars, blocks, cursors, owner, thieves, ghosts
  <2>2. TypeOK' /\ InRange' /\ Alone' /\ Undisturbed' = Undisturbed
    BY <2>1 DEF DequeInv, TypeOK, InRange, Alone, Undisturbed, Active, Pushing, Mine
  <2>3. Mine' = Mine /\ Above' = Above /\ Below' = Below /\ \A b \in Blocks : Readers(b)' = Readers(b)
    BY <2>1, ReadersStay DEF Mine, Above, Below
  <2>4. Undisturbed => TypeOK /\ Cursors /\ OwnerKnows /\ LastLook /\ OnePlace /\ InRange
    BY DEF DequeInv
  <2>5. Undisturbed => Cursors'
    BY <2>1, <2>3, <2>4 DEF Cursors, GrantedClosed, MineClosed, CommitsBounded, NoCommits, Resetting
  <2>6. Undisturbed => OwnerKnows' /\ LastLook'
    BY <2>1, <2>3, <2>4, OwnBlocks DEF OwnerKnows, LastLook, Resetting
  <2>7. Undisturbed => OnePlace'
    <3>1. \A t \in Thieves : Carries(t)' = Carries(t) /\ Carried(t)' = Carried(t)
      BY <2>1 DEF Carries, Carried, Fresh, Theirs
    <3>2. \A b \in Blocks : Live(b)' = Live(b)
      BY <2>1, <2>3 DEF Live, Held
    <3>3. TypeOK => Placed' = Placed /\ Placed \in Int
      BY <2>1 DEF Placed, Pushing, TypeOK
    <3> QED BY <2>1, <2>4, <3>1, <3>2, <3>3, PlacesKept
  <2> QED BY <2>2, <2>5, <2>6, <2>7 DEF DequeInv
<1> QED BY <1>1, <1>2, <1>3 DEF Next

(* What no order of reservations, take-overs and grants breaks.             *)
THEOREM DequeInvariant == ASSUME DequeConstants PROVE Spec => []DequeInv
<1>1. Init => DequeInv
  BY DequeInit
<1>2. DequeInv /\ [Next]_vars => DequeInv'
  BY DequeStep
<1> QED BY <1>1, <1>2, PTL DEF Spec

LEMMA OnePlaceIsEnough == DequeInv => TakenOnce
  BY DEF DequeInv, OnePlace, TakenOnce

(* No actor is returned twice by a deque, whatever its size and the number  *)
(* of schedulers that steal from it (scheduler.c, lines 144-353).           *)
THEOREM ReturnedOnce == ASSUME DequeConstants PROVE Spec => []TakenOnce
  BY DequeInvariant, OnePlaceIsEnough, PTL

-----------------------------------------------------------------------------
(* Nothing is lost                                                          *)

(* While no two calls overlap every actor pushed and not returned can be    *)
(* found: it was handed to the global queue, is in the hands of a thief, or *)
(* is live in the block of an epoch that the owner and the thieves look at. *)
Epochs == thief_block .. owner_block

Found(i) ==
  \/ i \in overflow
  \/ \E t \in Thieves : Carries(t) /\ Carried(t) = i
  \/ \E e \in Epochs : \E j \in Live(Block(e)) : entries[Block(e)][j] = i

NoneLost == \A i \in Items : Untaken(i) => Found(i)

(* What was handed to the global queue is nowhere else.                     *)
OverflowApart ==
  \A i \in overflow :
    /\ Untaken(i)
    /\ \A t \in Thieves : Carries(t) => Carried(t) # i
    /\ \A b \in Blocks : \A j \in Live(b) : entries[b][j] # i

Granting == opc \in {"close", "open", "reclaim", "drain"} \/ Resetting
Retaking == opc \in {"takeover", "settle", "settled"}

(* The epochs looked at have different blocks, and so has the next while    *)
(* the owner makes it its own.                                              *)
Window ==
  /\ owner_block \in Epochs /\ owner_block < thief_block + B
  /\ Granting => owner_block + 1 < thief_block + B
  /\ Retaking => thief_block < owner_block

Ordered == \A b \in Blocks : head[b] <= tail[b] \/ (b = Mine /\ opc = "won")

(* The owner leaves nothing behind in a block but for the thieves.          *)
Leaving == opc \in {"open", "reclaim", "drain", "retreat"} \/ Resetting \/ Retaking
Emptied ==
  /\ Leaving => tail[Mine] <= head[Mine]
  /\ \A e \in thief_block .. owner_block - 1 :
       tail[Block(e)] <= head[Block(e)] \/ (opc = "settled" /\ e = owner_block - 1)

(* A thief has passed no block with an entry; what it has read of the one   *)
(* it is at still holds.                                                    *)
Scanned(t) ==
  /\ tpc[t] = "bound" => loc[t].epoch = thief_block
  /\ tpc[t] \in {"scan", "end", "reserve", "read", "commit", "advance"} =>
       /\ loc[t].epoch \in Epochs
       /\ \A e \in thief_block .. loc[t].epoch - 1 : Live(Block(e)) = {}
  /\ tpc[t] \in {"end", "reserve", "read", "commit", "advance"} => loc[t].epoch < owner_block
  /\ tpc[t] \in {"end", "reserve"} => loc[t].at = steal_tail[Fresh(t)] /\ loc[t].at < NE
  /\ tpc[t] \in {"reserve", "read", "commit"} => loc[t].end = NE
  /\ tpc[t] \in {"read", "commit"} => steal_tail[Fresh(t)] = loc[t].at + 1
  /\ tpc[t] = "advance" => Live(Fresh(t)) = {}

LoneInv ==
  /\ Window /\ Ordered /\ Emptied /\ OverflowApart /\ NoneLost
  /\ \A t \in Thieves : Scanned(t)

LEMMA BlocksDiffer ==
  ASSUME DequeConstants, NEW e \in Nat, NEW f \in Nat, e < f, f < e + B
  PROVE  Block(e) # Block(f)
<1> SUFFICES ASSUME e % B = f % B PROVE FALSE
  BY DEF Block
<1> DEFINE a == e \div B
           c == f \div B
           r == e % B
<1>1. a \in Nat /\ c \in Nat /\ r \in Int /\ e = (B * a) + r /\ f = (B * c) + r /\ B \in Nat /\ B > 0
  BY DEF DequeConstants
<1> HIDE DEF a, c, r
<1>2. B * (c - a) > 0 /\ B * (c - a) < B
  BY <1>1
<1>3. CASE c - a <= 0
  BY <1>1, <1>2, <1>3
<1>4. CASE c - a >= 1
  BY <1>1, <1>2, <1>4
<1> QED BY <1>1, <1>3, <1>4

(* What is known of a call that is under way alone.                         *)
LEMMA LoneFacts ==
  ASSUME DequeConstants, DequeInv, LoneInv, overlap = "no"
  PROVE  /\ TypeOK /\ InRange /\ Alone /\ Cursors /\ OwnerKnows /\ LastLook /\ OnePlace
         /\ Window /\ Ordered /\ Emptied /\ OverflowApart /\ NoneLost
         /\ opc # "idle" => \A t \in Thieves : tpc[t] = "idle"
         /\ Mine \in Blocks /\ Above \in Blocks /\ Above # Mine
         /\ Retaking => Below \in Blocks /\ Below # Mine
<1>1. TypeOK /\ InRange /\ Alone /\ Cursors /\ OwnerKnows /\ LastLook /\ OnePlace
  BY DEF DequeInv, Undisturbed
<1>2. opc # "idle" => \A t \in Thieves : tpc[t] = "idle"
  BY <1>1 DEF Alone, Active
<1> QED BY <1>1, <1>2, OwnBlocks DEF LoneInv, Retaking

LEMMA EpochsApart ==
  ASSUME DequeConstants, TypeOK, Window
  PROVE  /\ Mine = Block(owner_block)
         /\ \A e \in Epochs : /\ e \in Nat /\ Block(e) \in Blocks
                              /\ e < owner_block => Block(e) # Mine
                              /\ Granting => Block(e) # Above
                              /\ Retaking /\ e < owner_block - 1 => Block(e) # Below
         /\ \A e, f \in Epochs : e # f => Block(e) # Block(f)
<1>1. owner_block \in Nat /\ thief_block \in Nat /\ owner_block + 1 \in Nat /\ B \in Nat
  BY DEF TypeOK, DequeConstants
<1>2. \A e \in Epochs : e \in Nat /\ Block(e) \in Blocks /\ e <= owner_block /\ e >= thief_block
  BY <1>1, BlockIsBlock DEF Epochs
<1>3. \A e, f \in Nat : e < f /\ f < e + B => Block(e) # Block(f)
  BY BlocksDiffer
<1>4. \A e, f \in Epochs : e # f => Block(e) # Block(f)
  <2> TAKE e, f \in Epochs
  <2>1. CASE e < f
    BY <1>1, <1>2, <1>3, <2>1 DEF Window
  <2>2. CASE f < e
    BY <1>1, <1>2, <1>3, <2>2 DEF Window
  <2> QED BY <1>2, <2>1, <2>2
<1>5. \A e \in Epochs : Granting => Block(e) # Above
  BY <1>1, <1>2, <1>3 DEF Window, Above
<1>6. \A e \in Epochs : e < owner_block => Block(e) # Mine
  BY <1>1, <1>2, <1>3 DEF Window, Mine
<1>7. \A e \in Epochs : Retaking /\ e < owner_block - 1 => Block(e) # Below
  <2> SUFFICES ASSUME NEW e \in Epochs, Retaking, e < owner_block - 1 PROVE Block(e) # Below
    OBVIOUS
  <2>1. owner_block - 1 \in Nat
    BY <1>1 DEF Window
  <2> QED BY <1>1, <1>2, <1>3, <2>1 DEF Window, Below
<1> QED BY <1>2, <1>4, <1>5, <1>6, <1>7 DEF Mine

(* The same actors are found, and none has a second place, if the live      *)
(* entries of the epochs looked at stay what they are.                      *)
LEMMA SameFound ==
  ASSUME TypeOK, OverflowApart, NoneLost, Placed' = Placed, UNCHANGED <<taken, overflow>>,
         \A t \in Thieves : Carries(t)' = Carries(t) /\ (Carries(t) => Carried(t)' = Carried(t)),
         \A b \in Blocks : \A j \in Live(b)' : j \in Live(b) /\ entries'[b][j] = entries[b][j],
         \A e \in Epochs : \A j \in Live(Block(e)) :
           e \in Epochs' /\ j \in Live(Block(e))' /\ entries'[Block(e)][j] = entries[Block(e)][j]
  PROVE  OverflowApart' /\ NoneLost'
<1>1. \A i : Untaken(i)' = Untaken(i)
  BY DEF Untaken
<1>2. OverflowApart'
  BY <1>1 DEF OverflowApart
<1>3. \A i : Found(i) => Found(i)'
  <2> SUFFICES ASSUME NEW i, Found(i) PROVE Found(i)'
    OBVIOUS
  <2>1. CASE \E e \in Epochs : \E j \in Live(Block(e)) : entries[Block(e)][j] = i
    <3>1. PICK e \in Epochs : \E j \in Live(Block(e)) : entries[Block(e)][j] = i
      BY <2>1
    <3>2. PICK j \in Live(Block(e)) : entries[Block(e)][j] = i
      BY <3>1
    <3>3. e \in Epochs' /\ j \in Live(Block(e))' /\ entries'[Block(e)][j] = i
      BY <3>2
    <3> QED BY <3>3 DEF Found
  <2>2. CASE \E t \in Thieves : Carries(t) /\ Carried(t) = i
    BY <2>2 DEF Found
  <2>3. CASE i \in overflow
    BY <2>3 DEF Found
  <2> QED BY <2>1, <2>2, <2>3 DEF Found
<1> QED BY <1>1, <1>2, <1>3 DEF NoneLost

(* The thieves are idle while the owner moves alone.                        *)
LEMMA IdleThieves ==
  ASSUME \A t \in Thieves : tpc[t] = "idle", UNCHANGED <<tpc, loc>>
  PROVE  /\ \A t \in Thieves : Scanned(t)'
         /\ \A t \in Thieves : ~Carries(t) /\ ~Carries(t)'
  BY DEF Scanned, Carries

(* What the owner does without giving up or storing an entry that is live.  *)
LEMMA OwnerMoves ==
  ASSUME DequeConstants, DequeInv, LoneInv, overlap = "no", \A t \in Thieves : tpc[t] = "idle",
         UNCHANGED <<tpc, loc, taken, overflow>>, Placed' = Placed, Window', Ordered', Emptied',
         \A b \in Blocks : \A j \in Live(b)' : j \in Live(b) /\ entries'[b][j] = entries[b][j],
         \A e \in Epochs : \A j \in Live(Block(e)) :
           e \in Epochs' /\ j \in Live(Block(e))' /\ entries'[Block(e)][j] = entries[Block(e)][j]
  PROVE  LoneInv'
<1>1. TypeOK /\ OverflowApart /\ NoneLost
  BY LoneFacts
<1>2. \A t \in Thieves : ~Carries(t) /\ ~Carries(t)' /\ Scanned(t)'
  BY IdleThieves
<1>3. \A t \in Thieves : Carries(t)' = Carries(t) /\ (Carries(t) => Carried(t)' = Carried(t))
  BY <1>2 DEF Carries
<1>4. OverflowApart' /\ NoneLost'
  BY <1>1, <1>3, SameFound
<1> QED BY <1>2, <1>4 DEF LoneInv

LEMMA OwnerStays ==
  ASSUME DequeConstants, DequeInv, LoneInv, overlap = "no", \A t \in Thieves : tpc[t] = "idle",
         UNCHANGED <<tpc, loc, taken, overflow, entries, owner_block, thief_block>>,
         Placed' = Placed, Window', Ordered', Emptied',
         \A b \in Blocks : \/ Live(b)' = Live(b)
                           \/ b = Above /\ Granting /\ Live(b)' \subseteq Live(b)
  PROVE  LoneInv'
<1>1. \A e \in Epochs : Block(e) \in Blocks /\ (Granting => Block(e) # Above)
  BY LoneFacts, EpochsApart
<1>2. Epochs' = Epochs
  BY DEF Epochs
<1>3. \A e \in Epochs : Live(Block(e))' = Live(Block(e))
  BY <1>1 DEF Block
<1>4. \A b \in Blocks : \A j \in Live(b)' : j \in Live(b) /\ entries'[b][j] = entries[b][j]
  OBVIOUS
<1>5. \A e \in Epochs : \A j \in Live(Block(e)) :
        e \in Epochs' /\ j \in Live(Block(e))' /\ entries'[Block(e)][j] = entries[Block(e)][j]
  BY <1>2, <1>3
<1> QED BY <1>4, <1>5, OwnerMoves

(* An actor that was live or in a thief's hands is returned.                *)
LEMMA ReturnedLeaves ==
  ASSUME DequeConstants, TypeOK, OverflowApart, NoneLost, NEW i \in Items, i \notin overflow,
         Placed' = Placed, UNCHANGED <<overflow, entries>>, taken' = [taken EXCEPT ![i] = @ + 1],
         \A t \in Thieves : Carries(t)' => Carries(t) /\ Carried(t)' = Carried(t),
         \A t \in Thieves : Carries(t) /\ Carried(t) # i => Carries(t)' /\ Carried(t)' = Carried(t),
         \A b \in Blocks : Live(b)' \subseteq Live(b),
         \A e \in Epochs : /\ e \in Epochs'
                           /\ \A j \in Live(Block(e)) : entries[Block(e)][j] # i => j \in Live(Block(e))'
  PROVE  OverflowApart' /\ NoneLost'
<1>1. \A k \in Items : Untaken(k)' => Untaken(k) /\ k # i
  BY DEF Untaken, TypeOK
<1>2. \A k \in Items : k # i /\ Untaken(k) => Untaken(k)'
  BY DEF Untaken, TypeOK
<1>3. overflow \subseteq Items
  BY DEF TypeOK
<1>4. OverflowApart'
  <2> SUFFICES ASSUME NEW k \in overflow
               PROVE  /\ Untaken(k)'
                      /\ \A t \in Thieves : Carries(t)' => Carried(t)' # k
                      /\ \A b \in Blocks : \A j \in Live(b)' : entries[b][j] # k
    BY DEF OverflowApart
  <2>1. /\ Untaken(k) /\ k \in Items /\ k # i
        /\ \A t \in Thieves : Carries(t) => Carried(t) # k
        /\ \A b \in Blocks : \A j \in Live(b) : entries[b][j] # k
    BY <1>3 DEF OverflowApart
  <2> QED BY <1>2, <2>1
<1>5. \A k \in Items : Found(k) /\ k # i => Found(k)'
  <2> SUFFICES ASSUME NEW k \in Items, Found(k), k # i PROVE Found(k)'
    OBVIOUS
  <2>1. CASE \E e \in Epochs : \E j \in Live(Block(e)) : entries[Block(e)][j] = k
    <3>1. PICK e \in Epochs : \E j \in Live(Block(e)) : entries[Block(e)][j] = k
      BY <2>1
    <3>2. PICK j \in Live(Block(e)) : entries[Block(e)][j] = k
      BY <3>1
    <3>3. e \in Epochs' /\ j \in Live(Block(e))' /\ entries'[Block(e)][j] = k
      BY <3>2
    <3> QED BY <3>3 DEF Found
  <2>2. CASE \E t \in Thieves : Carries(t) /\ Carried(t) = k
    BY <2>2 DEF Found
  <2>3. CASE k \in overflow
    BY <2>3 DEF Found
  <2> QED BY <2>1, <2>2, <2>3 DEF Found
<1> QED BY <1>1, <1>4, <1>5 DEF NoneLost

-----------------------------------------------------------------------------
(* The owner's steps while no thief moves.  XKeepsAll: action X loses       *)
(* nothing.                                                                 *)

LEMMA PushKeepsAll ==
  ASSUME DequeConstants, DequeInv, LoneInv, overlap = "no", overlap' = "no", Push
  PROVE  LoneInv'
<1>1. /\ opc = "idle" /\ opc' = "push"
      /\ pushed' = pushed + 1
      /\ \A t \in Thieves : tpc[t] = "idle"
      /\ UNCHANGED <<head, tail, steal_tail, steal_head, entries, owner_block, thief_block,
                     overflow, oval, tpc, loc, taken, fell, early>>
  BY DEF Push, Begins, Owner, blocks, cursors, thieves
<1>2. /\ TypeOK /\ InRange /\ Cursors /\ OwnerKnows /\ Window /\ Ordered /\ Emptied
      /\ Mine \in Blocks /\ Above \in Blocks /\ Above # Mine
  BY <1>1, LoneFacts
<1>3. \A t \in Thieves : tpc[t] = "idle"
  BY <1>1
<1>4. Mine' = Mine /\ Above' = Above /\ Below' = Below /\ \A e : Block(e)' = Block(e)
  BY <1>1 DEF Mine, Above, Below, Block
<1>6. \A e \in Epochs : /\ e \in Nat /\ Block(e) \in Blocks
                        /\ e < owner_block => Block(e) # Mine
                        /\ Granting => Block(e) # Above
                        /\ Retaking /\ e < owner_block - 1 => Block(e) # Below
  BY <1>2, EpochsApart
<1>7. Window'
  BY <1>1, <1>2 DEF Window, Granting, Retaking, Resetting, Epochs, TypeOK
<1>8. Ordered'
  BY <1>1, <1>2, <1>4 DEF Ordered, TypeOK, Blocks
<1>9. Emptied'
  BY <1>1, <1>2, <1>4, <1>6 DEF Emptied, Leaving, Granting, Retaking, Resetting, Epochs, Window, TypeOK, Blocks
<1>10. \A b \in Blocks : Live(b)' = Live(b)
  BY <1>1, <1>2, <1>4 DEF Live, Held, Resetting, TypeOK, Blocks
<1>11. Placed' = Placed
  BY <1>1, <1>2 DEF Placed, Pushing, TypeOK
<1> QED
  BY <1>1, <1>3, <1>7, <1>8, <1>9, <1>10, <1>11, OwnerStays DEF Granting, Resetting

LEMMA GrantLoadKeepsAll ==
  ASSUME DequeConstants, DequeInv, LoneInv, overlap = "no", overlap' = "no", GrantLoad
  PROVE  LoneInv'
<1>1. /\ opc = "push" /\ opc' = "close"
      /\ oval' = head[Mine]
      /\ tail[Mine] = NE /\ owner_block + 1 - thief_block \in 0 .. B - 1
      /\ UNCHANGED <<head, tail, steal_tail, steal_head, entries, owner_block, thief_block,
                     overflow, tpc, loc, pushed, taken, fell, early, overlap>>
  BY DEF GrantLoad, OwnerReads, blocks, cursors, thieves, ghosts
<1>2. /\ TypeOK /\ InRange /\ Cursors /\ OwnerKnows /\ Window /\ Ordered /\ Emptied
      /\ Mine \in Blocks /\ Above \in Blocks /\ Above # Mine
  BY <1>1, LoneFacts
<1>3. \A t \in Thieves : tpc[t] = "idle"
  BY <1>1, LoneFacts
<1>4. Mine' = Mine /\ Above' = Above /\ Below' = Below /\ \A e : Block(e)' = Block(e)
  BY <1>1 DEF Mine, Above, Below, Block
<1>6. \A e \in Epochs : /\ e \in Nat /\ Block(e) \in Blocks
                        /\ e < owner_block => Block(e) # Mine
                        /\ Granting => Block(e) # Above
                        /\ Retaking /\ e < owner_block - 1 => Block(e) # Below
  BY <1>2, EpochsApart
<1>7. Window'
  BY <1>1, <1>2 DEF Window, Granting, Retaking, Resetting, Epochs, TypeOK, DequeConstants
<1>8. Ordered'
  BY <1>1, <1>2, <1>4 DEF Ordered, TypeOK, Blocks
<1>9. Emptied'
  BY <1>1, <1>2, <1>4, <1>6 DEF Emptied, Leaving, Granting, Retaking, Resetting, Epochs, Window, TypeOK, Blocks
<1>10. \A b \in Blocks : Live(b)' = Live(b)
  BY <1>1, <1>2, <1>4 DEF Live, Held, Resetting, TypeOK, Blocks
<1>11. Placed' = Placed
  BY <1>1, <1>2 DEF Placed, Pushing, TypeOK
<1> QED
  BY <1>1, <1>3, <1>7, <1>8, <1>9, <1>10, <1>11, OwnerStays DEF Granting, Resetting

LEMMA GrantCloseKeepsAll ==
  ASSUME DequeConstants, DequeInv, LoneInv, overlap = "no", overlap' = "no", GrantClose
  PROVE  LoneInv'
<1>1. /\ opc = "close" /\ opc' = "open"
      /\ head' = [head EXCEPT ![Mine] = tail[Mine]]
      /\ UNCHANGED <<tail, steal_tail, steal_head, entries, owner_block, thief_block, overflow,
                     oval, tpc, loc, pushed, taken, fell, early, overlap>>
  BY DEF GrantClose, StoreHead, Put, Owner, cursors, thieves, ghosts
<1>2. /\ TypeOK /\ InRange /\ Cursors /\ OwnerKnows /\ Window /\ Ordered /\ Emptied
      /\ Mine \in Blocks /\ Above \in Blocks /\ Above # Mine
  BY <1>1, LoneFacts
<1>3. \A t \in Thieves : tpc[t] = "idle"
  BY <1>1, LoneFacts
<1>4. Mine' = Mine /\ Above' = Above /\ Below' = Below /\ \A e : Block(e)' = Block(e)
  BY <1>1 DEF Mine, Above, Below, Block
<1>5. head[Mine] = oval /\ tail[Mine] = NE /\ steal_tail[Mine] = NE
  BY <1>1, <1>2 DEF OwnerKnows, Cursors, GrantedClosed, MineClosed, Resetting, InRange
<1>6. \A e \in Epochs : /\ e \in Nat /\ Block(e) \in Blocks
                        /\ e < owner_block => Block(e) # Mine
                        /\ Granting => Block(e) # Above
                        /\ Retaking /\ e < owner_block - 1 => Block(e) # Below
  BY <1>2, EpochsApart
<1>7. Window'
  BY <1>1, <1>2, <1>5 DEF Window, Granting, Retaking, Resetting, Epochs, TypeOK
<1>8. Ordered'
  BY <1>1, <1>2, <1>4, <1>5 DEF Ordered, TypeOK, Blocks
<1>9. Emptied'
  <2>1. (Leaving => tail[Mine] <= head[Mine])'
    BY <1>1, <1>2, <1>4, <1>5 DEF Emptied, Leaving, Retaking, Resetting, TypeOK, Blocks
  <2>2. ASSUME NEW e \in thief_block .. owner_block - 1
        PROVE  tail'[Block(e)] <= head'[Block(e)] \/ (opc' = "settled" /\ e = owner_block - 1)
    <3>1. /\ e \in Epochs /\ e < owner_block
          /\ tail[Block(e)] <= head[Block(e)] \/ (opc = "settled" /\ e = owner_block - 1)
      BY <1>2, <2>2 DEF Emptied, Epochs, TypeOK
    <3>2. /\ Block(e) \in Blocks /\ Block(e) # Mine
          /\ Granting => Block(e) # Above
          /\ Retaking /\ e < owner_block - 1 => Block(e) # Below
      BY <1>6, <3>1
    <3>3. e < owner_block - 1 \/ e = owner_block - 1
      BY <1>2, <2>2, <3>1 DEF TypeOK
    <3> QED BY <1>1, <1>2, <3>1, <3>2, <3>3 DEF Granting, Retaking, Resetting, TypeOK, Blocks
  <2> QED BY <1>1, <2>1, <2>2 DEF Emptied
<1>10. \A b \in Blocks : Live(b)' = Live(b)
  BY <1>1, <1>2, <1>4, <1>5 DEF Live, Held, Resetting, TypeOK, Blocks
<1>11. Placed' = Placed
  BY <1>1, <1>2 DEF Placed, Pushing, TypeOK
<1> QED
  BY <1>1, <1>3, <1>7, <1>8, <1>9, <1>10, <1>11, OwnerStays DEF Granting, Resetting

LEMMA GrantOpenKeepsAll ==
  ASSUME DequeConstants, DequeInv, LoneInv, overlap = "no", overlap' = "no", GrantOpen
  PROVE  LoneInv'
<1>1. /\ opc = "open" /\ opc' = "reclaim"
      /\ steal_tail' = [steal_tail EXCEPT ![Mine] = oval]
      /\ UNCHANGED <<head, tail, steal_head, entries, owner_block, thief_block, overflow, oval,
                     tpc, loc, pushed, taken, fell, early, overlap>>
  BY DEF GrantOpen, StoreStealTail, Put, Owner, cursors, thieves, ghosts
<1>2. /\ TypeOK /\ InRange /\ Cursors /\ OwnerKnows /\ Window /\ Ordered /\ Emptied
      /\ Mine \in Blocks /\ Above \in Blocks /\ Above # Mine
  BY <1>1, LoneFacts
<1>3. \A t \in Thieves : tpc[t] = "idle"
  BY <1>1, LoneFacts
<1>4. Mine' = Mine /\ Above' = Above /\ Below' = Below /\ \A e : Block(e)' = Block(e)
  BY <1>1 DEF Mine, Above, Below, Block
<1>5. head[Mine] = NE /\ tail[Mine] = NE /\ steal_tail[Mine] = NE
  BY <1>1, <1>2 DEF OwnerKnows, Cursors, GrantedClosed, MineClosed, Resetting, InRange
<1>6. \A e \in Epochs : /\ e \in Nat /\ Block(e) \in Blocks
                        /\ e < owner_block => Block(e) # Mine
                        /\ Granting => Block(e) # Above
                        /\ Retaking /\ e < owner_block - 1 => Block(e) # Below
  BY <1>2, EpochsApart
<1>7. Window'
  BY <1>1, <1>2, <1>5 DEF Window, Granting, Retaking, Resetting, Epochs, TypeOK
<1>8. Ordered'
  BY <1>1, <1>2, <1>4, <1>5 DEF Ordered, TypeOK, Blocks
<1>9. Emptied'
  BY <1>1, <1>2, <1>4, <1>6, <1>5 DEF Emptied, Leaving, Granting, Retaking, Resetting, Epochs, Window, TypeOK, Blocks
<1>10. \A b \in Blocks : Live(b)' = Live(b)
  BY <1>1, <1>2, <1>4, <1>5 DEF Live, Held, Resetting, TypeOK, Blocks
<1>11. Placed' = Placed
  BY <1>1, <1>2 DEF Placed, Pushing, TypeOK
<1> QED
  BY <1>1, <1>3, <1>7, <1>8, <1>9, <1>10, <1>11, OwnerStays DEF Granting, Resetting

LEMMA ReclaimedKeepsAll ==
  ASSUME DequeConstants, DequeInv, LoneInv, overlap = "no", overlap' = "no", Reclaim, opc' = "reset"
  PROVE  LoneInv'
<1>1. /\ opc \in {"reclaim", "drain"} /\ opc' = "reset"
      /\ UNCHANGED <<head, tail, steal_tail, steal_head, entries, owner_block, thief_block,
                     overflow, oval, tpc, loc, pushed, taken, fell, early, overlap>>
  BY DEF Reclaim, Sentinel, OwnerReads, blocks, cursors, thieves, ghosts
<1>2. /\ TypeOK /\ InRange /\ Cursors /\ OwnerKnows /\ Window /\ Ordered /\ Emptied
      /\ Mine \in Blocks /\ Above \in Blocks /\ Above # Mine
  BY <1>1, LoneFacts
<1>3. \A t \in Thieves : tpc[t] = "idle"
  BY <1>1, LoneFacts
<1>4. Mine' = Mine /\ Above' = Above /\ Below' = Below /\ \A e : Block(e)' = Block(e)
  BY <1>1 DEF Mine, Above, Below, Block
<1>6. \A e \in Epochs : /\ e \in Nat /\ Block(e) \in Blocks
                        /\ e < owner_block => Block(e) # Mine
                        /\ Granting => Block(e) # Above
                        /\ Retaking /\ e < owner_block - 1 => Block(e) # Below
  BY <1>2, EpochsApart
<1>7. Window'
  BY <1>1, <1>2 DEF Window, Granting, Retaking, Resetting, Epochs, TypeOK
<1>8. Ordered'
  BY <1>1, <1>2, <1>4 DEF Ordered, TypeOK, Blocks
<1>9. Emptied'
  BY <1>1, <1>2, <1>4, <1>6 DEF Emptied, Leaving, Granting, Retaking, Resetting, Epochs, Window, TypeOK, Blocks
<1>10. \A b \in Blocks : Live(b)' = Live(b)
  BY <1>1, <1>2, <1>4 DEF Live, Held, Resetting, TypeOK, Blocks
<1>11. Placed' = Placed
  BY <1>1, <1>2 DEF Placed, Pushing, TypeOK
<1> QED
  BY <1>1, <1>3, <1>7, <1>8, <1>9, <1>10, <1>11, OwnerStays DEF Granting, Resetting

LEMMA DrainKeepsAll ==
  ASSUME DequeConstants, DequeInv, LoneInv, overlap = "no", overlap' = "no", Reclaim, opc' = "drain"
  PROVE  LoneInv'
<1>1. /\ opc = "reclaim" /\ opc' = "drain"
      /\ oval' = tail[Above]
      /\ UNCHANGED <<head, tail, steal_tail, steal_head, entries, owner_block, thief_block,
                     overflow, tpc, loc, pushed, taken, fell, early, overlap>>
  BY DEF Reclaim, Sentinel, OwnerReads, blocks, cursors, thieves, ghosts
<1>2. /\ TypeOK /\ InRange /\ Cursors /\ OwnerKnows /\ Window /\ Ordered /\ Emptied
      /\ Mine \in Blocks /\ Above \in Blocks /\ Above # Mine
  BY <1>1, LoneFacts
<1>3. \A t \in Thieves : tpc[t] = "idle"
  BY <1>1, LoneFacts
<1>4. Mine' = Mine /\ Above' = Above /\ Below' = Below /\ \A e : Block(e)' = Block(e)
  BY <1>1 DEF Mine, Above, Below, Block
<1>6. \A e \in Epochs : /\ e \in Nat /\ Block(e) \in Blocks
                        /\ e < owner_block => Block(e) # Mine
                        /\ Granting => Block(e) # Above
                        /\ Retaking /\ e < owner_block - 1 => Block(e) # Below
  BY <1>2, EpochsApart
<1>7. Window'
  BY <1>1, <1>2 DEF Window, Granting, Retaking, Resetting, Epochs, TypeOK
<1>8. Ordered'
  BY <1>1, <1>2, <1>4 DEF Ordered, TypeOK, Blocks
<1>9. Emptied'
  BY <1>1, <1>2, <1>4, <1>6 DEF Emptied, Leaving, Granting, Retaking, Resetting, Epochs, Window, TypeOK, Blocks
<1>10. \A b \in Blocks : Live(b)' = Live(b)
  BY <1>1, <1>2, <1>4 DEF Live, Held, Resetting, TypeOK, Blocks
<1>11. Placed' = Placed
  BY <1>1, <1>2 DEF Placed, Pushing, TypeOK
<1> QED
  BY <1>1, <1>3, <1>7, <1>8, <1>9, <1>10, <1>11, OwnerStays DEF Granting, Resetting

LEMMA Reset1KeepsAll ==
  ASSUME DequeConstants, DequeInv, LoneInv, overlap = "no", overlap' = "no", Reset, opc = "reset"
  PROVE  LoneInv'
<1>1. /\ opc = "reset" /\ opc' = "reset_tail"
      /\ head' = [head EXCEPT ![Above] = 0]
      /\ UNCHANGED <<tail, steal_tail, steal_head, entries, owner_block, thief_block, overflow,
                     oval, tpc, loc, pushed, taken, fell, overlap>>
  BY DEF Reset, StoreHead, Put, Owner, cursors, thieves, ghosts
<1>2. /\ TypeOK /\ InRange /\ Cursors /\ OwnerKnows /\ Window /\ Ordered /\ Emptied
      /\ Mine \in Blocks /\ Above \in Blocks /\ Above # Mine
  BY <1>1, LoneFacts
<1>3. \A t \in Thieves : tpc[t] = "idle"
  BY <1>1, LoneFacts
<1>4. Mine' = Mine /\ Above' = Above /\ Below' = Below /\ \A e : Block(e)' = Block(e)
  BY <1>1 DEF Mine, Above, Below, Block
<1>5. steal_tail[Above] = NE
  BY <1>1, <1>2 DEF OwnerKnows, Cursors, GrantedClosed, MineClosed, Resetting, InRange
<1>6. \A e \in Epochs : /\ e \in Nat /\ Block(e) \in Blocks
                        /\ e < owner_block => Block(e) # Mine
                        /\ Granting => Block(e) # Above
                        /\ Retaking /\ e < owner_block - 1 => Block(e) # Below
  BY <1>2, EpochsApart
<1>7. Window'
  BY <1>1, <1>2, <1>5 DEF Window, Granting, Retaking, Resetting, Epochs, TypeOK
<1>8. Ordered'
  BY <1>1, <1>2, <1>4, <1>5 DEF Ordered, TypeOK, Blocks
<1>9. Emptied'
  <2>1. (Leaving => tail[Mine] <= head[Mine])'
    BY <1>1, <1>2, <1>4, <1>5 DEF Emptied, Leaving, Retaking, Resetting, TypeOK, Blocks
  <2>2. ASSUME NEW e \in thief_block .. owner_block - 1
        PROVE  tail'[Block(e)] <= head'[Block(e)] \/ (opc' = "settled" /\ e = owner_block - 1)
    <3>1. /\ e \in Epochs /\ e < owner_block
          /\ tail[Block(e)] <= head[Block(e)] \/ (opc = "settled" /\ e = owner_block - 1)
      BY <1>2, <2>2 DEF Emptied, Epochs, TypeOK
    <3>2. /\ Block(e) \in Blocks /\ Block(e) # Mine
          /\ Granting => Block(e) # Above
          /\ Retaking /\ e < owner_block - 1 => Block(e) # Below
      BY <1>6, <3>1
    <3>3. e < owner_block - 1 \/ e = owner_block - 1
      BY <1>2, <2>2, <3>1 DEF TypeOK
    <3> QED BY <1>1, <1>2, <3>1, <3>2, <3>3 DEF Granting, Retaking, Resetting, TypeOK, Blocks
  <2> QED BY <1>1, <2>1, <2>2 DEF Emptied
<1>10. \A b \in Blocks : Live(b)' = Live(b) \/ (b = Above /\ Live(b)' \subseteq Live(b))
  BY <1>1, <1>2, <1>4, <1>5 DEF Live, Held, Resetting, TypeOK, Blocks
<1>11. Placed' = Placed
  BY <1>1, <1>2 DEF Placed, Pushing, TypeOK
<1> QED
  BY <1>1, <1>3, <1>7, <1>8, <1>9, <1>10, <1>11, OwnerStays DEF Granting, Resetting

LEMMA Reset2KeepsAll ==
  ASSUME DequeConstants, DequeInv, LoneInv, overlap = "no", overlap' = "no", Reset, opc = "reset_tail"
  PROVE  LoneInv'
<1>1. /\ opc = "reset_tail" /\ opc' = "reset_commits"
      /\ tail' = [tail EXCEPT ![Above] = 0]
      /\ UNCHANGED <<head, steal_tail, steal_head, entries, owner_block, thief_block, overflow,
                     oval, tpc, loc, pushed, taken, fell, overlap>>
  BY DEF Reset, StoreTail, Put, Owner, cursors, thieves, ghosts
<1>2. /\ TypeOK /\ InRange /\ Cursors /\ OwnerKnows /\ Window /\ Ordered /\ Emptied
      /\ Mine \in Blocks /\ Above \in Blocks /\ Above # Mine
  BY <1>1, LoneFacts
<1>3. \A t \in Thieves : tpc[t] = "idle"
  BY <1>1, LoneFacts
<1>4. Mine' = Mine /\ Above' = Above /\ Below' = Below /\ \A e : Block(e)' = Block(e)
  BY <1>1 DEF Mine, Above, Below, Block
<1>5. steal_tail[Above] = NE /\ head[Above] = 0
  BY <1>1, <1>2 DEF OwnerKnows, Cursors, GrantedClosed, MineClosed, Resetting, InRange
<1>6. \A e \in Epochs : /\ e \in Nat /\ Block(e) \in Blocks
                        /\ e < owner_block => Block(e) # Mine
                        /\ Granting => Block(e) # Above
                        /\ Retaking /\ e < owner_block - 1 => Block(e) # Below
  BY <1>2, EpochsApart
<1>7. Window'
  BY <1>1, <1>2, <1>5 DEF Window, Granting, Retaking, Resetting, Epochs, TypeOK
<1>8. Ordered'
  BY <1>1, <1>2, <1>4, <1>5 DEF Ordered, TypeOK, Blocks
<1>9. Emptied'
  BY <1>1, <1>2, <1>4, <1>6, <1>5, SMTT(30) DEF Emptied, Leaving, Granting, Retaking, Resetting, Epochs, Window, TypeOK, Blocks
<1>10. \A b \in Blocks : Live(b)' = Live(b) \/ (b = Above /\ Live(b)' \subseteq Live(b))
  BY <1>1, <1>2, <1>4, <1>5, EmptyRange, ZenonT(40) DEF Live, Held, Resetting, TypeOK, Blocks
<1>11. Placed' = Placed
  BY <1>1, <1>2 DEF Placed, Pushing, TypeOK
<1> QED
  BY <1>1, <1>3, <1>7, <1>8, <1>9, <1>10, <1>11, OwnerStays DEF Granting, Resetting

LEMMA Reset3KeepsAll ==
  ASSUME DequeConstants, DequeInv, LoneInv, overlap = "no", overlap' = "no", Reset, opc = "reset_commits"
  PROVE  LoneInv'
<1>1. /\ opc = "reset_commits" /\ opc' = "reset_steals"
      /\ steal_head' = [steal_head EXCEPT ![Above] = 0]
      /\ UNCHANGED <<head, tail, steal_tail, entries, owner_block, thief_block, overflow, oval,
                     tpc, loc, pushed, taken, fell, overlap>>
  BY DEF Reset, StoreStealHead, Put, Owner, cursors, thieves, ghosts
<1>2. /\ TypeOK /\ InRange /\ Cursors /\ OwnerKnows /\ Window /\ Ordered /\ Emptied
      /\ Mine \in Blocks /\ Above \in Blocks /\ Above # Mine
  BY <1>1, LoneFacts
<1>3. \A t \in Thieves : tpc[t] = "idle"
  BY <1>1, LoneFacts
<1>4. Mine' = Mine /\ Above' = Above /\ Below' = Below /\ \A e : Block(e)' = Block(e)
  BY <1>1 DEF Mine, Above, Below, Block
<1>5. steal_tail[Above] = NE /\ head[Above] = 0 /\ tail[Above] = 0
  BY <1>1, <1>2 DEF OwnerKnows, Cursors, GrantedClosed, MineClosed, Resetting, InRange
<1>6. \A e \in Epochs : /\ e \in Nat /\ Block(e) \in Blocks
                        /\ e < owner_block => Block(e) # Mine
                        /\ Granting => Block(e) # Above
                        /\ Retaking /\ e < owner_block - 1 => Block(e) # Below
  BY <1>2, EpochsApart
<1>7. Window'
  BY <1>1, <1>2, <1>5 DEF Window, Granting, Retaking, Resetting, Epochs, TypeOK
<1>8. Ordered'
  BY <1>1, <1>2, <1>4, <1>5 DEF Ordered, TypeOK, Blocks
<1>9. Emptied'
  BY <1>1, <1>2, <1>4, <1>6, <1>5 DEF Emptied, Leaving, Granting, Retaking, Resetting, Epochs, Window, TypeOK, Blocks
<1>10. \A b \in Blocks : Live(b)' = Live(b)
  BY <1>1, <1>2, <1>4, <1>5 DEF Live, Held, Resetting, TypeOK, Blocks
<1>11. Placed' = Placed
  BY <1>1, <1>2 DEF Placed, Pushing, TypeOK
<1> QED
  BY <1>1, <1>3, <1>7, <1>8, <1>9, <1>10, <1>11, OwnerStays DEF Granting, Resetting

LEMMA Reset4KeepsAll ==
  ASSUME DequeConstants, DequeInv, LoneInv, overlap = "no", overlap' = "no", Reset, opc = "reset_steals"
  PROVE  LoneInv'
<1>1. /\ opc = "reset_steals" /\ opc' = "push"
      /\ steal_tail' = [steal_tail EXCEPT ![Above] = NE]
      /\ owner_block' = owner_block + 1
      /\ UNCHANGED <<head, tail, steal_head, entries, thief_block, overflow, oval, tpc, loc,
                     pushed, taken, fell, overlap>>
  BY DEF Reset, Sentinel, StoreStealTail, Put, Owner, cursors, thieves, ghosts
<1>2. /\ TypeOK /\ InRange /\ Cursors /\ OwnerKnows /\ Window /\ Ordered /\ Emptied
      /\ Mine \in Blocks /\ Above \in Blocks /\ Above # Mine
  BY <1>1, LoneFacts
<1>3. \A t \in Thieves : tpc[t] = "idle"
  BY <1>1, LoneFacts
<1>4. Mine' = Above /\ \A e : Block(e)' = Block(e)
  BY <1>1, <1>2 DEF Mine, Above, Below, Block
<1>5. steal_tail[Above] = NE /\ head[Above] = 0 /\ tail[Above] = 0
  BY <1>1, <1>2 DEF OwnerKnows, Cursors, GrantedClosed, MineClosed, Resetting, InRange
<1>6. \A e \in Epochs : /\ e \in Nat /\ Block(e) \in Blocks
                        /\ e < owner_block => Block(e) # Mine
                        /\ Granting => Block(e) # Above
                        /\ Retaking /\ e < owner_block - 1 => Block(e) # Below
  BY <1>2, EpochsApart
<1>7. Window'
  BY <1>1, <1>2, <1>5 DEF Window, Granting, Retaking, Resetting, Epochs, TypeOK
<1>8. Ordered'
  BY <1>1, <1>2, <1>4, <1>5 DEF Ordered, TypeOK, Blocks
<1>9. Emptied'
  <2>1. ~Leaving'
    BY <1>1 DEF Leaving, Retaking, Resetting
  <2>2. ASSUME NEW e \in thief_block .. owner_block
        PROVE  tail'[Block(e)] <= head'[Block(e)]
    <3>1. e \in Epochs /\ tail[Block(e)] <= head[Block(e)]
      BY <1>1, <1>2, <2>2 DEF Emptied, Epochs, Leaving, Resetting, Mine, TypeOK
    <3>2. Block(e) \in Blocks /\ Block(e) # Above
      BY <1>1, <1>6, <3>1 DEF Granting, Resetting
    <3> QED BY <1>1, <3>1, <3>2
  <2>3. owner_block' - 1 = owner_block /\ thief_block' = thief_block
    BY <1>1, <1>2 DEF TypeOK
  <2> QED BY <2>1, <2>2, <2>3 DEF Emptied
<1>10. \A b \in Blocks : Live(b)' = Live(b)
  BY <1>1, <1>2, <1>4, <1>5 DEF Live, Held, Resetting, TypeOK, Blocks
<1>11. Placed' = Placed
  BY <1>1 DEF Placed, Pushing
<1>12. \A e \in Epochs : e \in Epochs'
  BY <1>1, <1>2 DEF Epochs, TypeOK
<1>13. \A b \in Blocks : \A j \in Live(b)' : j \in Live(b) /\ entries'[b][j] = entries[b][j]
  BY <1>1, <1>10
<1>14. \A e \in Epochs : Live(Block(e))' = Live(Block(e))
  BY <1>6, <1>10 DEF Block
<1>15. \A e \in Epochs : \A j \in Live(Block(e)) :
         e \in Epochs' /\ j \in Live(Block(e))' /\ entries'[Block(e)][j] = entries[Block(e)][j]
  BY <1>1, <1>12, <1>14
<1> QED
  BY <1>1, <1>3, <1>7, <1>8, <1>9, <1>11, <1>13, <1>15, OwnerMoves

LEMMA PopKeepsAll ==
  ASSUME DequeConstants, DequeInv, LoneInv, overlap = "no", overlap' = "no", Pop
  PROVE  LoneInv'
<1>1. /\ opc = "idle" /\ opc' = "pop"
      /\ \A t \in Thieves : tpc[t] = "idle"
      /\ UNCHANGED <<head, tail, steal_tail, steal_head, entries, owner_block, thief_block,
                     overflow, oval, tpc, loc, pushed, taken, fell, early>>
  BY DEF Pop, Begins, Owner, blocks, cursors, thieves
<1>2. /\ TypeOK /\ InRange /\ Cursors /\ OwnerKnows /\ Window /\ Ordered /\ Emptied
      /\ Mine \in Blocks /\ Above \in Blocks /\ Above # Mine
  BY <1>1, LoneFacts
<1>3. \A t \in Thieves : tpc[t] = "idle"
  BY <1>1
<1>4. Mine' = Mine /\ Above' = Above /\ Below' = Below /\ \A e : Block(e)' = Block(e)
  BY <1>1 DEF Mine, Above, Below, Block
<1>6. \A e \in Epochs : /\ e \in Nat /\ Block(e) \in Blocks
                        /\ e < owner_block => Block(e) # Mine
                        /\ Granting => Block(e) # Above
                        /\ Retaking /\ e < owner_block - 1 => Block(e) # Below
  BY <1>2, EpochsApart
<1>7. Window'
  BY <1>1, <1>2 DEF Window, Granting, Retaking, Resetting, Epochs, TypeOK
<1>8. Ordered'
  BY <1>1, <1>2, <1>4 DEF Ordered, TypeOK, Blocks
<1>9. Emptied'
  BY <1>1, <1>2, <1>4, <1>6 DEF Emptied, Leaving, Granting, Retaking, Resetting, Epochs, Window, TypeOK, Blocks
<1>10. \A b \in Blocks : Live(b)' = Live(b)
  BY <1>1, <1>2, <1>4 DEF Live, Held, Resetting, TypeOK, Blocks
<1>11. Placed' = Placed
  BY <1>1, <1>2 DEF Placed, Pushing, TypeOK
<1> QED
  BY <1>1, <1>3, <1>7, <1>8, <1>9, <1>10, <1>11, OwnerStays DEF Granting, Resetting

LEMMA PopLookKeepsAll ==
  ASSUME DequeConstants, DequeInv, LoneInv, overlap = "no", overlap' = "no", PopLook
  PROVE  LoneInv'
<1>1. /\ opc = "pop" /\ opc' = (CASE tail[Mine] > head[Mine] + 1 -> "top"
                        [] tail[Mine] = head[Mine] + 1 -> "last"
                        [] OTHER -> "retreat")
      /\ oval' = head[Mine]
      /\ UNCHANGED <<head, tail, steal_tail, steal_head, entries, owner_block, thief_block,
                     overflow, tpc, loc, pushed, taken, fell, early, overlap>>
  BY DEF PopLook, OwnerReads, blocks, cursors, thieves, ghosts
<1>2. /\ TypeOK /\ InRange /\ Cursors /\ OwnerKnows /\ Window /\ Ordered /\ Emptied
      /\ Mine \in Blocks /\ Above \in Blocks /\ Above # Mine
  BY <1>1, LoneFacts
<1>3. \A t \in Thieves : tpc[t] = "idle"
  BY <1>1, LoneFacts
<1>4. Mine' = Mine /\ Above' = Above /\ Below' = Below /\ \A e : Block(e)' = Block(e)
  BY <1>1 DEF Mine, Above, Below, Block
<1>6. \A e \in Epochs : /\ e \in Nat /\ Block(e) \in Blocks
                        /\ e < owner_block => Block(e) # Mine
                        /\ Granting => Block(e) # Above
                        /\ Retaking /\ e < owner_block - 1 => Block(e) # Below
  BY <1>2, EpochsApart
<1>7. Window'
  BY <1>1, <1>2 DEF Window, Granting, Retaking, Resetting, Epochs, TypeOK
<1>8. Ordered'
  BY <1>1, <1>2, <1>4 DEF Ordered, TypeOK, Blocks
<1>9. Emptied'
  <2>1. (Leaving => tail[Mine] <= head[Mine])'
    BY <1>1, <1>2, <1>4 DEF Emptied, Leaving, Retaking, Resetting, TypeOK, Blocks
  <2>2. ASSUME NEW e \in thief_block .. owner_block - 1
        PROVE  tail'[Block(e)] <= head'[Block(e)] \/ (opc' = "settled" /\ e = owner_block - 1)
    <3>1. /\ e \in Epochs /\ e < owner_block
          /\ tail[Block(e)] <= head[Block(e)] \/ (opc = "settled" /\ e = owner_block - 1)
      BY <1>2, <2>2 DEF Emptied, Epochs, TypeOK
    <3>2. /\ Block(e) \in Blocks /\ Block(e) # Mine
          /\ Granting => Block(e) # Above
          /\ Retaking /\ e < owner_block - 1 => Block(e) # Below
      BY <1>6, <3>1
    <3>3. e < owner_block - 1 \/ e = owner_block - 1
      BY <1>2, <2>2, <3>1 DEF TypeOK
    <3> QED BY <1>1, <1>2, <3>1, <3>2, <3>3 DEF Granting, Retaking, Resetting, TypeOK, Blocks
  <2> QED BY <1>1, <2>1, <2>2 DEF Emptied
<1>10. \A b \in Blocks : Live(b)' = Live(b)
  BY <1>1, <1>2, <1>4 DEF Live, Held, Resetting, TypeOK, Blocks
<1>11. Placed' = Placed
  BY <1>1, <1>2 DEF Placed, Pushing, TypeOK
<1> QED
  BY <1>1, <1>3, <1>7, <1>8, <1>9, <1>10, <1>11, OwnerStays DEF Granting, Resetting

LEMMA PopLastKeepsAll ==
  ASSUME DequeConstants, DequeInv, LoneInv, overlap = "no", overlap' = "no", PopLast
  PROVE  LoneInv'
<1>1. /\ opc = "last" /\ opc' = "claim"
      /\ tail' = [tail EXCEPT ![Mine] = oval]
      /\ UNCHANGED <<head, steal_tail, steal_head, entries, owner_block, thief_block, overflow,
                     oval, tpc, loc, pushed, taken, fell, early, overlap>>
  BY DEF PopLast, StoreTail, Put, Owner, cursors, thieves, ghosts
<1>2. /\ TypeOK /\ InRange /\ Cursors /\ OwnerKnows /\ Window /\ Ordered /\ Emptied
      /\ Mine \in Blocks /\ Above \in Blocks /\ Above # Mine
  BY <1>1, LoneFacts
<1>3. \A t \in Thieves : tpc[t] = "idle"
  BY <1>1, LoneFacts
<1>4. Mine' = Mine /\ Above' = Above /\ Below' = Below /\ \A e : Block(e)' = Block(e)
  BY <1>1 DEF Mine, Above, Below, Block
<1>5. tail[Mine] = oval + 1 /\ head[Mine] = oval /\ oval < NE /\ steal_tail[Mine] = NE
  BY <1>1, <1>2 DEF OwnerKnows, Cursors, GrantedClosed, MineClosed, Resetting, InRange
<1>6. \A e \in Epochs : /\ e \in Nat /\ Block(e) \in Blocks
                        /\ e < owner_block => Block(e) # Mine
                        /\ Granting => Block(e) # Above
                        /\ Retaking /\ e < owner_block - 1 => Block(e) # Below
  BY <1>2, EpochsApart
<1>7. Window'
  BY <1>1, <1>2, <1>5 DEF Window, Granting, Retaking, Resetting, Epochs, TypeOK
<1>8. Ordered'
  BY <1>1, <1>2, <1>4, <1>5 DEF Ordered, TypeOK, Blocks
<1>9. Emptied'
  BY <1>1, <1>2, <1>4, <1>6, <1>5 DEF Emptied, Leaving, Granting, Retaking, Resetting, Epochs, Window, TypeOK, Blocks
<1>10. \A b \in Blocks : Live(b)' = Live(b)
  <2>1. Held(Mine) = oval .. (oval + 1) - 1 /\ Held(Mine)' = {oval}
    BY <1>1, <1>2, <1>4, <1>5 DEF Held, TypeOK, Blocks
  <2>2. Held(Mine)' = Held(Mine)
    BY <1>2, <2>1 DEF TypeOK
  <2>3. \A b \in Blocks : b # Mine => Held(b)' = Held(b)
    BY <1>1, <1>2, <1>4 DEF Held, TypeOK, Blocks
  <2> QED BY <1>1, <1>4, <2>2, <2>3 DEF Live
<1>11. Placed' = Placed
  BY <1>1, <1>2 DEF Placed, Pushing, TypeOK
<1> QED
  BY <1>1, <1>3, <1>7, <1>8, <1>9, <1>10, <1>11, OwnerStays DEF Granting, Resetting

LEMMA PopResetHeadKeepsAll ==
  ASSUME DequeConstants, DequeInv, LoneInv, overlap = "no", overlap' = "no", PopResetHead
  PROVE  LoneInv'
<1>1. /\ opc \in {"won", "lost"} /\ opc' = (IF opc = "won" THEN "won_tail" ELSE "lost_tail")
      /\ head' = [head EXCEPT ![Mine] = 0]
      /\ UNCHANGED <<tail, steal_tail, steal_head, entries, owner_block, thief_block, overflow,
                     oval, tpc, loc, pushed, taken, fell, early, overlap>>
  BY DEF PopResetHead, StoreHead, Put, Owner, cursors, thieves, ghosts
<1>2. /\ TypeOK /\ InRange /\ Cursors /\ OwnerKnows /\ Window /\ Ordered /\ Emptied
      /\ Mine \in Blocks /\ Above \in Blocks /\ Above # Mine
  BY <1>1, LoneFacts
<1>3. \A t \in Thieves : tpc[t] = "idle"
  BY <1>1, LoneFacts
<1>4. Mine' = Mine /\ Above' = Above /\ Below' = Below /\ \A e : Block(e)' = Block(e)
  BY <1>1 DEF Mine, Above, Below, Block
<1>5. opc = "won" /\ tail[Mine] = oval /\ head[Mine] = oval + 1 /\ steal_tail[Mine] = NE
  BY <1>1, <1>2 DEF OwnerKnows, Cursors, GrantedClosed, MineClosed, Resetting, InRange
<1>6. \A e \in Epochs : /\ e \in Nat /\ Block(e) \in Blocks
                        /\ e < owner_block => Block(e) # Mine
                        /\ Granting => Block(e) # Above
                        /\ Retaking /\ e < owner_block - 1 => Block(e) # Below
  BY <1>2, EpochsApart
<1>7. Window'
  BY <1>1, <1>2, <1>5 DEF Window, Granting, Retaking, Resetting, Epochs, TypeOK
<1>8. Ordered'
  BY <1>1, <1>2, <1>4, <1>5 DEF Ordered, TypeOK, Blocks
<1>9. Emptied'
  <2>1. (Leaving => tail[Mine] <= head[Mine])'
    BY <1>1, <1>2, <1>4, <1>5 DEF Emptied, Leaving, Retaking, Resetting, TypeOK, Blocks
  <2>2. ASSUME NEW e \in thief_block .. owner_block - 1
        PROVE  tail'[Block(e)] <= head'[Block(e)] \/ (opc' = "settled" /\ e = owner_block - 1)
    <3>1. /\ e \in Epochs /\ e < owner_block
          /\ tail[Block(e)] <= head[Block(e)] \/ (opc = "settled" /\ e = owner_block - 1)
      BY <1>2, <2>2 DEF Emptied, Epochs, TypeOK
    <3>2. /\ Block(e) \in Blocks /\ Block(e) # Mine
          /\ Granting => Block(e) # Above
          /\ Retaking /\ e < owner_block - 1 => Block(e) # Below
      BY <1>6, <3>1
    <3>3. e < owner_block - 1 \/ e = owner_block - 1
      BY <1>2, <2>2, <3>1 DEF TypeOK
    <3> QED BY <1>1, <1>2, <3>1, <3>2, <3>3 DEF Granting, Retaking, Resetting, TypeOK, Blocks
  <2> QED BY <1>1, <2>1, <2>2 DEF Emptied
<1>10. \A b \in Blocks : Live(b)' = Live(b)
  <2>1. Held(Mine) = oval + 1 .. oval - 1 /\ Held(Mine)' = {}
    BY <1>1, <1>2, <1>4, <1>5 DEF Held, TypeOK, Blocks
  <2>2. Held(Mine)' = Held(Mine)
    BY <1>2, <2>1 DEF TypeOK
  <2>3. \A b \in Blocks : b # Mine => Held(b)' = Held(b)
    BY <1>1, <1>2, <1>4 DEF Held, TypeOK, Blocks
  <2> QED BY <1>1, <1>4, <2>2, <2>3 DEF Live
<1>11. Placed' = Placed
  BY <1>1, <1>2 DEF Placed, Pushing, TypeOK
<1> QED
  BY <1>1, <1>3, <1>7, <1>8, <1>9, <1>10, <1>11, OwnerStays DEF Granting, Resetting

LEMMA PopResetTailKeepsAll ==
  ASSUME DequeConstants, DequeInv, LoneInv, overlap = "no", overlap' = "no", PopResetTail
  PROVE  LoneInv'
<1>1. /\ opc \in {"won_tail", "lost_tail"} /\ opc' = (IF opc = "won_tail" THEN "idle" ELSE "retreat")
      /\ tail' = [tail EXCEPT ![Mine] = 0]
      /\ UNCHANGED <<head, steal_tail, steal_head, entries, owner_block, thief_block, overflow,
                     oval, tpc, loc, pushed, taken, fell, early, overlap>>
  BY DEF PopResetTail, StoreTail, Put, Owner, cursors, thieves, ghosts
<1>2. /\ TypeOK /\ InRange /\ Cursors /\ OwnerKnows /\ Window /\ Ordered /\ Emptied
      /\ Mine \in Blocks /\ Above \in Blocks /\ Above # Mine
  BY <1>1, LoneFacts
<1>3. \A t \in Thieves : tpc[t] = "idle"
  BY <1>1, LoneFacts
<1>4. Mine' = Mine /\ Above' = Above /\ Below' = Below /\ \A e : Block(e)' = Block(e)
  BY <1>1 DEF Mine, Above, Below, Block
<1>5. opc = "won_tail" /\ head[Mine] = 0 /\ steal_tail[Mine] = NE
  BY <1>1, <1>2 DEF OwnerKnows, Cursors, GrantedClosed, MineClosed, Resetting, InRange
<1>6. \A e \in Epochs : /\ e \in Nat /\ Block(e) \in Blocks
                        /\ e < owner_block => Block(e) # Mine
                        /\ Granting => Block(e) # Above
                        /\ Retaking /\ e < owner_block - 1 => Block(e) # Below
  BY <1>2, EpochsApart
<1>7. Window'
  BY <1>1, <1>2, <1>5 DEF Window, Granting, Retaking, Resetting, Epochs, TypeOK
<1>8. Ordered'
  BY <1>1, <1>2, <1>4, <1>5 DEF Ordered, TypeOK, Blocks
<1>9. Emptied'
  BY <1>1, <1>2, <1>4, <1>6, <1>5, SMTT(30) DEF Emptied, Leaving, Granting, Retaking, Resetting, Epochs, Window, TypeOK, Blocks
<1>10. \A b \in Blocks : Live(b)' = Live(b)
  BY <1>1, <1>2, <1>4, <1>5, EmptyRange DEF Live, Held, Resetting, TypeOK, Blocks
<1>11. Placed' = Placed
  BY <1>1, <1>2 DEF Placed, Pushing, TypeOK
<1> QED
  BY <1>1, <1>3, <1>7, <1>8, <1>9, <1>10, <1>11, OwnerStays DEF Granting, Resetting

LEMMA PopRetreatKeepsAll ==
  ASSUME DequeConstants, DequeInv, LoneInv, overlap = "no", overlap' = "no", PopRetreat
  PROVE  LoneInv'
<1>1. /\ opc = "retreat" /\ opc' = (IF owner_block <= thief_block THEN "idle" ELSE "takeover")
      /\ UNCHANGED <<head, tail, steal_tail, steal_head, entries, owner_block, thief_block,
                     overflow, oval, tpc, loc, pushed, taken, fell, early, overlap>>
  BY DEF PopRetreat, OwnerReads, blocks, cursors, thieves, ghosts
<1>2. /\ TypeOK /\ InRange /\ Cursors /\ OwnerKnows /\ Window /\ Ordered /\ Emptied
      /\ Mine \in Blocks /\ Above \in Blocks /\ Above # Mine
  BY <1>1, LoneFacts
<1>3. \A t \in Thieves : tpc[t] = "idle"
  BY <1>1, LoneFacts
<1>4. Mine' = Mine /\ Above' = Above /\ Below' = Below /\ \A e : Block(e)' = Block(e)
  BY <1>1 DEF Mine, Above, Below, Block
<1>6. \A e \in Epochs : /\ e \in Nat /\ Block(e) \in Blocks
                        /\ e < owner_block => Block(e) # Mine
                        /\ Granting => Block(e) # Above
                        /\ Retaking /\ e < owner_block - 1 => Block(e) # Below
  BY <1>2, EpochsApart
<1>7. Window'
  BY <1>1, <1>2 DEF Window, Granting, Retaking, Resetting, Epochs, TypeOK
<1>8. Ordered'
  BY <1>1, <1>2, <1>4 DEF Ordered, TypeOK, Blocks
<1>9. Emptied'
  BY <1>1, <1>2, <1>4, <1>6 DEF Emptied, Leaving, Granting, Retaking, Resetting, Epochs, Window, TypeOK, Blocks
<1>10. \A b \in Blocks : Live(b)' = Live(b)
  BY <1>1, <1>2, <1>4 DEF Live, Held, Resetting, TypeOK, Blocks
<1>11. Placed' = Placed
  BY <1>1, <1>2 DEF Placed, Pushing, TypeOK
<1> QED
  BY <1>1, <1>3, <1>7, <1>8, <1>9, <1>10, <1>11, OwnerStays DEF Granting, Resetting

LEMMA TakeoverKeepsAll ==
  ASSUME DequeConstants, DequeInv, LoneInv, overlap = "no", overlap' = "no", Takeover, steal_tail[Below] # NE
  PROVE  LoneInv'
<1>1. /\ opc = "takeover" /\ opc' = "settle"
      /\ steal_tail' = [steal_tail EXCEPT ![Below] = NE]
      /\ oval' = steal_tail[Below]
      /\ UNCHANGED <<head, tail, steal_head, entries, owner_block, thief_block, overflow, tpc,
                     loc, pushed, taken, fell, early, overlap>>
  BY DEF Takeover, StoreStealTail, Sentinel, Put, cursors, thieves, ghosts
<1>2. /\ TypeOK /\ InRange /\ Cursors /\ OwnerKnows /\ Window /\ Ordered /\ Emptied
      /\ Mine \in Blocks /\ Above \in Blocks /\ Above # Mine
      /\ Below \in Blocks /\ Below # Mine
  BY <1>1, LoneFacts DEF Retaking
<1>3. \A t \in Thieves : tpc[t] = "idle"
  BY <1>1, LoneFacts
<1>4. Mine' = Mine /\ Above' = Above /\ Below' = Below /\ \A e : Block(e)' = Block(e)
  BY <1>1 DEF Mine, Above, Below, Block
<1>5. head[Below] = NE /\ tail[Below] = NE
  BY <1>1, <1>2 DEF OwnerKnows, Cursors, GrantedClosed, MineClosed, Resetting, InRange
<1>6. \A e \in Epochs : /\ e \in Nat /\ Block(e) \in Blocks
                        /\ e < owner_block => Block(e) # Mine
                        /\ Granting => Block(e) # Above
                        /\ Retaking /\ e < owner_block - 1 => Block(e) # Below
  BY <1>2, EpochsApart
<1>7. Window'
  BY <1>1, <1>2, <1>5 DEF Window, Granting, Retaking, Resetting, Epochs, TypeOK, DequeConstants
<1>8. Ordered'
  BY <1>1, <1>2, <1>4, <1>5 DEF Ordered, TypeOK, Blocks
<1>9. Emptied'
  BY <1>1, <1>2, <1>4, <1>6, <1>5 DEF Emptied, Leaving, Granting, Retaking, Resetting, Epochs, Window, TypeOK, Blocks
<1>10. \A b \in Blocks : Live(b)' = Live(b)
  BY <1>1, <1>2, <1>4, <1>5 DEF Live, Held, Resetting, TypeOK, Blocks
<1>11. Placed' = Placed
  BY <1>1, <1>2 DEF Placed, Pushing, TypeOK
<1> QED
  BY <1>1, <1>3, <1>7, <1>8, <1>9, <1>10, <1>11, OwnerStays DEF Granting, Resetting

LEMMA TakeoverSpinKeepsAll ==
  ASSUME DequeConstants, DequeInv, LoneInv, overlap = "no", overlap' = "no", TakeoverSpin
  PROVE  LoneInv'
<1>1. /\ opc = "settle" /\ opc' = "settled"
      /\ head' = [head EXCEPT ![Below] = oval]
      /\ UNCHANGED <<tail, steal_tail, steal_head, entries, owner_block, thief_block, overflow,
                     oval, tpc, loc, pushed, taken, fell, early, overlap>>
  BY DEF TakeoverSpin, StoreHead, Put, Owner, cursors, thieves, ghosts
<1>2. /\ TypeOK /\ InRange /\ Cursors /\ OwnerKnows /\ Window /\ Ordered /\ Emptied
      /\ Mine \in Blocks /\ Above \in Blocks /\ Above # Mine
      /\ Below \in Blocks /\ Below # Mine
  BY <1>1, LoneFacts DEF Retaking
<1>3. \A t \in Thieves : tpc[t] = "idle"
  BY <1>1, LoneFacts
<1>4. Mine' = Mine /\ Above' = Above /\ Below' = Below /\ \A e : Block(e)' = Block(e)
  BY <1>1 DEF Mine, Above, Below, Block
<1>5. head[Below] = NE /\ tail[Below] = NE /\ steal_tail[Below] = NE
  BY <1>1, <1>2 DEF OwnerKnows, Cursors, GrantedClosed, MineClosed, Resetting, InRange
<1>6. \A e \in Epochs : /\ e \in Nat /\ Block(e) \in Blocks
                        /\ e < owner_block => Block(e) # Mine
                        /\ Granting => Block(e) # Above
                        /\ Retaking /\ e < owner_block - 1 => Block(e) # Below
  BY <1>2, EpochsApart
<1>7. Window'
  BY <1>1, <1>2, <1>5 DEF Window, Granting, Retaking, Resetting, Epochs, TypeOK
<1>8. Ordered'
  BY <1>1, <1>2, <1>4, <1>5 DEF Ordered, TypeOK, Blocks
<1>9. Emptied'
  <2>1. (Leaving => tail[Mine] <= head[Mine])'
    BY <1>1, <1>2, <1>4, <1>5 DEF Emptied, Leaving, Retaking, Resetting, TypeOK, Blocks
  <2>2. ASSUME NEW e \in thief_block .. owner_block - 1
        PROVE  tail'[Block(e)] <= head'[Block(e)] \/ (opc' = "settled" /\ e = owner_block - 1)
    <3>1. /\ e \in Epochs /\ e < owner_block
          /\ tail[Block(e)] <= head[Block(e)] \/ (opc = "settled" /\ e = owner_block - 1)
      BY <1>2, <2>2 DEF Emptied, Epochs, TypeOK
    <3>2. /\ Block(e) \in Blocks /\ Block(e) # Mine
          /\ Granting => Block(e) # Above
          /\ Retaking /\ e < owner_block - 1 => Block(e) # Below
      BY <1>6, <3>1
    <3>3. e < owner_block - 1 \/ e = owner_block - 1
      BY <1>2, <2>2, <3>1 DEF TypeOK
    <3> QED BY <1>1, <1>2, <3>1, <3>2, <3>3 DEF Granting, Retaking, Resetting, TypeOK, Blocks
  <2> QED BY <1>1, <2>1, <2>2 DEF Emptied
<1>10. \A b \in Blocks : Live(b)' = Live(b)
  BY <1>1, <1>2, <1>4, <1>5 DEF Live, Held, Resetting, TypeOK, Blocks
<1>11. Placed' = Placed
  BY <1>1, <1>2 DEF Placed, Pushing, TypeOK
<1> QED
  BY <1>1, <1>3, <1>7, <1>8, <1>9, <1>10, <1>11, OwnerStays DEF Granting, Resetting

LEMMA TakenOverKeepsAll ==
  ASSUME DequeConstants, DequeInv, LoneInv, overlap = "no", overlap' = "no", Takeover, steal_tail[Below] = NE
  PROVE  LoneInv'
<1>1. /\ opc = "takeover" /\ opc' = "pop"
      /\ owner_block' = owner_block - 1
      /\ steal_tail' = [steal_tail EXCEPT ![Below] = NE] /\ oval' = steal_tail[Below] /\ steal_tail[Below] = NE
      /\ UNCHANGED <<head, tail, steal_head, entries, thief_block, overflow, tpc, loc, pushed,
                     taken, fell, early, overlap>>
  BY DEF Takeover, StoreStealTail, Sentinel, Put, cursors, thieves, ghosts
<1>2. /\ TypeOK /\ InRange /\ Cursors /\ OwnerKnows /\ Window /\ Ordered /\ Emptied
      /\ Mine \in Blocks /\ Above \in Blocks /\ Above # Mine
      /\ Below \in Blocks /\ Below # Mine
  BY <1>1, LoneFacts DEF Retaking
<1>3. \A t \in Thieves : tpc[t] = "idle"
  BY <1>1, LoneFacts
<1>4. Mine' = Below /\ \A e : Block(e)' = Block(e)
  BY <1>1, <1>2 DEF Mine, Above, Below, Block
<1>5. thief_block < owner_block
  BY <1>1, <1>2 DEF OwnerKnows, Cursors, GrantedClosed, MineClosed, Resetting, InRange, Window, Retaking
<1>6. \A e \in Epochs : /\ e \in Nat /\ Block(e) \in Blocks
                        /\ e < owner_block => Block(e) # Mine
                        /\ Granting => Block(e) # Above
                        /\ Retaking /\ e < owner_block - 1 => Block(e) # Below
  BY <1>2, EpochsApart
<1>7. Window'
  BY <1>1, <1>2, <1>5 DEF Window, Granting, Retaking, Resetting, Epochs, TypeOK, DequeConstants
<1>8. Ordered'
  BY <1>1, <1>2, <1>4, <1>5 DEF Ordered, TypeOK, Blocks
<1>9. Emptied'
  BY <1>1, <1>2, <1>4, <1>6, <1>5, SMTT(30) DEF Emptied, Leaving, Granting, Retaking, Resetting, Epochs, Window, TypeOK, Blocks
<1>10. \A b \in Blocks : Live(b)' = Live(b)
  BY <1>1, <1>2, <1>4, <1>5 DEF Live, Held, Resetting, TypeOK, Blocks
<1>11. Placed' = Placed
  BY <1>1 DEF Placed, Pushing
<1>12. Live(Mine) = {}
  <2>1. tail[Mine] <= head[Mine] /\ steal_tail[Mine] = NE
    BY <1>1, <1>2 DEF Emptied, Leaving, Retaking, Cursors, MineClosed, Resetting
  <2>2. Held(Mine) = head[Mine] .. tail[Mine] - 1
    BY <1>1, <1>2 DEF Held
  <2> QED BY <1>2, <2>1, <2>2, Ranges DEF Live, DequeConstants
<1>13. \A e \in Epochs : e # owner_block => e \in Epochs'
  BY <1>1, <1>2 DEF Epochs, TypeOK
<1>14. \A b \in Blocks : \A j \in Live(b)' : j \in Live(b) /\ entries'[b][j] = entries[b][j]
  BY <1>1, <1>10
<1>15. \A e \in Epochs : Live(Block(e))' = Live(Block(e))
  BY <1>6, <1>10 DEF Block
<1>16. \A e \in Epochs : \A j \in Live(Block(e)) :
         e \in Epochs' /\ j \in Live(Block(e))' /\ entries'[Block(e)][j] = entries[Block(e)][j]
  BY <1>1, <1>12, <1>13, <1>15 DEF Mine
<1> QED
  BY <1>1, <1>3, <1>7, <1>8, <1>9, <1>11, <1>14, <1>16, OwnerMoves

LEMMA TakeoverDoneKeepsAll ==
  ASSUME DequeConstants, DequeInv, LoneInv, overlap = "no", overlap' = "no", TakeoverDone
  PROVE  LoneInv'
<1>1. /\ opc = "settled" /\ opc' = "pop"
      /\ steal_head' = [steal_head EXCEPT ![Below] = 0]
      /\ owner_block' = owner_block - 1
      /\ UNCHANGED <<head, tail, steal_tail, entries, thief_block, overflow, oval, tpc, loc,
                     pushed, taken, fell, early, overlap>>
  BY DEF TakeoverDone, StoreStealHead, Put, Owner, cursors, thieves, ghosts
<1>2. /\ TypeOK /\ InRange /\ Cursors /\ OwnerKnows /\ Window /\ Ordered /\ Emptied
      /\ Mine \in Blocks /\ Above \in Blocks /\ Above # Mine
      /\ Below \in Blocks /\ Below # Mine
  BY <1>1, LoneFacts DEF Retaking
<1>3. \A t \in Thieves : tpc[t] = "idle"
  BY <1>1, LoneFacts
<1>4. Mine' = Below /\ \A e : Block(e)' = Block(e)
  BY <1>1, <1>2 DEF Mine, Above, Below, Block
<1>5. steal_tail[Below] = NE /\ thief_block < owner_block
  BY <1>1, <1>2 DEF OwnerKnows, Cursors, GrantedClosed, MineClosed, Resetting, InRange, Window, Retaking
<1>6. \A e \in Epochs : /\ e \in Nat /\ Block(e) \in Blocks
                        /\ e < owner_block => Block(e) # Mine
                        /\ Granting => Block(e) # Above
                        /\ Retaking /\ e < owner_block - 1 => Block(e) # Below
  BY <1>2, EpochsApart
<1>7. Window'
  BY <1>1, <1>2, <1>5 DEF Window, Granting, Retaking, Resetting, Epochs, TypeOK, DequeConstants
<1>8. Ordered'
  BY <1>1, <1>2, <1>4, <1>5 DEF Ordered, TypeOK, Blocks
<1>9. Emptied'
  BY <1>1, <1>2, <1>4, <1>6, <1>5, SMTT(30) DEF Emptied, Leaving, Granting, Retaking, Resetting, Epochs, Window, TypeOK, Blocks
<1>10. \A b \in Blocks : Live(b)' = Live(b)
  BY <1>1, <1>2, <1>4, <1>5 DEF Live, Held, Resetting, TypeOK, Blocks
<1>11. Placed' = Placed
  BY <1>1 DEF Placed, Pushing
<1>12. Live(Mine) = {}
  <2>1. tail[Mine] <= head[Mine] /\ steal_tail[Mine] = NE
    BY <1>1, <1>2 DEF Emptied, Leaving, Retaking, Cursors, MineClosed, Resetting
  <2>2. Held(Mine) = head[Mine] .. tail[Mine] - 1
    BY <1>1, <1>2 DEF Held
  <2> QED BY <1>2, <2>1, <2>2, Ranges DEF Live, DequeConstants
<1>13. \A e \in Epochs : e # owner_block => e \in Epochs'
  BY <1>1, <1>2 DEF Epochs, TypeOK
<1>14. \A b \in Blocks : \A j \in Live(b)' : j \in Live(b) /\ entries'[b][j] = entries[b][j]
  BY <1>1, <1>10
<1>15. \A e \in Epochs : Live(Block(e))' = Live(Block(e))
  BY <1>6, <1>10 DEF Block
<1>16. \A e \in Epochs : \A j \in Live(Block(e)) :
         e \in Epochs' /\ j \in Live(Block(e))' /\ entries'[Block(e)][j] = entries[Block(e)][j]
  BY <1>1, <1>12, <1>13, <1>15 DEF Mine
<1> QED
  BY <1>1, <1>3, <1>7, <1>8, <1>9, <1>11, <1>14, <1>16, OwnerMoves

LEMMA PushWriteKeepsAll ==
  ASSUME DequeConstants, DequeInv, LoneInv, overlap = "no", overlap' = "no", PushWrite
  PROVE  LoneInv'
<1>1. /\ opc = "push" /\ opc' = "publish"
      /\ entries' = [entries EXCEPT ![Mine][tail[Mine]] = pushed]
      /\ tail[Mine] < NE
      /\ UNCHANGED <<head, tail, steal_tail, steal_head, owner_block, thief_block, overflow, oval,
                     tpc, loc, pushed, taken, fell, early, overlap>>
  BY DEF PushWrite, Owner, blocks, cursors, thieves, ghosts
<1>2. /\ TypeOK /\ InRange /\ Cursors /\ OwnerKnows /\ Window /\ Ordered /\ Emptied
      /\ Mine \in Blocks /\ Above \in Blocks /\ Above # Mine
  BY <1>1, LoneFacts
<1>3. \A t \in Thieves : tpc[t] = "idle"
  BY <1>1, LoneFacts
<1>4. Mine' = Mine /\ Above' = Above /\ Below' = Below /\ \A e : Block(e)' = Block(e)
  BY <1>1 DEF Mine, Above, Below, Block
<1>5. steal_tail[Mine] = NE
  BY <1>1, <1>2 DEF OwnerKnows, Cursors, GrantedClosed, MineClosed, Resetting, InRange
<1>6. \A e \in Epochs : /\ e \in Nat /\ Block(e) \in Blocks
                        /\ e < owner_block => Block(e) # Mine
                        /\ Granting => Block(e) # Above
                        /\ Retaking /\ e < owner_block - 1 => Block(e) # Below
  BY <1>2, EpochsApart
<1>7. Window'
  BY <1>1, <1>2, <1>5 DEF Window, Granting, Retaking, Resetting, Epochs, TypeOK
<1>8. Ordered'
  BY <1>1, <1>2, <1>4, <1>5 DEF Ordered, TypeOK, Blocks
<1>9. Emptied'
  BY <1>1, <1>2, <1>4, <1>6, <1>5 DEF Emptied, Leaving, Granting, Retaking, Resetting, Epochs, Window, TypeOK, Blocks
<1>10. \A b \in Blocks : Live(b)' = Live(b)
  BY <1>1, <1>2, <1>4 DEF Live, Held
<1>11. Placed' = Placed
  BY <1>1 DEF Placed, Pushing
<1>12. tail[Mine] \notin Live(Mine)
  BY <1>1, <1>2, <1>5 DEF Live, Held, TypeOK, Blocks
<1>13. \A b \in Blocks : \A j \in Live(b) : entries'[b][j] = entries[b][j]
  BY <1>1, <1>2, <1>12 DEF TypeOK, Blocks
<1>14. \A e \in Epochs : e \in Epochs' /\ Live(Block(e))' = Live(Block(e))
  BY <1>1, <1>6, <1>10 DEF Block, Epochs
<1>15. \A e \in Epochs : \A j \in Live(Block(e)) :
         e \in Epochs' /\ j \in Live(Block(e))' /\ entries'[Block(e)][j] = entries[Block(e)][j]
  BY <1>6, <1>13, <1>14
<1> QED
  BY <1>1, <1>3, <1>7, <1>8, <1>9, <1>10, <1>11, <1>13, <1>15, OwnerMoves

LEMMA PopTopKeepsAll ==
  ASSUME DequeConstants, DequeInv, LoneInv, overlap = "no", overlap' = "no", PopTop
  PROVE  LoneInv'
<1>1. /\ opc = "top" /\ opc' = "idle"
      /\ tail' = [tail EXCEPT ![Mine] = tail[Mine] - 1]
      /\ taken' = [taken EXCEPT ![entries[Mine][tail[Mine] - 1]] = @ + 1]
      /\ UNCHANGED <<head, steal_tail, steal_head, entries, owner_block, thief_block, overflow,
                     oval, tpc, loc, pushed, fell, early, overlap>>
  BY DEF PopTop, Take, StoreTail, Put, Owner, cursors, thieves
<1>2. /\ TypeOK /\ InRange /\ Cursors /\ OwnerKnows /\ Window /\ Ordered /\ Emptied
      /\ Mine \in Blocks /\ Above \in Blocks /\ Above # Mine
  BY <1>1, LoneFacts
<1>3. \A t \in Thieves : tpc[t] = "idle"
  BY <1>1, LoneFacts
<1>4. Mine' = Mine /\ Above' = Above /\ Below' = Below /\ \A e : Block(e)' = Block(e)
  BY <1>1 DEF Mine, Above, Below, Block
<1>5. tail[Mine] > head[Mine] + 1 /\ steal_tail[Mine] = NE
  BY <1>1, <1>2 DEF OwnerKnows, Cursors, GrantedClosed, MineClosed, Resetting, InRange
<1>6. \A e \in Epochs : /\ e \in Nat /\ Block(e) \in Blocks
                        /\ e < owner_block => Block(e) # Mine
                        /\ Granting => Block(e) # Above
                        /\ Retaking /\ e < owner_block - 1 => Block(e) # Below
  BY <1>2, EpochsApart
<1>7. Window'
  BY <1>1, <1>2, <1>5 DEF Window, Granting, Retaking, Resetting, Epochs, TypeOK
<1>8. Ordered'
  BY <1>1, <1>2, <1>4, <1>5 DEF Ordered, TypeOK, Blocks
<1>9. Emptied'
  BY <1>1, <1>2, <1>4, <1>6, <1>5, SMTT(30) DEF Emptied, Leaving, Granting, Retaking, Resetting, Epochs, Window, TypeOK, Blocks
<1>10. OverflowApart /\ NoneLost /\ OnePlace
  BY <1>1, LoneFacts
<1>11. /\ Held(Mine) = head[Mine] .. tail[Mine] - 1
       /\ Held(Mine)' = head[Mine] .. (tail[Mine] - 1) - 1
       /\ \A b \in Blocks : b # Mine => Live(b)' = Live(b)
  BY <1>1, <1>2, <1>4, <1>5 DEF Live, Held, TypeOK, Blocks
<1>12. tail[Mine] - 1 \in Live(Mine)
  BY <1>2, <1>5, <1>11, Ranges DEF Live, DequeConstants
<1>13. \A b \in Blocks : /\ Live(b)' \subseteq Live(b)
                         /\ \A j \in Live(b) : j \in Live(b)' \/ (b = Mine /\ j = tail[Mine] - 1)
  <2>1. Held(Mine)' \subseteq Held(Mine) /\ \A j \in Held(Mine) : j \in Held(Mine)' \/ j = tail[Mine] - 1
    <3>1. head[Mine] \in 0 .. NE /\ tail[Mine] \in 0 .. NE /\ oval \in 0 .. NE
      BY <1>2, Ranges DEF TypeOK
    <3> QED BY <1>11, <3>1 DEF DequeConstants
  <2>2. steal_tail'[Mine] = NE /\ NE .. NE - 1 = {}
    BY <1>1, <1>5 DEF DequeConstants
  <2>3. \A b \in Blocks : b = Mine => /\ Live(b)' \subseteq Live(b)
                                      /\ \A j \in Live(b) : j \in Live(b)' \/ j = tail[Mine] - 1
    BY <1>4, <1>5, <2>1, <2>2 DEF Live
  <2> QED BY <1>11, <2>3
<1> DEFINE i == entries[Mine][tail[Mine] - 1]
<1>14. i \in Items /\ i \notin overflow
  <2>1. Placed \in Int
    BY <1>1, <1>2 DEF Placed, Pushing, TypeOK
  <2>2. Untaken(i)
    BY <1>2, <1>10, <1>12 DEF OnePlace
  <2> QED BY <1>2, <1>10, <1>12, <2>1, <2>2, UntakenIsItem DEF OverflowApart
<1> HIDE DEF i
<1>15. \A t \in Thieves : ~Carries(t) /\ ~Carries(t)' /\ Scanned(t)'
  BY <1>1, <1>3, IdleThieves
<1>16. \A e \in Epochs : \A j \in Live(Block(e)) : j \in Live(Block(e))' \/ (Block(e) = Mine /\ j = tail[Mine] - 1)
  BY <1>6, <1>13 DEF Block
<1>17. \A e \in Epochs : /\ e \in Epochs'
                         /\ \A j \in Live(Block(e)) : entries[Block(e)][j] # i => j \in Live(Block(e))'
  BY <1>1, <1>16 DEF Epochs, i
<1>18. OverflowApart' /\ NoneLost'
  <2>1. Placed' = Placed /\ taken' = [taken EXCEPT ![i] = @ + 1]
    BY <1>1 DEF Placed, Pushing, i
  <2> QED BY <1>1, <1>2, <1>10, <1>14, <1>13, <1>15, <1>17, <2>1, ReturnedLeaves
<1> QED BY <1>7, <1>8, <1>9, <1>15, <1>18 DEF LoneInv

LEMMA PopWonKeepsAll ==
  ASSUME DequeConstants, DequeInv, LoneInv, overlap = "no", overlap' = "no", PopClaim, head[Mine] = oval
  PROVE  LoneInv'
<1>1. /\ opc = "claim" /\ opc' = "won"
      /\ head' = [head EXCEPT ![Mine] = oval + 1]
      /\ taken' = [taken EXCEPT ![entries[Mine][oval]] = @ + 1]
      /\ UNCHANGED <<tail, steal_tail, steal_head, entries, owner_block, thief_block, overflow,
                     oval, tpc, loc, pushed, fell, early, overlap>>
  BY DEF PopClaim, Take, StoreHead, Put, Owner, cursors, thieves
<1>2. /\ TypeOK /\ InRange /\ Cursors /\ OwnerKnows /\ Window /\ Ordered /\ Emptied
      /\ Mine \in Blocks /\ Above \in Blocks /\ Above # Mine
  BY <1>1, LoneFacts
<1>3. \A t \in Thieves : tpc[t] = "idle"
  BY <1>1, LoneFacts
<1>4. Mine' = Mine /\ Above' = Above /\ Below' = Below /\ \A e : Block(e)' = Block(e)
  BY <1>1 DEF Mine, Above, Below, Block
<1>5. oval < NE /\ tail[Mine] = oval /\ head[Mine] = oval /\ steal_tail[Mine] = NE
  BY <1>1, <1>2 DEF OwnerKnows, Cursors, GrantedClosed, MineClosed, Resetting, InRange
<1>6. \A e \in Epochs : /\ e \in Nat /\ Block(e) \in Blocks
                        /\ e < owner_block => Block(e) # Mine
                        /\ Granting => Block(e) # Above
                        /\ Retaking /\ e < owner_block - 1 => Block(e) # Below
  BY <1>2, EpochsApart
<1>7. Window'
  BY <1>1, <1>2, <1>5 DEF Window, Granting, Retaking, Resetting, Epochs, TypeOK
<1>8. Ordered'
  BY <1>1, <1>2, <1>4, <1>5 DEF Ordered, TypeOK, Blocks
<1>9. Emptied'
  BY <1>1, <1>2, <1>4, <1>6, <1>5, SMTT(30) DEF Emptied, Leaving, Granting, Retaking, Resetting, Epochs, Window, TypeOK, Blocks
<1>10. OverflowApart /\ NoneLost /\ OnePlace
  BY <1>1, LoneFacts
<1>11. /\ Held(Mine) = {oval}
       /\ Held(Mine)' = oval + 1 .. oval - 1
       /\ \A b \in Blocks : b # Mine => Live(b)' = Live(b)
  BY <1>1, <1>2, <1>4, <1>5 DEF Live, Held, TypeOK, Blocks
<1>12. oval \in Live(Mine)
  BY <1>2, <1>5, <1>11, Ranges DEF Live, DequeConstants
<1>13. \A b \in Blocks : /\ Live(b)' \subseteq Live(b)
                         /\ \A j \in Live(b) : j \in Live(b)' \/ (b = Mine /\ j = oval)
  <2>1. Held(Mine)' \subseteq Held(Mine) /\ \A j \in Held(Mine) : j \in Held(Mine)' \/ j = oval
    <3>1. head[Mine] \in 0 .. NE /\ tail[Mine] \in 0 .. NE /\ oval \in 0 .. NE
      BY <1>2, Ranges DEF TypeOK
    <3> QED BY <1>11, <3>1 DEF DequeConstants
  <2>2. steal_tail'[Mine] = NE /\ NE .. NE - 1 = {}
    BY <1>1, <1>5 DEF DequeConstants
  <2>3. \A b \in Blocks : b = Mine => /\ Live(b)' \subseteq Live(b)
                                      /\ \A j \in Live(b) : j \in Live(b)' \/ j = oval
    BY <1>4, <1>5, <2>1, <2>2 DEF Live
  <2> QED BY <1>11, <2>3
<1> DEFINE i == entries[Mine][oval]
<1>14. i \in Items /\ i \notin overflow
  <2>1. Placed \in Int
    BY <1>1, <1>2 DEF Placed, Pushing, TypeOK
  <2>2. Untaken(i)
    BY <1>2, <1>10, <1>12 DEF OnePlace
  <2> QED BY <1>2, <1>10, <1>12, <2>1, <2>2, UntakenIsItem DEF OverflowApart
<1> HIDE DEF i
<1>15. \A t \in Thieves : ~Carries(t) /\ ~Carries(t)' /\ Scanned(t)'
  BY <1>1, <1>3, IdleThieves
<1>16. \A e \in Epochs : \A j \in Live(Block(e)) : j \in Live(Block(e))' \/ (Block(e) = Mine /\ j = oval)
  BY <1>6, <1>13 DEF Block
<1>17. \A e \in Epochs : /\ e \in Epochs'
                         /\ \A j \in Live(Block(e)) : entries[Block(e)][j] # i => j \in Live(Block(e))'
  BY <1>1, <1>16 DEF Epochs, i
<1>18. OverflowApart' /\ NoneLost'
  <2>1. Placed' = Placed /\ taken' = [taken EXCEPT ![i] = @ + 1]
    BY <1>1 DEF Placed, Pushing, i
  <2> QED BY <1>1, <1>2, <1>10, <1>14, <1>13, <1>15, <1>17, <2>1, ReturnedLeaves
<1> QED BY <1>7, <1>8, <1>9, <1>15, <1>18 DEF LoneInv

LEMMA PushOverflowKeepsAll ==
  ASSUME DequeConstants, DequeInv, LoneInv, overlap = "no", overlap' = "no", PushOverflow
  PROVE  LoneInv'
<1>1. /\ opc = "push" /\ opc' = "idle"
      /\ overflow' = overflow \cup {pushed}
      /\ UNCHANGED <<head, tail, steal_tail, steal_head, entries, owner_block, thief_block, oval,
                     tpc, loc, pushed, taken, fell, early, overlap>>
  BY DEF PushOverflow, blocks, cursors, thieves, ghosts
<1>2. /\ TypeOK /\ InRange /\ Cursors /\ OwnerKnows /\ Window /\ Ordered /\ Emptied
      /\ Mine \in Blocks /\ Above \in Blocks /\ Above # Mine
  BY <1>1, LoneFacts
<1>3. \A t \in Thieves : tpc[t] = "idle"
  BY <1>1, LoneFacts
<1>4. Mine' = Mine /\ Above' = Above /\ Below' = Below /\ \A e : Block(e)' = Block(e)
  BY <1>1 DEF Mine, Above, Below, Block
<1>6. \A e \in Epochs : /\ e \in Nat /\ Block(e) \in Blocks
                        /\ e < owner_block => Block(e) # Mine
                        /\ Granting => Block(e) # Above
                        /\ Retaking /\ e < owner_block - 1 => Block(e) # Below
  BY <1>2, EpochsApart
<1>7. Window'
  BY <1>1, <1>2 DEF Window, Granting, Retaking, Resetting, Epochs, TypeOK
<1>8. Ordered'
  BY <1>1, <1>2, <1>4 DEF Ordered, TypeOK, Blocks
<1>9. Emptied'
  BY <1>1, <1>2, <1>4, <1>6 DEF Emptied, Leaving, Granting, Retaking, Resetting, Epochs, Window, TypeOK, Blocks
<1>10. OverflowApart /\ NoneLost /\ OnePlace
  BY <1>1, LoneFacts
<1>11. Placed' = pushed /\ Placed = pushed - 1 /\ pushed \in Items /\ ~Untaken(pushed) /\ Untaken(pushed)'
  <2>1. pushed \in Items /\ Placed' = pushed /\ Placed = pushed - 1
    BY <1>1, <1>2 DEF Placed, Pushing, TypeOK, Items, DequeConstants, InRange
  <2>2. taken[pushed] = 0
    BY <1>10, <2>1 DEF OnePlace, Items
  <2> QED BY <1>1, <2>1, <2>2 DEF Untaken, Items
<1>12. \A k \in Items : Untaken(k)' <=> Untaken(k) \/ k = pushed
  BY <1>1, <1>11 DEF Untaken, Items
<1>13. \A t \in Thieves : ~Carries(t) /\ ~Carries(t)' /\ Scanned(t)'
  BY <1>1, <1>3, IdleThieves
<1>14. \A b \in Blocks : Live(b)' = Live(b)
  BY <1>1, <1>2, <1>4 DEF Live, Held
<1>15. overflow \subseteq Items
  BY <1>2 DEF TypeOK
<1>16. OverflowApart'
  <2>1. \A b \in Blocks : \A j \in Live(b) : entries[b][j] # pushed
    BY <1>10, <1>11 DEF OnePlace
  <2> QED BY <1>1, <1>10, <1>11, <1>12, <1>13, <1>14, <1>15, <2>1 DEF OverflowApart
<1>17. \A k \in Items : Found(k) => Found(k)'
  <2>1. \A e \in Epochs : e \in Epochs' /\ Live(Block(e))' = Live(Block(e))
    BY <1>1, <1>6, <1>14 DEF Epochs, Block
  <2> QED BY <1>1, <1>13, <2>1 DEF Found
<1>18. NoneLost'
  BY <1>1, <1>10, <1>12, <1>17 DEF NoneLost, Found
<1> QED BY <1>7, <1>8, <1>9, <1>13, <1>16, <1>18 DEF LoneInv

LEMMA PushPublishKeepsAll ==
  ASSUME DequeConstants, DequeInv, LoneInv, overlap = "no", overlap' = "no", PushPublish
  PROVE  LoneInv'
<1>1. /\ opc = "publish" /\ opc' = "idle"
      /\ tail' = [tail EXCEPT ![Mine] = tail[Mine] + 1]
      /\ UNCHANGED <<head, steal_tail, steal_head, entries, owner_block, thief_block, overflow,
                     oval, tpc, loc, pushed, taken, fell, early, overlap>>
  BY DEF PushPublish, StoreTail, Put, Owner, cursors, thieves, ghosts
<1>2. /\ TypeOK /\ InRange /\ Cursors /\ OwnerKnows /\ Window /\ Ordered /\ Emptied
      /\ Mine \in Blocks /\ Above \in Blocks /\ Above # Mine
  BY <1>1, LoneFacts
<1>3. \A t \in Thieves : tpc[t] = "idle"
  BY <1>1, LoneFacts
<1>4. Mine' = Mine /\ Above' = Above /\ Below' = Below /\ \A e : Block(e)' = Block(e)
  BY <1>1 DEF Mine, Above, Below, Block
<1>5. steal_tail[Mine] = NE /\ entries[Mine][tail[Mine]] = pushed
  BY <1>1, <1>2 DEF OwnerKnows, Cursors, GrantedClosed, MineClosed, Resetting, InRange
<1>6. \A e \in Epochs : /\ e \in Nat /\ Block(e) \in Blocks
                        /\ e < owner_block => Block(e) # Mine
                        /\ Granting => Block(e) # Above
                        /\ Retaking /\ e < owner_block - 1 => Block(e) # Below
  BY <1>2, EpochsApart
<1>7. Window'
  BY <1>1, <1>2, <1>5 DEF Window, Granting, Retaking, Resetting, Epochs, TypeOK
<1>8. Ordered'
  BY <1>1, <1>2, <1>4, <1>5 DEF Ordered, TypeOK, Blocks
<1>9. Emptied'
  <2>1. (Leaving => tail[Mine] <= head[Mine])'
    BY <1>1, <1>2, <1>4, <1>5 DEF Emptied, Leaving, Retaking, Resetting, TypeOK, Blocks
  <2>2. ASSUME NEW e \in thief_block .. owner_block - 1
        PROVE  tail'[Block(e)] <= head'[Block(e)] \/ (opc' = "settled" /\ e = owner_block - 1)
    <3>1. /\ e \in Epochs /\ e < owner_block
          /\ tail[Block(e)] <= head[Block(e)] \/ (opc = "settled" /\ e = owner_block - 1)
      BY <1>2, <2>2 DEF Emptied, Epochs, TypeOK
    <3>2. /\ Block(e) \in Blocks /\ Block(e) # Mine
          /\ Granting => Block(e) # Above
          /\ Retaking /\ e < owner_block - 1 => Block(e) # Below
      BY <1>6, <3>1
    <3>3. e < owner_block - 1 \/ e = owner_block - 1
      BY <1>2, <2>2, <3>1 DEF TypeOK
    <3> QED BY <1>1, <1>2, <3>1, <3>2, <3>3 DEF Granting, Retaking, Resetting, TypeOK, Blocks
  <2> QED BY <1>1, <2>1, <2>2 DEF Emptied
<1>10. OverflowApart /\ NoneLost /\ OnePlace
  BY <1>1, LoneFacts
<1>11. Placed' = pushed /\ Placed = pushed - 1 /\ pushed \in Items /\ ~Untaken(pushed) /\ Untaken(pushed)'
  <2>1. pushed \in Items /\ Placed' = pushed /\ Placed = pushed - 1
    BY <1>1, <1>2 DEF Placed, Pushing, TypeOK, Items, DequeConstants, InRange
  <2>2. taken[pushed] = 0
    BY <1>10, <2>1 DEF OnePlace, Items
  <2> QED BY <1>1, <2>1, <2>2 DEF Untaken, Items
<1>12. \A k \in Items : Untaken(k)' <=> Untaken(k) \/ k = pushed
  BY <1>1, <1>11 DEF Untaken, Items
<1>13. \A t \in Thieves : ~Carries(t) /\ ~Carries(t)' /\ Scanned(t)'
  BY <1>1, <1>3, IdleThieves
<1>14. Ordered /\ tail[Mine] < NE /\ head[Mine] <= tail[Mine]
  BY <1>1, <1>2 DEF Ordered, InRange
<1>15. /\ Live(Mine)' = Live(Mine) \cup {tail[Mine]}
       /\ \A b \in Blocks : b # Mine => Live(b)' = Live(b)
  <2>1. Held(Mine) = head[Mine] .. tail[Mine] - 1 /\ Held(Mine)' = head[Mine] .. (tail[Mine] + 1) - 1
    BY <1>1, <1>2, <1>4 DEF Held, TypeOK, Blocks
  <2>2. steal_tail'[Mine] = NE /\ steal_tail[Mine] = NE
    BY <1>1, <1>5
  <2>3. NE .. NE - 1 = {}
    BY DEF DequeConstants
  <2>4. Held(Mine)' = Held(Mine) \cup {tail[Mine]}
    BY <1>2, <1>14, <2>1, Ranges
  <2>5. \A b \in Blocks : b # Mine => Live(b)' = Live(b)
    BY <1>1, <1>2, <1>4 DEF Live, Held, TypeOK, Blocks
  <2> QED BY <1>4, <2>2, <2>3, <2>4, <2>5 DEF Live
<1>16. OverflowApart'
  <2>1. overflow \subseteq Items /\ \A k \in overflow : k # pushed
    BY <1>2, <1>10, <1>11 DEF OverflowApart, TypeOK
  <2>2. \A k \in overflow : \A b \in Blocks : \A j \in Live(b)' : entries[b][j] # k
    BY <1>2, <1>4, <1>5, <1>10, <1>15, <2>1 DEF OverflowApart
  <2> QED BY <1>1, <1>10, <1>12, <1>13, <2>1, <2>2 DEF OverflowApart
<1>17. \A k \in Items : Found(k) => Found(k)'
  <2>0. \A b \in Blocks : Live(b) \subseteq Live(b)'
    BY <1>4, <1>15
  <2>1. \A e \in Epochs : e \in Epochs' /\ Live(Block(e)) \subseteq Live(Block(e))'
    BY <1>1, <1>6, <2>0 DEF Epochs, Block
  <2> QED BY <1>1, <1>13, <2>1 DEF Found
<1>18. Found(pushed)'
  <2>1. owner_block \in Epochs' /\ Block(owner_block)' = Mine /\ tail[Mine] \in Live(Mine)'
    BY <1>1, <1>2, <1>4, <1>15 DEF Window, Epochs, Mine
  <2>2. Live(Block(owner_block))' = Live(Mine)'
    BY <1>1, <1>4 DEF Mine
  <2>3. Block(owner_block) = Mine /\ entries'[Mine][tail[Mine]] = pushed /\ owner_block' = owner_block
    BY <1>1, <1>5 DEF Mine
  <2> QED BY <1>1, <1>4, <2>1, <2>2, <2>3 DEF Found
<1>19. NoneLost'
  BY <1>1, <1>10, <1>12, <1>17, <1>18 DEF NoneLost
<1> QED BY <1>7, <1>8, <1>9, <1>13, <1>16, <1>19 DEF LoneInv

-----------------------------------------------------------------------------
(* The steps of a thief that moves alone.                                   *)

LEMMA LoneThief ==
  ASSUME DequeConstants, DequeInv, LoneInv, overlap = "no", NEW t \in Thieves, tpc[t] # "idle"
  PROVE  /\ TypeOK /\ InRange /\ Cursors /\ OnePlace /\ Window /\ Ordered /\ Emptied /\ Scanned(t)
         /\ OverflowApart /\ NoneLost
         /\ opc = "idle" /\ \A u \in Thieves \ {t} : tpc[u] = "idle"
         /\ tpc[t] # "bound" => loc[t].ob = owner_block /\ Theirs(t) = Mine
         /\ loc[t] \in Locals /\ Fresh(t) \in Blocks /\ Theirs(t) \in Blocks /\ Mine \in Blocks
         /\ steal_tail[Mine] = NE
         /\ \A b \in Blocks : Held(b) = head[b] .. tail[b] - 1
         /\ \A b \in Blocks : steal_tail[b] # NE => head[b] = NE /\ tail[b] = NE
<1>1. /\ TypeOK /\ InRange /\ Cursors /\ OnePlace /\ Window /\ Ordered /\ Emptied /\ Alone
      /\ OverflowApart /\ NoneLost /\ Mine \in Blocks /\ Scanned(t)
  BY LoneFacts DEF LoneInv
<1>2. /\ opc = "idle" /\ \A u \in Thieves \ {t} : tpc[u] = "idle"
      /\ tpc[t] # "bound" => loc[t].ob = owner_block
  BY <1>1, ThiefAlone DEF Active
<1>3. loc[t] \in Locals /\ Fresh(t) \in Blocks /\ Theirs(t) \in Blocks
  BY <1>1, ThiefBlocks
<1>4. steal_tail[Mine] = NE /\ \A b \in Blocks : Held(b) = head[b] .. tail[b] - 1
  BY <1>1, <1>2 DEF Cursors, MineClosed, Resetting, Held
<1>5. \A b \in Blocks : steal_tail[b] # NE => head[b] = NE /\ tail[b] = NE
  BY <1>1 DEF Cursors, GrantedClosed
<1> QED BY <1>1, <1>2, <1>3, <1>4, <1>5 DEF Theirs, Mine

LEMMA OthersIdle ==
  ASSUME TypeOK, NEW t \in Thieves, MovesOnly(t), \A u \in Thieves \ {t} : tpc[u] = "idle"
  PROVE  \A u \in Thieves \ {t} : /\ tpc'[u] = "idle" /\ ~Carries(u) /\ ~Carries(u)' /\ Scanned(u)'
<1> SUFFICES ASSUME NEW u \in Thieves \ {t}
             PROVE  tpc'[u] = "idle" /\ ~Carries(u) /\ ~Carries(u)' /\ Scanned(u)'
  OBVIOUS
<1>1. tpc[u] = "idle" /\ tpc'[u] = "idle"
  BY DEF TypeOK, MovesOnly
<1> QED BY <1>1 DEF Carries, Scanned

(* A thief that writes to no word that says where entries are.              *)
LEMMA ThiefLooks ==
  ASSUME DequeConstants, DequeInv, LoneInv, overlap = "no", NEW t \in Thieves, MovesOnly(t),
         UNCHANGED <<head, tail, steal_tail, entries, owner_block, thief_block, overflow, opc, oval, pushed, taken>>,
         \A u \in Thieves \ {t} : tpc[u] = "idle",
         Carries(t) <=> Carries(t)', Carries(t) => Carried(t)' = Carried(t), Scanned(t)'
  PROVE  LoneInv'
<1>1. TypeOK /\ Window /\ Ordered /\ Emptied /\ OverflowApart /\ NoneLost
  BY LoneFacts
<1>2. \A u \in Thieves \ {t} : ~Carries(u) /\ ~Carries(u)' /\ Scanned(u)'
  BY <1>1, OthersIdle
<1>3. Mine' = Mine /\ Above' = Above /\ Below' = Below /\ Epochs' = Epochs
  BY DEF Mine, Above, Below, Epochs
<1>4. Window' /\ Ordered' /\ Emptied'
  BY <1>1, <1>3 DEF Window, Ordered, Emptied, Leaving, Granting, Retaking, Resetting
<1>5. \A b : Live(b)' = Live(b)
  BY <1>3 DEF Live, Held
<1>6. \A u \in Thieves : Carries(u)' = Carries(u) /\ (Carries(u) => Carried(u)' = Carried(u))
  <2> TAKE u \in Thieves
  <2>1. CASE u = t
    BY <2>1 DEF Carries
  <2>2. CASE u # t
    BY <1>2, <2>2 DEF Carries
  <2> QED BY <2>1, <2>2
<1>7. \A b \in Blocks : \A j \in Live(b)' : j \in Live(b) /\ entries'[b][j] = entries[b][j]
  BY <1>5
<1>8. \A e \in Epochs : \A j \in Live(Block(e)) :
        e \in Epochs' /\ j \in Live(Block(e))' /\ entries'[Block(e)][j] = entries[Block(e)][j]
  BY <1>3, <1>5 DEF Block
<1>9. Placed' = Placed
  BY DEF Placed, Pushing
<1>10. OverflowApart' /\ NoneLost'
  BY <1>1, <1>6, <1>7, <1>8, <1>9, SameFound
<1> QED BY <1>2, <1>4, <1>10 DEF LoneInv

(* A thief takes index j of block c into its hands.                         *)
LEMMA ActorCarried ==
  ASSUME TypeOK, OnePlace, OverflowApart, NoneLost, Placed' = Placed, UNCHANGED <<taken, overflow, entries>>,
         Epochs' = Epochs, NEW t \in Thieves, NEW c \in Blocks, NEW j \in Live(c),
         ~Carries(t), Carries(t)', Carried(t)' = entries[c][j],
         \A u \in Thieves \ {t} : ~Carries(u) /\ ~Carries(u)',
         \A b \in Blocks : /\ Live(b)' \subseteq Live(b)
                           /\ \A k \in Live(b) : k \in Live(b)' \/ (b = c /\ k = j),
         \A e \in Epochs : Block(e) \in Blocks
  PROVE  OverflowApart' /\ NoneLost'
<1>1. \A i : Untaken(i)' = Untaken(i)
  BY DEF Untaken
<1>2. OverflowApart'
  <2>1. \A i \in overflow : i # entries[c][j]
    BY DEF OverflowApart
  <2> QED BY <1>1, <2>1 DEF OverflowApart
<1>3. \A e \in Epochs : \A k \in Live(Block(e)) : k \in Live(Block(e))' \/ (Block(e) = c /\ k = j)
  BY DEF Block
<1>4. \A i : Found(i) => Found(i)'
  <2> SUFFICES ASSUME NEW i, Found(i) PROVE Found(i)'
    OBVIOUS
  <2>1. CASE \E e \in Epochs : \E k \in Live(Block(e)) : entries[Block(e)][k] = i
    <3>1. PICK e \in Epochs : \E k \in Live(Block(e)) : entries[Block(e)][k] = i
      BY <2>1
    <3>2. PICK k \in Live(Block(e)) : entries[Block(e)][k] = i
      BY <3>1
    <3>3. CASE Block(e) = c /\ k = j
      <4>1. Carries(t)' /\ Carried(t)' = i
        BY <3>2, <3>3
      <4> QED BY <4>1 DEF Found
    <3>4. CASE k \in Live(Block(e))'
      <4>1. e \in Epochs' /\ entries'[Block(e)][k] = i
        BY <3>2
      <4> QED BY <3>4, <4>1 DEF Found
    <3> QED BY <1>3, <3>3, <3>4
  <2>2. CASE \E u \in Thieves : Carries(u) /\ Carried(u) = i
    BY <2>2
  <2>3. CASE i \in overflow
    BY <2>3 DEF Found
  <2> QED BY <2>1, <2>2, <2>3 DEF Found
<1> QED BY <1>1, <1>2, <1>4 DEF NoneLost

LEMMA NothingBeyondEnd == DequeConstants => NE .. NE - 1 = {}
  BY DEF DequeConstants

LEMMA StealCallKeepsAll ==
  ASSUME DequeConstants, DequeInv, LoneInv, overlap = "no", overlap' = "no", NEW t \in Thieves, StealCall(t)
  PROVE  LoneInv'
<1> DEFINE r == [Unset EXCEPT !.tb = thief_block, !.epoch = thief_block]
<1>1. /\ tpc[t] = "idle" /\ tpc' = [tpc EXCEPT ![t] = "bound"] /\ loc' = [loc EXCEPT ![t] = r]
      /\ \A u \in Thieves : tpc[u] = "idle"
      /\ UNCHANGED <<head, tail, steal_tail, steal_head, entries, owner_block, thief_block, overflow, opc, oval, pushed,
                     taken>>
  BY DEF StealCall, Begins, Thief, blocks, owner
<1>2. TypeOK
  BY LoneFacts
<1>3. r \in Locals /\ r.epoch = thief_block
  <2>1. Unset \in Locals /\ thief_block \in Nat
    BY <1>2, ZeroAndEnd DEF Unset, Locals, TypeOK, DequeConstants
  <2> QED BY <2>1 DEF Locals
<1>4. tpc'[t] = "bound" /\ loc'[t] = r
  BY <1>1, <1>2 DEF TypeOK
<1> HIDE DEF r
<1>5. MovesOnly(t)
  BY <1>1, <1>3, <1>4 DEF MovesOnly, ThiefPC
<1>6. Scanned(t)'
  BY <1>1, <1>3, <1>4 DEF Scanned
<1>7. ~Carries(t) /\ ~Carries(t)'
  BY <1>1, <1>4 DEF Carries
<1> QED BY <1>1, <1>5, <1>6, <1>7, ThiefLooks

LEMMA StealBoundKeepsAll ==
  ASSUME DequeConstants, DequeInv, LoneInv, overlap = "no", NEW t \in Thieves, StealBound(t)
  PROVE  LoneInv'
<1> DEFINE r == [loc[t] EXCEPT !.ob = owner_block]
<1>1. /\ tpc[t] = "bound" /\ tpc' = [tpc EXCEPT ![t] = "scan"] /\ loc' = [loc EXCEPT ![t] = r]
      /\ UNCHANGED <<head, tail, steal_tail, steal_head, entries, owner_block, thief_block, overflow, opc, oval, pushed,
                     taken>>
  BY DEF StealBound, ThiefReads, Thief, blocks, owner, ghosts
<1>2. /\ TypeOK /\ Window /\ Scanned(t) /\ loc[t] \in Locals
      /\ \A u \in Thieves \ {t} : tpc[u] = "idle"
  BY <1>1, LoneThief
<1>3. r \in Locals /\ r.epoch = loc[t].epoch
  BY <1>2 DEF Locals, TypeOK
<1>4. tpc'[t] = "scan" /\ loc'[t] = r
  BY <1>1, <1>2 DEF TypeOK
<1> HIDE DEF r
<1>5. MovesOnly(t)
  BY <1>1, <1>3, <1>4 DEF MovesOnly, ThiefPC
<1>6. Scanned(t)'
  <2>1. thief_block \in Epochs' /\ thief_block .. thief_block - 1 = {} /\ r.epoch = thief_block
    BY <1>1, <1>2, <1>3 DEF Window, Epochs, Scanned, TypeOK
  <2> QED BY <1>1, <1>4, <2>1 DEF Scanned
<1>7. ~Carries(t) /\ ~Carries(t)'
  BY <1>1, <1>4 DEF Carries
<1> QED BY <1>1, <1>2, <1>5, <1>6, <1>7, ThiefLooks

(* A block passed over has no entry: it is drained, or was never granted.   *)
LEMMA ScanPastKeepsAll ==
  ASSUME DequeConstants, DequeInv, LoneInv, overlap = "no", NEW t \in Thieves, tpc[t] = "scan",
         loc[t].epoch < loc[t].ob, steal_tail[Fresh(t)] = NE, NextEpoch(t)
  PROVE  LoneInv'
<1> DEFINE r == [loc[t] EXCEPT !.epoch = @ + 1]
<1>1. /\ tpc' = [tpc EXCEPT ![t] = "scan"] /\ loc' = [loc EXCEPT ![t] = r]
      /\ UNCHANGED <<head, tail, steal_tail, steal_head, entries, owner_block, thief_block, overflow, opc, oval, pushed,
                     taken>>
  BY DEF NextEpoch, ThiefReads, Thief, blocks, owner, ghosts
<1>2. /\ TypeOK /\ Window /\ Scanned(t) /\ Emptied /\ loc[t] \in Locals /\ loc[t].ob = owner_block
      /\ opc = "idle" /\ Fresh(t) \in Blocks /\ Held(Fresh(t)) = head[Fresh(t)] .. tail[Fresh(t)] - 1
      /\ \A u \in Thieves \ {t} : tpc[u] = "idle"
  BY <1>1, LoneThief
<1>3. /\ loc[t].epoch \in Nat /\ loc[t].epoch + 1 \in Nat /\ loc[t].epoch \in Epochs
      /\ \A e \in thief_block .. loc[t].epoch - 1 : Live(Block(e)) = {}
  BY <1>2 DEF Locals, Scanned
<1>4. r \in Locals /\ r.epoch = loc[t].epoch + 1
  BY <1>2, <1>3 DEF Locals
<1>5. tpc'[t] = "scan" /\ loc'[t] = r
  BY <1>1, <1>2 DEF TypeOK
<1> HIDE DEF r
<1>6. MovesOnly(t)
  BY <1>1, <1>4, <1>5 DEF MovesOnly, ThiefPC
<1>7. Live(Fresh(t)) = {}
  <2>1. tail[Fresh(t)] <= head[Fresh(t)]
    BY <1>2, <1>3 DEF Emptied, Fresh, Epochs, TypeOK
  <2> QED BY <1>2, <2>1, Ranges, NothingBeyondEnd DEF Live
<1>8. \A e : Live(Block(e))' = Live(Block(e))
  <2>1. Mine' = Mine /\ Above' = Above /\ Below' = Below
    BY <1>1 DEF Mine, Above, Below
  <2> QED BY <1>1, <2>1 DEF Live, Held, Block
<1>9. Scanned(t)'
  <2>1. loc[t].epoch + 1 \in Epochs'
    BY <1>1, <1>2, <1>3 DEF Epochs, TypeOK
  <2>2. \A e \in thief_block .. (loc[t].epoch + 1) - 1 : e \in thief_block .. loc[t].epoch - 1 \/ e = loc[t].epoch
    BY <1>2, <1>3 DEF TypeOK
  <2>3. \A e \in thief_block .. (loc[t].epoch + 1) - 1 : Live(Block(e))' = {}
    BY <1>3, <1>7, <1>8, <2>2 DEF Fresh
  <2> QED BY <1>1, <1>4, <1>5, <2>1, <2>3 DEF Scanned
<1>10. ~Carries(t) /\ ~Carries(t)'
  BY <1>1, <1>5 DEF Carries
<1> QED BY <1>1, <1>2, <1>6, <1>9, <1>10, ThiefLooks

LEMMA ScanBlockKeepsAll ==
  ASSUME DequeConstants, DequeInv, LoneInv, overlap = "no", NEW t \in Thieves,
         ScanCursor(t), steal_tail[Fresh(t)] # NE
  PROVE  LoneInv'
<1> DEFINE r == [loc[t] EXCEPT !.at = steal_tail[Fresh(t)]]
<1>1. /\ tpc[t] = "scan" /\ tpc' = [tpc EXCEPT ![t] = "end"] /\ loc' = [loc EXCEPT ![t] = r]
      /\ loc[t].epoch < loc[t].ob
      /\ UNCHANGED <<head, tail, steal_tail, steal_head, entries, owner_block, thief_block, overflow, opc, oval, pushed,
                     taken>>
  BY DEF ScanCursor, Thief, ThiefReads, GiveUp, Sentinel, blocks, owner, ghosts
<1>2. /\ TypeOK /\ InRange /\ Window /\ Scanned(t) /\ Emptied
      /\ loc[t] \in Locals /\ Fresh(t) \in Blocks /\ Theirs(t) \in Blocks
      /\ loc[t].ob = owner_block /\ Theirs(t) = Mine /\ Mine \in Blocks /\ steal_tail[Mine] = NE
      /\ \A b \in Blocks : Held(b) = head[b] .. tail[b] - 1
      /\ \A b \in Blocks : steal_tail[b] # NE => head[b] = NE /\ tail[b] = NE
      /\ opc = "idle" /\ \A u \in Thieves \ {t} : tpc[u] = "idle"
  BY <1>1, LoneThief
<1>3. r \in Locals /\ r.epoch = loc[t].epoch /\ r.at = steal_tail[Fresh(t)]
  BY <1>1, <1>2, Ranges DEF Locals
<1>4. tpc'[t] = "end" /\ loc'[t] = r
  BY <1>1, <1>2 DEF TypeOK
<1> HIDE DEF r
<1>5. MovesOnly(t)
  BY <1>1, <1>3, <1>4 DEF MovesOnly, ThiefPC
<1>6. Scanned(t)'
  <2>1. Epochs' = Epochs /\ \A e : Live(Block(e))' = Live(Block(e))
    <3>1. Mine' = Mine /\ Above' = Above /\ Below' = Below
      BY <1>1 DEF Mine, Above, Below
    <3> QED BY <1>1, <3>1 DEF Live, Held, Block, Epochs
  <2>2. Fresh(t)' = Fresh(t)
    BY <1>3, <1>4 DEF Fresh
  <2>3. steal_tail[Fresh(t)] < NE
    BY <1>2, Ranges DEF DequeConstants, ScanCursor, Sentinel
  <2> QED BY <1>1, <1>2, <1>3, <1>4, <2>1, <2>2, <2>3 DEF Scanned
<1>7. (Carries(t) <=> Carries(t)') /\ (Carries(t) => Carried(t)' = Carried(t))
  BY <1>1, <1>4 DEF Carries
<1> QED BY <1>1, <1>2, <1>5, <1>6, <1>7, ThiefLooks

LEMMA ScanToReserveKeepsAll ==
  ASSUME DequeConstants, DequeInv, LoneInv, overlap = "no", NEW t \in Thieves,
         ScanEnd(t), ~(loc[t].at >= tail[Fresh(t)])
  PROVE  LoneInv'
<1> DEFINE r == [loc[t] EXCEPT !.end = tail[Fresh(t)]]
<1>1. /\ tpc[t] = "end" /\ tpc' = [tpc EXCEPT ![t] = "reserve"] /\ loc' = [loc EXCEPT ![t] = r]
      /\ UNCHANGED <<head, tail, steal_tail, steal_head, entries, owner_block, thief_block, overflow, opc, oval, pushed,
                     taken>>
  BY DEF ScanEnd, Thief, ThiefReads, GiveUp, Sentinel, blocks, owner, ghosts
<1>2. /\ TypeOK /\ InRange /\ Window /\ Scanned(t) /\ Emptied
      /\ loc[t] \in Locals /\ Fresh(t) \in Blocks /\ Theirs(t) \in Blocks
      /\ loc[t].ob = owner_block /\ Theirs(t) = Mine /\ Mine \in Blocks /\ steal_tail[Mine] = NE
      /\ \A b \in Blocks : Held(b) = head[b] .. tail[b] - 1
      /\ \A b \in Blocks : steal_tail[b] # NE => head[b] = NE /\ tail[b] = NE
      /\ opc = "idle" /\ \A u \in Thieves \ {t} : tpc[u] = "idle"
  BY <1>1, LoneThief
<1>3. r \in Locals /\ r.epoch = loc[t].epoch /\ r.at = loc[t].at /\ r.end = tail[Fresh(t)]
  BY <1>1, <1>2, Ranges DEF Locals
<1>4. tpc'[t] = "reserve" /\ loc'[t] = r
  BY <1>1, <1>2 DEF TypeOK
<1> HIDE DEF r
<1>5. MovesOnly(t)
  BY <1>1, <1>3, <1>4 DEF MovesOnly, ThiefPC
<1>6. Scanned(t)'
  <2>1. Epochs' = Epochs /\ \A e : Live(Block(e))' = Live(Block(e))
    <3>1. Mine' = Mine /\ Above' = Above /\ Below' = Below
      BY <1>1 DEF Mine, Above, Below
    <3> QED BY <1>1, <3>1 DEF Live, Held, Block, Epochs
  <2>2. Fresh(t)' = Fresh(t)
    BY <1>3, <1>4 DEF Fresh
  <2>3. tail[Fresh(t)] = NE
    BY <1>1, <1>2 DEF Scanned, Locals, DequeConstants
  <2> QED BY <1>1, <1>2, <1>3, <1>4, <2>1, <2>2, <2>3 DEF Scanned
<1>7. (Carries(t) <=> Carries(t)') /\ (Carries(t) => Carried(t)' = Carried(t))
  BY <1>1, <1>4 DEF Carries
<1> QED BY <1>1, <1>2, <1>5, <1>6, <1>7, ThiefLooks

LEMMA GiveUpKeepsAll ==
  ASSUME DequeConstants, DequeInv, LoneInv, overlap = "no", NEW t \in Thieves,
         tpc[t] \in {"scan", "top", "claim"}, GiveUp(t)
  PROVE  LoneInv'
<1> DEFINE r == Unset
<1>1. /\ tpc[t] \in {"scan", "top", "claim"} /\ tpc' = [tpc EXCEPT ![t] = "idle"] /\ loc' = [loc EXCEPT ![t] = r]
      /\ UNCHANGED <<head, tail, steal_tail, steal_head, entries, owner_block, thief_block, overflow, opc, oval, pushed,
                     taken>>
  BY DEF Thief, ThiefReads, GiveUp, Sentinel, blocks, owner, ghosts
<1>2. /\ TypeOK /\ InRange /\ Window /\ Scanned(t) /\ Emptied
      /\ loc[t] \in Locals /\ Fresh(t) \in Blocks /\ Theirs(t) \in Blocks
      /\ loc[t].ob = owner_block /\ Theirs(t) = Mine /\ Mine \in Blocks /\ steal_tail[Mine] = NE
      /\ \A b \in Blocks : Held(b) = head[b] .. tail[b] - 1
      /\ \A b \in Blocks : steal_tail[b] # NE => head[b] = NE /\ tail[b] = NE
      /\ opc = "idle" /\ \A u \in Thieves \ {t} : tpc[u] = "idle"
  BY <1>1, LoneThief
<1>3. r \in Locals
  BY <1>1, <1>2 DEF Locals, Unset, DequeConstants
<1>4. tpc'[t] = "idle" /\ loc'[t] = r
  BY <1>1, <1>2 DEF TypeOK
<1> HIDE DEF r
<1>5. MovesOnly(t)
  BY <1>1, <1>3, <1>4 DEF MovesOnly, ThiefPC
<1>6. Scanned(t)'
  BY <1>1, <1>4 DEF Scanned
<1>7. (Carries(t) <=> Carries(t)') /\ (Carries(t) => Carried(t)' = Carried(t))
  BY <1>1, <1>4 DEF Carries
<1> QED BY <1>1, <1>2, <1>5, <1>6, <1>7, ThiefLooks

LEMMA FallbackStartKeepsAll ==
  ASSUME DequeConstants, DequeInv, LoneInv, overlap = "no", NEW t \in Thieves,
         Fallback(t), steal_tail[Theirs(t)] = NE
  PROVE  LoneInv'
<1> DEFINE r == loc[t]
<1>1. /\ tpc[t] = "scan" /\ tpc' = [tpc EXCEPT ![t] = "bottom"] /\ loc' = [loc EXCEPT ![t] = r]
      /\ UNCHANGED <<head, tail, steal_tail, steal_head, entries, owner_block, thief_block, overflow, opc, oval, pushed,
                     taken>>
  BY DEF Fallback, Thief, ThiefReads, GiveUp, Sentinel, blocks, owner, ghosts
<1>2. /\ TypeOK /\ InRange /\ Window /\ Scanned(t) /\ Emptied
      /\ loc[t] \in Locals /\ Fresh(t) \in Blocks /\ Theirs(t) \in Blocks
      /\ loc[t].ob = owner_block /\ Theirs(t) = Mine /\ Mine \in Blocks /\ steal_tail[Mine] = NE
      /\ \A b \in Blocks : Held(b) = head[b] .. tail[b] - 1
      /\ \A b \in Blocks : steal_tail[b] # NE => head[b] = NE /\ tail[b] = NE
      /\ opc = "idle" /\ \A u \in Thieves \ {t} : tpc[u] = "idle"
  BY <1>1, LoneThief
<1>3. r \in Locals
  BY <1>1, <1>2
<1>4. tpc'[t] = "bottom" /\ loc'[t] = r
  BY <1>1, <1>2 DEF TypeOK
<1> HIDE DEF r
<1>5. MovesOnly(t)
  BY <1>1, <1>3, <1>4 DEF MovesOnly, ThiefPC
<1>6. Scanned(t)'
  BY <1>1, <1>4 DEF Scanned
<1>7. (Carries(t) <=> Carries(t)') /\ (Carries(t) => Carried(t)' = Carried(t))
  BY <1>1, <1>4 DEF Carries
<1> QED BY <1>1, <1>2, <1>5, <1>6, <1>7, ThiefLooks

LEMMA FallbackHeadKeepsAll ==
  ASSUME DequeConstants, DequeInv, LoneInv, overlap = "no", NEW t \in Thieves,
         FallbackHead(t)
  PROVE  LoneInv'
<1> DEFINE r == [loc[t] EXCEPT !.at = head[Theirs(t)]]
<1>1. /\ tpc[t] = "bottom" /\ tpc' = [tpc EXCEPT ![t] = "top"] /\ loc' = [loc EXCEPT ![t] = r]
      /\ UNCHANGED <<head, tail, steal_tail, steal_head, entries, owner_block, thief_block, overflow, opc, oval, pushed,
                     taken>>
  BY DEF FallbackHead, Thief, ThiefReads, GiveUp, Sentinel, blocks, owner, ghosts
<1>2. /\ TypeOK /\ InRange /\ Window /\ Scanned(t) /\ Emptied
      /\ loc[t] \in Locals /\ Fresh(t) \in Blocks /\ Theirs(t) \in Blocks
      /\ loc[t].ob = owner_block /\ Theirs(t) = Mine /\ Mine \in Blocks /\ steal_tail[Mine] = NE
      /\ \A b \in Blocks : Held(b) = head[b] .. tail[b] - 1
      /\ \A b \in Blocks : steal_tail[b] # NE => head[b] = NE /\ tail[b] = NE
      /\ opc = "idle" /\ \A u \in Thieves \ {t} : tpc[u] = "idle"
  BY <1>1, LoneThief
<1>3. r \in Locals
  BY <1>1, <1>2, Ranges DEF Locals
<1>4. tpc'[t] = "top" /\ loc'[t] = r
  BY <1>1, <1>2 DEF TypeOK
<1> HIDE DEF r
<1>5. MovesOnly(t)
  BY <1>1, <1>3, <1>4 DEF MovesOnly, ThiefPC
<1>6. Scanned(t)'
  BY <1>1, <1>4 DEF Scanned
<1>7. (Carries(t) <=> Carries(t)') /\ (Carries(t) => Carried(t)' = Carried(t))
  BY <1>1, <1>4 DEF Carries
<1> QED BY <1>1, <1>2, <1>5, <1>6, <1>7, ThiefLooks

LEMMA FallbackLookKeepsAll ==
  ASSUME DequeConstants, DequeInv, LoneInv, overlap = "no", NEW t \in Thieves,
         FallbackTail(t), ~(loc[t].at >= tail[Theirs(t)])
  PROVE  LoneInv'
<1> DEFINE r == loc[t]
<1>1. /\ tpc[t] = "top" /\ tpc' = [tpc EXCEPT ![t] = "claim"] /\ loc' = [loc EXCEPT ![t] = r]
      /\ UNCHANGED <<head, tail, steal_tail, steal_head, entries, owner_block, thief_block, overflow, opc, oval, pushed,
                     taken>>
  BY DEF FallbackTail, Thief, ThiefReads, GiveUp, Sentinel, blocks, owner, ghosts
<1>2. /\ TypeOK /\ InRange /\ Window /\ Scanned(t) /\ Emptied
      /\ loc[t] \in Locals /\ Fresh(t) \in Blocks /\ Theirs(t) \in Blocks
      /\ loc[t].ob = owner_block /\ Theirs(t) = Mine /\ Mine \in Blocks /\ steal_tail[Mine] = NE
      /\ \A b \in Blocks : Held(b) = head[b] .. tail[b] - 1
      /\ \A b \in Blocks : steal_tail[b] # NE => head[b] = NE /\ tail[b] = NE
      /\ opc = "idle" /\ \A u \in Thieves \ {t} : tpc[u] = "idle"
  BY <1>1, LoneThief
<1>3. r \in Locals
  BY <1>1, <1>2
<1>4. tpc'[t] = "claim" /\ loc'[t] = r
  BY <1>1, <1>2 DEF TypeOK
<1> HIDE DEF r
<1>5. MovesOnly(t)
  BY <1>1, <1>3, <1>4 DEF MovesOnly, ThiefPC
<1>6. Scanned(t)'
  BY <1>1, <1>4 DEF Scanned
<1>7. (Carries(t) <=> Carries(t)') /\ (Carries(t) => Carried(t)' = Carried(t))
  BY <1>1, <1>4 DEF Carries
<1> QED BY <1>1, <1>2, <1>5, <1>6, <1>7, ThiefLooks

LEMMA ReadReservedKeepsAll ==
  ASSUME DequeConstants, DequeInv, LoneInv, overlap = "no", NEW t \in Thieves,
         ReadReserved(t)
  PROVE  LoneInv'
<1> DEFINE r == [loc[t] EXCEPT !.got = entries[Fresh(t)][loc[t].at]]
<1>1. /\ tpc[t] = "read" /\ tpc' = [tpc EXCEPT ![t] = "commit"] /\ loc' = [loc EXCEPT ![t] = r]
      /\ UNCHANGED <<head, tail, steal_tail, steal_head, entries, owner_block, thief_block, overflow, opc, oval, pushed,
                     taken>>
  BY DEF ReadReserved, Thief, ThiefReads, GiveUp, Sentinel, blocks, owner, ghosts
<1>2. /\ TypeOK /\ InRange /\ Window /\ Scanned(t) /\ Emptied
      /\ loc[t] \in Locals /\ Fresh(t) \in Blocks /\ Theirs(t) \in Blocks
      /\ loc[t].ob = owner_block /\ Theirs(t) = Mine /\ Mine \in Blocks /\ steal_tail[Mine] = NE
      /\ \A b \in Blocks : Held(b) = head[b] .. tail[b] - 1
      /\ \A b \in Blocks : steal_tail[b] # NE => head[b] = NE /\ tail[b] = NE
      /\ opc = "idle" /\ \A u \in Thieves \ {t} : tpc[u] = "idle"
  BY <1>1, LoneThief
<1>0. entries[Fresh(t)][loc[t].at] \in 0 .. MaxPush
  <2>1. loc[t].at \in 0 .. NE - 1
    BY <1>1, <1>2 DEF InRange, Locals, DequeConstants
  <2>2. \A b \in Blocks : entries[b] \in [0 .. NE - 1 -> 0 .. MaxPush]
    BY <1>2 DEF TypeOK, Blocks
  <2> QED BY <1>2, <2>1, <2>2
<1>3. r \in Locals /\ r.epoch = loc[t].epoch /\ r.at = loc[t].at /\ r.end = loc[t].end /\ r.got = entries[Fresh(t)][loc[t].at]
  BY <1>1, <1>2, <1>0 DEF Locals
<1>4. tpc'[t] = "commit" /\ loc'[t] = r
  BY <1>1, <1>2 DEF TypeOK
<1> HIDE DEF r
<1>5. MovesOnly(t)
  BY <1>1, <1>3, <1>4 DEF MovesOnly, ThiefPC
<1>6. Scanned(t)'
  <2>1. Epochs' = Epochs /\ \A e : Live(Block(e))' = Live(Block(e))
    <3>1. Mine' = Mine /\ Above' = Above /\ Below' = Below
      BY <1>1 DEF Mine, Above, Below
    <3> QED BY <1>1, <3>1 DEF Live, Held, Block, Epochs
  <2>2. Fresh(t)' = Fresh(t)
    BY <1>3, <1>4 DEF Fresh
  <2> QED BY <1>1, <1>2, <1>3, <1>4, <2>1, <2>2 DEF Scanned
<1>7. (Carries(t) <=> Carries(t)') /\ (Carries(t) => Carried(t)' = Carried(t))
  BY <1>1, <1>3, <1>4 DEF Carries, Carried
<1> QED BY <1>1, <1>2, <1>5, <1>6, <1>7, ThiefLooks

LEMMA FallbackReadKeepsAll ==
  ASSUME DequeConstants, DequeInv, LoneInv, overlap = "no", NEW t \in Thieves,
         FallbackRead(t)
  PROVE  LoneInv'
<1> DEFINE r == [loc[t] EXCEPT !.got = entries[Theirs(t)][loc[t].at]]
<1>1. /\ tpc[t] = "lift" /\ tpc' = [tpc EXCEPT ![t] = "granted"] /\ loc' = [loc EXCEPT ![t] = r]
      /\ UNCHANGED <<head, tail, steal_tail, steal_head, entries, owner_block, thief_block, overflow, opc, oval, pushed,
                     taken>>
  BY DEF FallbackRead, Thief, ThiefReads, GiveUp, Sentinel, blocks, owner, ghosts
<1>2. /\ TypeOK /\ InRange /\ Window /\ Scanned(t) /\ Emptied
      /\ loc[t] \in Locals /\ Fresh(t) \in Blocks /\ Theirs(t) \in Blocks
      /\ loc[t].ob = owner_block /\ Theirs(t) = Mine /\ Mine \in Blocks /\ steal_tail[Mine] = NE
      /\ \A b \in Blocks : Held(b) = head[b] .. tail[b] - 1
      /\ \A b \in Blocks : steal_tail[b] # NE => head[b] = NE /\ tail[b] = NE
      /\ opc = "idle" /\ \A u \in Thieves \ {t} : tpc[u] = "idle"
  BY <1>1, LoneThief
<1>0. entries[Theirs(t)][loc[t].at] \in 0 .. MaxPush
  <2>1. loc[t].at \in 0 .. NE - 1
    BY <1>1, <1>2 DEF InRange, Locals, DequeConstants
  <2>2. \A b \in Blocks : entries[b] \in [0 .. NE - 1 -> 0 .. MaxPush]
    BY <1>2 DEF TypeOK, Blocks
  <2> QED BY <1>2, <2>1, <2>2
<1>3. r \in Locals /\ r.got = entries[Theirs(t)][loc[t].at]
  BY <1>1, <1>2, <1>0 DEF Locals
<1>4. tpc'[t] = "granted" /\ loc'[t] = r
  BY <1>1, <1>2 DEF TypeOK
<1> HIDE DEF r
<1>5. MovesOnly(t)
  BY <1>1, <1>3, <1>4 DEF MovesOnly, ThiefPC
<1>6. Scanned(t)'
  BY <1>1, <1>4 DEF Scanned
<1>7. (Carries(t) <=> Carries(t)') /\ (Carries(t) => Carried(t)' = Carried(t))
  BY <1>1, <1>3, <1>4 DEF Carries, Carried
<1> QED BY <1>1, <1>2, <1>5, <1>6, <1>7, ThiefLooks

LEMMA FallbackReportKeepsAll ==
  ASSUME DequeConstants, DequeInv, LoneInv, overlap = "no", NEW t \in Thieves,
         FallbackReport(t)
  PROVE  LoneInv'
<1> DEFINE r == loc[t]
<1>1. /\ tpc[t] = "granted" /\ tpc' = [tpc EXCEPT ![t] = "return"] /\ loc' = [loc EXCEPT ![t] = r]
      /\ UNCHANGED <<head, tail, steal_tail, entries, owner_block, thief_block, overflow, opc, oval, pushed,
                     taken>>
  BY DEF FallbackReport, StoreStealHead, Thief, ThiefReads, GiveUp, Sentinel, blocks, owner, ghosts
<1>2. /\ TypeOK /\ InRange /\ Window /\ Scanned(t) /\ Emptied
      /\ loc[t] \in Locals /\ Fresh(t) \in Blocks /\ Theirs(t) \in Blocks
      /\ loc[t].ob = owner_block /\ Theirs(t) = Mine /\ Mine \in Blocks /\ steal_tail[Mine] = NE
      /\ \A b \in Blocks : Held(b) = head[b] .. tail[b] - 1
      /\ \A b \in Blocks : steal_tail[b] # NE => head[b] = NE /\ tail[b] = NE
      /\ opc = "idle" /\ \A u \in Thieves \ {t} : tpc[u] = "idle"
  BY <1>1, LoneThief
<1>3. r \in Locals
  BY <1>1, <1>2
<1>4. tpc'[t] = "return" /\ loc'[t] = r
  BY <1>1, <1>2 DEF TypeOK
<1>5. MovesOnly(t)
  BY <1>1, <1>3, <1>4 DEF MovesOnly, ThiefPC
<1>6. Scanned(t)'
  BY <1>1, <1>4 DEF Scanned
<1>7. (Carries(t) <=> Carries(t)') /\ (Carries(t) => Carried(t)' = Carried(t))
  BY <1>1, <1>4 DEF Carries, Carried
<1> QED BY <1>1, <1>2, <1>5, <1>6, <1>7, ThiefLooks

LEMMA CommitMoreKeepsAll ==
  ASSUME DequeConstants, DequeInv, LoneInv, overlap = "no", NEW t \in Thieves,
         Commit(t), ~(loc[t].at + 1 >= loc[t].end)
  PROVE  LoneInv'
<1> DEFINE r == loc[t]
<1>1. /\ tpc[t] = "commit" /\ tpc' = [tpc EXCEPT ![t] = "return"] /\ loc' = [loc EXCEPT ![t] = r]
      /\ UNCHANGED <<head, tail, steal_tail, entries, owner_block, thief_block, overflow, opc, oval, pushed,
                     taken>>
  BY DEF Commit, StoreStealHead, Thief, ThiefReads, GiveUp, Sentinel, blocks, owner, ghosts
<1>2. /\ TypeOK /\ InRange /\ Window /\ Scanned(t) /\ Emptied
      /\ loc[t] \in Locals /\ Fresh(t) \in Blocks /\ Theirs(t) \in Blocks
      /\ loc[t].ob = owner_block /\ Theirs(t) = Mine /\ Mine \in Blocks /\ steal_tail[Mine] = NE
      /\ \A b \in Blocks : Held(b) = head[b] .. tail[b] - 1
      /\ \A b \in Blocks : steal_tail[b] # NE => head[b] = NE /\ tail[b] = NE
      /\ opc = "idle" /\ \A u \in Thieves \ {t} : tpc[u] = "idle"
  BY <1>1, LoneThief
<1>3. r \in Locals
  BY <1>1, <1>2 DEF Locals
<1>4. tpc'[t] = "return" /\ loc'[t] = r
  BY <1>1, <1>2 DEF TypeOK
<1> HIDE DEF r
<1>5. MovesOnly(t)
  BY <1>1, <1>3, <1>4 DEF MovesOnly, ThiefPC
<1>6. Scanned(t)'
  BY <1>1, <1>4 DEF Scanned
<1>7. (Carries(t) <=> Carries(t)') /\ (Carries(t) => Carried(t)' = Carried(t))
  BY <1>1, <1>4 DEF Carries, Carried, r
<1> QED BY <1>1, <1>2, <1>5, <1>6, <1>7, ThiefLooks

LEMMA CommitLastKeepsAll ==
  ASSUME DequeConstants, DequeInv, LoneInv, overlap = "no", NEW t \in Thieves,
         Commit(t), loc[t].at + 1 >= loc[t].end
  PROVE  LoneInv'
<1> DEFINE r == loc[t]
<1>1. /\ tpc[t] = "commit" /\ tpc' = [tpc EXCEPT ![t] = "advance"] /\ loc' = [loc EXCEPT ![t] = r]
      /\ UNCHANGED <<head, tail, steal_tail, entries, owner_block, thief_block, overflow, opc, oval, pushed,
                     taken>>
  BY DEF Commit, StoreStealHead, Thief, ThiefReads, GiveUp, Sentinel, blocks, owner, ghosts
<1>2. /\ TypeOK /\ InRange /\ Window /\ Scanned(t) /\ Emptied
      /\ loc[t] \in Locals /\ Fresh(t) \in Blocks /\ Theirs(t) \in Blocks
      /\ loc[t].ob = owner_block /\ Theirs(t) = Mine /\ Mine \in Blocks /\ steal_tail[Mine] = NE
      /\ \A b \in Blocks : Held(b) = head[b] .. tail[b] - 1
      /\ \A b \in Blocks : steal_tail[b] # NE => head[b] = NE /\ tail[b] = NE
      /\ opc = "idle" /\ \A u \in Thieves \ {t} : tpc[u] = "idle"
  BY <1>1, LoneThief
<1>3. r \in Locals
  BY <1>1, <1>2 DEF Locals
<1>4. tpc'[t] = "advance" /\ loc'[t] = r
  BY <1>1, <1>2 DEF TypeOK
<1> HIDE DEF r
<1>5. MovesOnly(t)
  BY <1>1, <1>3, <1>4 DEF MovesOnly, ThiefPC
<1>6. Scanned(t)'
  <2>1. Epochs' = Epochs /\ \A e : Live(Block(e))' = Live(Block(e))
    <3>1. Mine' = Mine /\ Above' = Above /\ Below' = Below
      BY <1>1 DEF Mine, Above, Below
    <3> QED BY <1>1, <3>1 DEF Live, Held, Block, Epochs
  <2>2. Fresh(t)' = Fresh(t)
    BY <1>4 DEF Fresh, r
  <2>3. /\ steal_tail[Fresh(t)] = NE
        /\ loc[t].epoch \in thief_block .. owner_block - 1
    <3>1. loc[t].end = NE /\ steal_tail[Fresh(t)] = loc[t].at + 1 /\ loc[t].at \in Nat /\ loc[t].epoch \in Nat
      BY <1>1, <1>2 DEF Scanned, Locals
    <3>2. steal_tail[Fresh(t)] \in 0 .. NE
      BY <1>2, Ranges
    <3>3. loc[t].epoch \in Epochs /\ loc[t].epoch < owner_block
      BY <1>1, <1>2 DEF Scanned
    <3>4. loc[t].epoch \in thief_block .. owner_block - 1
      BY <1>2, <3>1, <3>3 DEF Epochs, TypeOK
    <3> QED BY <3>1, <3>2, <3>4 DEF DequeConstants
  <2>4. tail[Fresh(t)] <= head[Fresh(t)]
    BY <1>2, <2>3 DEF Emptied, Fresh
  <2>5. Live(Fresh(t)) = {}
    BY <1>2, <2>3, <2>4, Ranges, NothingBeyondEnd DEF Live
  <2>6. Live(Fresh(t))' = {}
    BY <2>1, <2>2, <2>5 DEF Fresh
  <2> QED BY <1>1, <1>2, <1>4, <2>1, <2>6 DEF Scanned, r
<1>7. (Carries(t) <=> Carries(t)') /\ (Carries(t) => Carried(t)' = Carried(t))
  BY <1>1, <1>4 DEF Carries, Carried, r
<1> QED BY <1>1, <1>2, <1>5, <1>6, <1>7, ThiefLooks

LEMMA ReserveKeepsAll ==
  ASSUME DequeConstants, DequeInv, LoneInv, overlap = "no", NEW t \in Thieves, Reserve(t),
         steal_tail[Fresh(t)] = loc[t].at
  PROVE  LoneInv'
<1>0. tpc[t] = "reserve"
  BY DEF Reserve
<1>1. /\ TypeOK /\ Window /\ Ordered /\ Emptied /\ Scanned(t) /\ OnePlace /\ OverflowApart /\ NoneLost
      /\ opc = "idle" /\ loc[t] \in Locals /\ Fresh(t) \in Blocks /\ steal_tail[Mine] = NE
      /\ \A b \in Blocks : Held(b) = head[b] .. tail[b] - 1
      /\ \A b \in Blocks : steal_tail[b] # NE => head[b] = NE /\ tail[b] = NE
      /\ \A u \in Thieves \ {t} : tpc[u] = "idle"
  BY <1>0, LoneThief
<1>b. PICK b \in Blocks : b = Fresh(t)
  BY <1>1
<1>j. PICK j : j = loc[t].at
  OBVIOUS
<1>2. /\ tpc' = [tpc EXCEPT ![t] = "read"] /\ loc' = [loc EXCEPT ![t] = loc[t]]
      /\ steal_tail' = [steal_tail EXCEPT ![b] = j + 1] /\ steal_tail[b] = j
      /\ UNCHANGED <<head, tail, steal_head, entries, owner_block, thief_block, overflow, opc, oval, pushed,
                     taken>>
  BY <1>b, <1>j DEF Reserve, Thief, StoreStealTail, Put, owner, ghosts
<1>3. /\ j \in Nat /\ j < NE /\ head[b] = NE /\ tail[b] = NE
      /\ loc[t].epoch \in Epochs /\ loc[t].epoch < owner_block /\ loc[t].end = NE
      /\ \A e \in thief_block .. loc[t].epoch - 1 : Live(Block(e)) = {}
  BY <1>0, <1>1, <1>2, <1>b, <1>j DEF Scanned, Locals, DequeConstants
<1>4. tpc'[t] = "read" /\ loc' = loc /\ MovesOnly(t)
  BY <1>1, <1>2 DEF TypeOK, MovesOnly, ThiefPC
<1>5. /\ Mine' = Mine /\ Above' = Above /\ Below' = Below /\ Epochs' = Epochs
      /\ steal_tail'[b] = j + 1 /\ \A c \in Blocks : c # b => steal_tail'[c] = steal_tail[c]
      /\ Fresh(t)' = b
  BY <1>1, <1>2, <1>4, <1>b DEF Mine, Above, Below, Epochs, TypeOK, Blocks, Fresh
<1>6. Window' /\ Ordered' /\ Emptied'
  BY <1>1, <1>2, <1>5 DEF Window, Ordered, Emptied, Leaving, Granting, Retaking, Resetting
<1>7. \A c \in Blocks : Held(c)' = head[c] .. tail[c] - 1
  BY <1>1, <1>2, <1>5 DEF Held
<1>8. \A c \in Blocks : /\ Live(c)' \subseteq Live(c)
                        /\ \A k \in Live(c) : k \in Live(c)' \/ (c = b /\ k = j)
  <2>1. \A c \in Blocks : c # b => Live(c)' = Live(c)
    BY <1>1, <1>5, <1>7, <1>2 DEF Live
  <2>2. \A k \in j + 1 .. NE - 1 : k \in j .. NE - 1
    BY <1>3
  <2>3. \A k \in j .. NE - 1 : k \in j + 1 .. NE - 1 \/ k = j
    BY <1>3
  <2>4. \A c \in Blocks : c = b => /\ Live(c)' \subseteq Live(c)
                                   /\ \A k \in Live(c) : k \in Live(c)' \/ k = j
    BY <1>1, <1>2, <1>5, <1>7, <2>2, <2>3 DEF Live
  <2> QED BY <2>1, <2>4
<1>9. j \in Live(b)
  BY <1>2, <1>3 DEF Live, DequeConstants
<1>10. \A u \in Thieves \ {t} : ~Carries(u) /\ ~Carries(u)' /\ Scanned(u)'
  BY <1>1, <1>4, OthersIdle
<1>11. ~Carries(t) /\ Carries(t)' /\ Carried(t)' = entries[b][j]
  BY <1>0, <1>2, <1>4, <1>5, <1>j DEF Carries, Carried
<1>12. Placed' = Placed /\ \A e \in Epochs : Block(e) \in Blocks
  BY <1>1, <1>2, EpochsApart DEF Placed, Pushing
<1>13. OverflowApart' /\ NoneLost'
  BY <1>1, <1>2, <1>5, <1>8, <1>9, <1>10, <1>11, <1>12, ActorCarried
<1>14. Scanned(t)'
  <2>1. \A e \in thief_block .. loc[t].epoch - 1 : Live(Block(e))' = {}
    <3> SUFFICES ASSUME NEW e \in thief_block .. loc[t].epoch - 1 PROVE Live(Block(e))' = {}
      OBVIOUS
    <3>1. e \in Epochs
      BY <1>1, <1>3 DEF Epochs, TypeOK
    <3>2. Live(Block(e))' \subseteq Live(Block(e))
      BY <1>8, <1>12, <3>1 DEF Block
    <3> QED BY <1>3, <3>2
  <2> QED BY <1>2, <1>3, <1>4, <1>5, <1>j, <2>1 DEF Scanned
<1> QED BY <1>6, <1>10, <1>13, <1>14 DEF LoneInv

LEMMA FallbackClaimKeepsAll ==
  ASSUME DequeConstants, DequeInv, LoneInv, overlap = "no", NEW t \in Thieves, FallbackClaim(t),
         head[Theirs(t)] = loc[t].at
  PROVE  LoneInv'
<1>0. tpc[t] = "claim"
  BY DEF FallbackClaim
<1>1. /\ TypeOK /\ Window /\ Ordered /\ Emptied /\ OnePlace /\ OverflowApart /\ NoneLost
      /\ opc = "idle" /\ loc[t] \in Locals /\ Theirs(t) = Mine /\ Mine \in Blocks /\ steal_tail[Mine] = NE
      /\ \A b \in Blocks : Held(b) = head[b] .. tail[b] - 1
      /\ \A u \in Thieves \ {t} : tpc[u] = "idle"
  BY <1>0, LoneThief
<1>b. PICK b \in Blocks : b = Mine
  BY <1>1
<1>j. PICK j : j = loc[t].at
  OBVIOUS
<1>2. /\ tpc' = [tpc EXCEPT ![t] = "lift"] /\ loc' = [loc EXCEPT ![t] = loc[t]]
      /\ head' = [head EXCEPT ![b] = j + 1] /\ head[b] = j
      /\ UNCHANGED <<tail, steal_tail, steal_head, entries, owner_block, thief_block, overflow, opc, oval, pushed,
                     taken>>
  BY <1>1, <1>b, <1>j DEF FallbackClaim, Thief, StoreHead, Put, owner, ghosts
<1>3. j \in Nat /\ j < tail[b] /\ tail[b] \in 0 .. NE
  <2>1. loc[t].at < tail[Mine]
    BY <1>0, LoneFacts DEF LastLook
  <2> QED BY <1>1, <1>b, <1>j, <2>1, Ranges DEF Locals
<1>4. tpc'[t] = "lift" /\ loc' = loc /\ MovesOnly(t)
  BY <1>1, <1>2 DEF TypeOK, MovesOnly, ThiefPC
<1>5. /\ Mine' = b /\ Above' = Above /\ Below' = Below /\ Epochs' = Epochs /\ Theirs(t)' = b
      /\ head'[b] = j + 1 /\ \A c \in Blocks : c # b => head'[c] = head[c]
  BY <1>1, <1>2, <1>4, <1>b DEF Mine, Above, Below, Epochs, TypeOK, Blocks, Theirs
<1>e. \A e \in Epochs : /\ Block(e) \in Blocks
                        /\ e < owner_block => Block(e) # b
  BY <1>1, <1>b, EpochsApart
<1>6. Window' /\ Ordered' /\ Emptied'
  <2>1. Window' /\ Ordered'
    BY <1>1, <1>2, <1>3, <1>5 DEF Window, Ordered, Granting, Retaking, Resetting
  <2>2. ~Leaving'
    BY <1>1, <1>2 DEF Leaving, Retaking, Resetting
  <2>3. \A e \in thief_block .. owner_block - 1 : tail[Block(e)] <= head'[Block(e)]
    <3> TAKE e \in thief_block .. owner_block - 1
    <3>1. e \in Epochs /\ e < owner_block /\ tail[Block(e)] <= head[Block(e)]
      BY <1>1 DEF Emptied, Epochs, TypeOK
    <3> QED BY <1>5, <1>e, <3>1
  <2> QED BY <1>2, <2>1, <2>2, <2>3 DEF Emptied
<1>7. \A c \in Blocks : Held(c)' = head'[c] .. tail[c] - 1
  BY <1>1, <1>2, <1>5 DEF Held
<1>8. \A c \in Blocks : /\ Live(c)' \subseteq Live(c)
                        /\ \A k \in Live(c) : k \in Live(c)' \/ (c = b /\ k = j)
  <2>1. \A c \in Blocks : c # b => Live(c)' = Live(c)
    BY <1>1, <1>5, <1>7, <1>2 DEF Live
  <2>2. \A k \in j + 1 .. tail[b] - 1 : k \in j .. tail[b] - 1
    BY <1>3
  <2>3. \A k \in j .. tail[b] - 1 : k \in j + 1 .. tail[b] - 1 \/ k = j
    BY <1>3
  <2>4. \A c \in Blocks : c = b => /\ Live(c)' \subseteq Live(c)
                                   /\ \A k \in Live(c) : k \in Live(c)' \/ k = j
    BY <1>1, <1>b, <1>2, <1>5, <1>7, <2>2, <2>3, ZenonT(40) DEF Live
  <2> QED BY <2>1, <2>4
<1>9. j \in Live(b)
  <2>1. Held(b) = j .. tail[b] - 1
    BY <1>1, <1>2
  <2> QED BY <1>3, <2>1 DEF Live
<1>10. \A u \in Thieves \ {t} : ~Carries(u) /\ ~Carries(u)' /\ Scanned(u)'
  BY <1>1, <1>4, OthersIdle
<1>11. ~Carries(t) /\ Carries(t)' /\ Carried(t)' = entries[b][j]
  BY <1>0, <1>2, <1>4, <1>5, <1>j DEF Carries, Carried
<1>12. Placed' = Placed
  BY <1>2 DEF Placed, Pushing
<1>13. OverflowApart' /\ NoneLost'
  BY <1>1, <1>2, <1>5, <1>8, <1>9, <1>10, <1>11, <1>12, <1>e, ActorCarried
<1>14. Scanned(t)'
  BY <1>4 DEF Scanned
<1> QED BY <1>6, <1>10, <1>13, <1>14 DEF LoneInv

LEMMA AdvanceThievesKeepsAll ==
  ASSUME DequeConstants, DequeInv, LoneInv, overlap = "no", NEW t \in Thieves, AdvanceThieves(t)
  PROVE  LoneInv'
<1>1. /\ tpc[t] = "advance" /\ tpc' = [tpc EXCEPT ![t] = "return"] /\ loc' = [loc EXCEPT ![t] = loc[t]]
      /\ thief_block' = thief_block \/ thief_block' = loc[t].epoch + 1
      /\ UNCHANGED <<head, tail, steal_tail, entries, owner_block, overflow, opc, oval, pushed, taken>>
  BY DEF AdvanceThieves, Thief, blocks, owner, ghosts
<1>2. /\ TypeOK /\ Window /\ Ordered /\ Emptied /\ Scanned(t) /\ OverflowApart /\ NoneLost
      /\ opc = "idle" /\ loc[t] \in Locals /\ \A u \in Thieves \ {t} : tpc[u] = "idle"
  BY <1>1, LoneThief
<1>3. /\ loc[t].epoch \in Nat /\ loc[t].epoch \in Epochs /\ loc[t].epoch < owner_block
      /\ Live(Block(loc[t].epoch)) = {}
      /\ \A e \in thief_block .. loc[t].epoch - 1 : Live(Block(e)) = {}
  BY <1>1, <1>2 DEF Scanned, Locals, Fresh
<1>4. tpc'[t] = "return" /\ loc' = loc /\ MovesOnly(t)
  BY <1>1, <1>2 DEF TypeOK, MovesOnly, ThiefPC
<1>5. Mine' = Mine /\ Above' = Above /\ Below' = Below
  BY <1>1 DEF Mine, Above, Below
<1>6. thief_block' \in Nat /\ thief_block <= thief_block' /\ thief_block' <= owner_block
  BY <1>1, <1>2, <1>3 DEF Epochs, Window, TypeOK
<1>7. Window' /\ Ordered'
  <2>1. Ordered'
    BY <1>1, <1>2, <1>5 DEF Ordered
  <2>2. owner_block < thief_block' + B
    <3>1. owner_block < thief_block + B /\ owner_block \in Nat /\ thief_block \in Nat /\ B \in Nat
      BY <1>2 DEF Window, TypeOK, DequeConstants
    <3>2. thief_block' \in Nat /\ thief_block <= thief_block'
      BY <1>6
    <3>3. \A i, j, k, m \in Nat : i < j + k /\ j <= m => i < m + k
      OBVIOUS
    <3> QED BY <3>1, <3>2, <3>3
  <2>3. owner_block' \in Epochs'
    BY <1>1, <1>2, <1>6 DEF Epochs, TypeOK
  <2> QED BY <1>1, <1>2, <2>1, <2>2, <2>3 DEF Window, Granting, Retaking, Resetting
<1>8. Emptied'
  <2>1. ~Leaving'
    BY <1>1, <1>2 DEF Leaving, Retaking, Resetting
  <2>2. \A e \in thief_block' .. owner_block - 1 : tail[Block(e)] <= head[Block(e)]
    BY <1>2, <1>6 DEF Emptied, TypeOK
  <2> QED BY <1>1, <2>1, <2>2 DEF Emptied
<1>9. \A b : Live(b)' = Live(b)
  BY <1>1, <1>5 DEF Live, Held
<1>10. \A e \in Epochs : Live(Block(e)) = {} \/ e \in Epochs'
  <2> TAKE e \in Epochs
  <2>1. CASE e >= thief_block'
    BY <1>1, <1>2, <1>6, <2>1 DEF Epochs, TypeOK
  <2>2. CASE e < thief_block'
    <3>1. e \in thief_block .. loc[t].epoch - 1 \/ e = loc[t].epoch
      BY <1>1, <1>2, <1>3, <2>2 DEF Epochs, TypeOK
    <3> QED BY <1>3, <3>1
  <2> QED BY <1>2, <1>6, <2>1, <2>2 DEF Epochs, TypeOK
<1>11. \A e \in Epochs : \A j \in Live(Block(e)) :
         e \in Epochs' /\ j \in Live(Block(e))' /\ entries'[Block(e)][j] = entries[Block(e)][j]
  BY <1>1, <1>9, <1>10 DEF Block
<1>12. \A u \in Thieves \ {t} : ~Carries(u) /\ ~Carries(u)' /\ Scanned(u)'
  BY <1>2, <1>4, OthersIdle
<1>13. Carries(t) /\ Carries(t)' /\ Carried(t)' = Carried(t)
  BY <1>1, <1>4 DEF Carries, Carried
<1>14. \A u \in Thieves : Carries(u)' = Carries(u) /\ (Carries(u) => Carried(u)' = Carried(u))
  BY <1>12, <1>13 DEF Carries
<1>15. OverflowApart' /\ NoneLost'
  <2>1. Placed' = Placed /\ \A b \in Blocks : \A j \in Live(b)' : j \in Live(b) /\ entries'[b][j] = entries[b][j]
    BY <1>1, <1>9 DEF Placed, Pushing
  <2> QED BY <1>1, <1>2, <1>11, <1>14, <2>1, SameFound
<1>16. Scanned(t)'
  BY <1>4 DEF Scanned
<1> QED BY <1>7, <1>8, <1>12, <1>15, <1>16 DEF LoneInv

LEMMA ReturnKeepsAll ==
  ASSUME DequeConstants, DequeInv, LoneInv, overlap = "no", NEW t \in Thieves, Return(t)
  PROVE  LoneInv'
<1>i. PICK i : i = loc[t].got
  OBVIOUS
<1>1. /\ tpc[t] = "return" /\ tpc' = [tpc EXCEPT ![t] = "idle"] /\ loc' = [loc EXCEPT ![t] = Unset]
      /\ taken' = [taken EXCEPT ![i] = @ + 1]
      /\ UNCHANGED <<head, tail, steal_tail, entries, owner_block, thief_block, overflow, opc, oval, pushed>>
  BY <1>i DEF Return, Take, Thief, blocks, owner, ghosts
<1>2. /\ TypeOK /\ Window /\ Ordered /\ Emptied /\ OnePlace /\ OverflowApart /\ NoneLost
      /\ opc = "idle" /\ \A u \in Thieves \ {t} : tpc[u] = "idle"
  BY <1>1, LoneThief
<1>3. tpc'[t] = "idle" /\ MovesOnly(t)
  <2>1. Unset \in Locals
    BY DEF Unset, Locals, DequeConstants
  <2>2. tpc'[t] = "idle" /\ loc'[t] = Unset
    BY <1>1, <1>2 DEF TypeOK
  <2> QED BY <1>1, <2>1, <2>2 DEF MovesOnly, ThiefPC
<1>4. Mine' = Mine /\ Above' = Above /\ Below' = Below /\ Epochs' = Epochs
  BY <1>1 DEF Mine, Above, Below, Epochs
<1>5. Window' /\ Ordered' /\ Emptied'
  BY <1>1, <1>2, <1>4 DEF Window, Ordered, Emptied, Leaving, Granting, Retaking, Resetting
<1>6. \A b : Live(b)' = Live(b)
  BY <1>1, <1>4 DEF Live, Held
<1>7. \A u \in Thieves \ {t} : ~Carries(u) /\ ~Carries(u)' /\ Scanned(u)'
  BY <1>2, <1>3, OthersIdle
<1>8. Carries(t) /\ Carried(t) = i /\ ~Carries(t)' /\ Scanned(t)'
  BY <1>1, <1>3, <1>i DEF Carries, Carried, Scanned
<1>9. Placed' = Placed /\ Placed \in Int
  BY <1>1, <1>2 DEF Placed, Pushing, TypeOK
<1>10. i \in Items /\ i \notin overflow
  <2>1. Untaken(i)
    BY <1>2, <1>8 DEF OnePlace
  <2> QED BY <1>2, <1>8, <1>9, <2>1, UntakenIsItem DEF OverflowApart
<1>11. \A e \in Epochs : /\ e \in Epochs'
                         /\ \A j \in Live(Block(e)) : entries[Block(e)][j] # i => j \in Live(Block(e))'
  BY <1>4, <1>6 DEF Block
<1>12. OverflowApart' /\ NoneLost'
  <2>1. /\ \A u \in Thieves : Carries(u)' => Carries(u) /\ Carried(u)' = Carried(u)
        /\ \A u \in Thieves : Carries(u) /\ Carried(u) # i => Carries(u)' /\ Carried(u)' = Carried(u)
    BY <1>7, <1>8
  <2>2. \A b \in Blocks : Live(b)' \subseteq Live(b)
    BY <1>6
  <2> QED BY <1>1, <1>2, <1>9, <1>10, <1>11, <2>1, <2>2, ReturnedLeaves
<1> QED BY <1>5, <1>7, <1>8, <1>12 DEF LoneInv

-----------------------------------------------------------------------------
LEMMA LoneInit ==
  ASSUME DequeConstants, Init PROVE LoneInv
<1>1. TypeOK /\ InRange
  BY TypeInit
<1>2. /\ opc = "idle" /\ pushed = 0 /\ overflow = {} /\ owner_block = 1 /\ thief_block = 0
      /\ \A t \in Thieves : tpc[t] = "idle"
      /\ \A b \in Blocks : head[b] = 0 /\ tail[b] = 0
  BY DEF Init, Blocks
<1>3. Window
  BY <1>2 DEF Window, Granting, Retaking, Resetting, Epochs, DequeConstants
<1>4. Ordered
  BY <1>2 DEF Ordered
<1>5. Emptied
  <2>1. \A e \in thief_block .. owner_block - 1 : Block(e) \in Blocks
    BY <1>1, BlockIsBlock DEF TypeOK
  <2> QED BY <1>2, <2>1 DEF Emptied, Leaving, Retaking, Resetting
<1>6. OverflowApart /\ NoneLost
  <2>1. \A i : ~Untaken(i)
    BY <1>2 DEF Untaken, Placed, Pushing
  <2> QED BY <1>2, <2>1 DEF OverflowApart, NoneLost
<1>7. \A t \in Thieves : Scanned(t)
  BY <1>2 DEF Scanned
<1> QED BY <1>3, <1>4, <1>5, <1>6, <1>7 DEF LoneInv

LEMMA OwnerKeepsAll ==
  ASSUME DequeConstants, DequeInv, LoneInv, overlap = "no", overlap' = "no", Push \/ Pop \/ OwnerInside
  PROVE  LoneInv'
<1>1. CASE Reclaim
  <2>1. opc' \in {"reset", "drain"}
    BY <1>1 DEF Reclaim, OwnerReads
  <2> QED BY <1>1, <2>1, ReclaimedKeepsAll, DrainKeepsAll
<1>2. CASE Reset
  <2>1. opc \in {"reset", "reset_tail", "reset_commits", "reset_steals"}
    BY <1>2 DEF Reset
  <2> QED BY <1>2, <2>1, Reset1KeepsAll, Reset2KeepsAll, Reset3KeepsAll, Reset4KeepsAll
<1>3. CASE PopClaim
  <2>1. head[Mine] = oval
    BY <1>3, LoneFacts DEF PopClaim, OwnerKnows
  <2> QED BY <1>3, <2>1, PopWonKeepsAll
<1>4. CASE Takeover
  BY <1>4, TakenOverKeepsAll, TakeoverKeepsAll
<1>5. CASE Push \/ PushWrite \/ PushPublish \/ PushOverflow \/ GrantLoad \/ GrantClose \/ GrantOpen
  BY <1>5, PushKeepsAll, PushWriteKeepsAll, PushPublishKeepsAll, PushOverflowKeepsAll, GrantLoadKeepsAll,
     GrantCloseKeepsAll, GrantOpenKeepsAll
<1>6. CASE \/ Pop \/ PopLook \/ PopTop \/ PopLast \/ PopResetHead \/ PopResetTail
           \/ PopRetreat \/ TakeoverSpin \/ TakeoverDone
  BY <1>6, PopKeepsAll, PopLookKeepsAll, PopTopKeepsAll, PopLastKeepsAll, PopResetHeadKeepsAll,
     PopResetTailKeepsAll, PopRetreatKeepsAll, TakeoverSpinKeepsAll, TakeoverDoneKeepsAll
<1> QED BY <1>1, <1>2, <1>3, <1>4, <1>5, <1>6 DEF OwnerInside

LEMMA ThiefKeepsAll ==
  ASSUME DequeConstants, DequeInv, LoneInv, overlap = "no", overlap' = "no",
         NEW t \in Thieves, StealCall(t) \/ ThiefInside(t)
  PROVE  LoneInv'
<1>1. CASE ScanCursor(t)
  <2>1. CASE steal_tail[Fresh(t)] = NE
    BY <1>1, <2>1, ScanPastKeepsAll DEF ScanCursor, Sentinel
  <2> QED BY <1>1, <2>1, ScanBlockKeepsAll
<1>2. CASE ScanEnd(t)
  <2>1. loc[t].at = steal_tail[Fresh(t)] /\ loc[t].at < NE /\ tail[Fresh(t)] = NE
    <3>1. tpc[t] = "end"
      BY <1>2 DEF ScanEnd
    <3> QED BY <3>1, LoneThief DEF Scanned, Locals, DequeConstants
  <2>2. ~(loc[t].at >= tail[Fresh(t)])
    <3>1. loc[t].at \in Int
      BY LoneFacts, ThiefBlocks DEF Locals
    <3> QED BY <2>1, <3>1 DEF DequeConstants
  <2> QED BY <1>2, <2>2, ScanToReserveKeepsAll
<1>3. CASE Reserve(t)
  <2>1. tpc[t] = "reserve"
    BY <1>3 DEF Reserve
  <2>2. steal_tail[Fresh(t)] = loc[t].at
    BY <2>1 DEF LoneInv, Scanned
  <2> QED BY <1>3, <2>2, ReserveKeepsAll
<1>4. CASE Fallback(t)
  <2>1. CASE steal_tail[Theirs(t)] # NE
    BY <1>4, <2>1, GiveUpKeepsAll DEF Fallback, Sentinel
  <2> QED BY <1>4, <2>1, FallbackStartKeepsAll
<1>5. CASE FallbackTail(t)
  <2>1. CASE loc[t].at >= tail[Theirs(t)]
    BY <1>5, <2>1, GiveUpKeepsAll DEF FallbackTail
  <2> QED BY <1>5, <2>1, FallbackLookKeepsAll
<1>6. CASE FallbackClaim(t)
  <2>1. CASE head[Theirs(t)] # loc[t].at
    BY <1>6, <2>1, GiveUpKeepsAll DEF FallbackClaim
  <2> QED BY <1>6, <2>1, FallbackClaimKeepsAll
<1>7. CASE Commit(t)
  BY <1>7, CommitMoreKeepsAll, CommitLastKeepsAll
<1>8. CASE \/ StealCall(t) \/ StealBound(t) \/ ReadReserved(t) \/ AdvanceThieves(t) \/ Return(t)
           \/ FallbackHead(t) \/ FallbackRead(t) \/ FallbackReport(t)
  BY <1>8, StealCallKeepsAll, StealBoundKeepsAll, ReadReservedKeepsAll, AdvanceThievesKeepsAll,
     ReturnKeepsAll, FallbackHeadKeepsAll, FallbackReadKeepsAll, FallbackReportKeepsAll
<1> QED BY <1>1, <1>2, <1>3, <1>4, <1>5, <1>6, <1>7, <1>8 DEF ThiefInside

(* Calls that overlapped once have overlapped for good.                     *)
LEMMA OverlapStays ==
  ASSUME TypeOK, [Next]_vars, overlap' = "no" PROVE overlap = "no"
<1>1. CASE UNCHANGED vars
  BY <1>1 DEF vars, ghosts
<1>2. CASE Push \/ Pop
  BY <1>2 DEF Push, Pop, Begins
<1>3. CASE OwnerInside
  BY <1>3 DEF OwnerInside, PushWrite, PushPublish, PushOverflow, GrantLoad, GrantClose, GrantOpen, Reclaim, Reset,
     PopLook, PopTop, PopLast, PopClaim, PopResetHead, PopResetTail, PopRetreat, Takeover, TakeoverSpin,
     TakeoverDone, OwnerReads, Take, ghosts
<1>4. CASE \E t \in Thieves : StealCall(t) \/ ThiefInside(t)
  <2>1. PICK t \in Thieves : StealCall(t) \/ ThiefInside(t)
    BY <1>4
  <2>2. CASE StealCall(t)
    BY <2>2 DEF StealCall, Begins
  <2>3. CASE ThiefInside(t)
    BY <2>3 DEF ThiefInside, StealBound, ScanCursor, ScanEnd, Reserve, ReadReserved, Commit, AdvanceThieves,
       Return, Fallback, FallbackHead, FallbackTail, FallbackClaim, FallbackRead, FallbackReport, NextEpoch,
       GiveUp, ThiefReads, Take, ghosts
  <2> QED BY <2>1, <2>2, <2>3
<1> QED BY <1>1, <1>2, <1>3, <1>4 DEF Next

LEMMA LoneStep ==
  ASSUME DequeConstants, DequeInv, overlap = "no" => LoneInv, [Next]_vars
  PROVE  overlap' = "no" => LoneInv'
<1> SUFFICES ASSUME overlap' = "no" PROVE LoneInv'
  OBVIOUS
<1>1. overlap = "no" /\ LoneInv
  BY OverlapStays DEF DequeInv
<1>2. CASE Push \/ Pop \/ OwnerInside
  BY <1>1, <1>2, OwnerKeepsAll
<1>3. CASE \E t \in Thieves : StealCall(t) \/ ThiefInside(t)
  BY <1>1, <1>3, ThiefKeepsAll
<1>4. CASE UNCHANGED vars
  <2>1. UNCHANGED <<head, tail, steal_tail, entries, owner_block, thief_block, overflow, opc, oval, tpc, loc,
                    pushed, taken>>
    BY <1>4 DEF vars, blocks, cursors, owner, thieves, ghosts
  <2>2. /\ TypeOK /\ Window /\ Ordered /\ Emptied /\ OverflowApart /\ NoneLost
        /\ \A t \in Thieves : Scanned(t)
    BY <1>1, LoneFacts DEF LoneInv
  <2>3. Mine' = Mine /\ Above' = Above /\ Below' = Below /\ Epochs' = Epochs
    BY <2>1 DEF Mine, Above, Below, Epochs
  <2>4. Window' /\ Ordered' /\ Emptied'
    BY <2>1, <2>2, <2>3 DEF Window, Ordered, Emptied, Leaving, Granting, Retaking, Resetting
  <2>5. \A b : Live(b)' = Live(b)
    BY <2>1, <2>3 DEF Live, Held
  <2>6. \A t \in Thieves : /\ Carries(t)' = Carries(t) /\ (Carries(t) => Carried(t)' = Carried(t))
    BY <2>1 DEF Carries, Carried, Fresh, Theirs
  <2>7. \A b \in Blocks : \A j \in Live(b)' : j \in Live(b) /\ entries'[b][j] = entries[b][j]
    BY <2>1, <2>5
  <2>8. \A e : Live(Block(e))' = Live(Block(e))
    BY <2>5 DEF Block
  <2>9. OverflowApart' /\ NoneLost'
    <3>1. Placed' = Placed
      BY <2>1 DEF Placed, Pushing
    <3>2. \A e \in Epochs : \A j \in Live(Block(e)) :
            e \in Epochs' /\ j \in Live(Block(e))' /\ entries'[Block(e)][j] = entries[Block(e)][j]
      BY <2>1, <2>3, <2>8
    <3> QED BY <2>1, <2>2, <2>6, <2>7, <3>1, <3>2, SameFound
  <2>10. \A t \in Thieves : Scanned(t)'
    <3> TAKE t \in Thieves
    <3>1. Scanned(t) /\ Fresh(t)' = Fresh(t)
      BY <2>1, <2>2 DEF Fresh
    <3>2. Live(Fresh(t))' = Live(Fresh(t))
      BY <2>5, <3>1
    <3> QED BY <2>1, <2>3, <2>8, <3>1, <3>2 DEF Scanned
  <2> QED BY <2>4, <2>9, <2>10 DEF LoneInv
<1> QED BY <1>2, <1>3, <1>4 DEF Next

(* What is found at rest is what a call could still return.                 *)
LEMMA LoneIsEnough ==
  ASSUME DequeConstants, DequeInv, overlap = "no" => LoneInv PROVE NothingLost
<1> SUFFICES ASSUME overlap = "no", opc = "idle", \A t \in Thieves : tpc[t] = "idle"
             PROVE  Available = {i \in 1 .. pushed : taken[i] = 0}
  BY DEF NothingLost
<1>1. /\ TypeOK /\ OnePlace /\ Cursors /\ Window /\ Emptied /\ OverflowApart /\ NoneLost /\ Mine \in Blocks
  BY LoneFacts
<1>2. /\ \A b \in Blocks : Held(b) = head[b] .. tail[b] - 1
      /\ steal_tail[Mine] = NE
      /\ \A b \in Blocks : steal_tail[b] # NE => tail[b] = NE
  BY <1>1 DEF Held, Cursors, MineClosed, GrantedClosed, Resetting
<1>3. /\ \A i : Untaken(i) <=> i \in 1 .. pushed /\ taken[i] = 0
      /\ \A i : Untaken(i) => i \in Items
  BY <1>1 DEF Untaken, Placed, Pushing, Items, TypeOK, DequeConstants
<1>4. \A e \in Epochs : /\ e \in Nat /\ Block(e) \in Blocks
                        /\ e = owner_block \/ e \in thief_block .. owner_block - 1
  <2>1. \A e \in Epochs : e \in Nat /\ Block(e) \in Blocks
    BY <1>1, EpochsApart
  <2> QED BY <1>1, <2>1 DEF Epochs, TypeOK
<1>5. \A e \in thief_block .. owner_block - 1 : /\ Block(e) \in Blocks
                                                /\ tail[Block(e)] <= head[Block(e)]
  BY <1>1, <1>4 DEF Emptied, Epochs, TypeOK
<1>6. \A b \in Blocks : \A j : j \in steal_tail[b] .. tail[b] - 1 <=> j \in steal_tail[b] .. NE - 1
  <2> SUFFICES ASSUME NEW b \in Blocks, NEW j
               PROVE  j \in steal_tail[b] .. tail[b] - 1 <=> j \in steal_tail[b] .. NE - 1
    OBVIOUS
  <2>1. steal_tail[b] \in 0 .. NE /\ tail[b] \in 0 .. NE /\ NE \in Nat
    BY <1>1, Ranges DEF DequeConstants
  <2>2. steal_tail[b] # NE => tail[b] = NE
    BY <1>2
  <2> QED BY <2>1, <2>2
<1>7. ASSUME NEW i \in Available PROVE Untaken(i)
  <2>1. CASE i \in overflow
    BY <1>1, <2>1 DEF OverflowApart
  <2>2. CASE i \in InBlock(Mine, head[Mine])
    <3>1. PICK j \in head[Mine] .. tail[Mine] - 1 : i = entries[Mine][j]
      BY <2>2 DEF InBlock
    <3> QED BY <1>1, <1>2, <3>1 DEF OnePlace, Live
  <2>3. CASE \E e \in thief_block .. owner_block - 1 : i \in InBlock(Block(e), steal_tail[Block(e)])
    <3>1. PICK e \in thief_block .. owner_block - 1 :
               \E j \in steal_tail[Block(e)] .. tail[Block(e)] - 1 : i = entries[Block(e)][j]
      BY <2>3 DEF InBlock
    <3>2. PICK j \in steal_tail[Block(e)] .. NE - 1 : i = entries[Block(e)][j]
      BY <1>5, <1>6, <3>1
    <3>3. j \in Live(Block(e)) /\ Block(e) \in Blocks
      BY <1>5, <3>2 DEF Live
    <3> QED BY <1>1, <3>2, <3>3 DEF OnePlace
  <2> QED BY <2>1, <2>2, <2>3 DEF Available
<1>8. ASSUME NEW i, Untaken(i) PROVE i \in Available
  <2>1. Found(i) /\ \A t \in Thieves : ~Carries(t)
    BY <1>1, <1>3, <1>8 DEF NoneLost, Carries
  <2>2. CASE i \in overflow
    BY <2>2 DEF Available
  <2>3. CASE \E e \in Epochs : \E j \in Live(Block(e)) : entries[Block(e)][j] = i
    <3>1. PICK e \in Epochs : \E j \in Live(Block(e)) : entries[Block(e)][j] = i
      BY <2>3
    <3>2. PICK j \in Live(Block(e)) : entries[Block(e)][j] = i
      BY <3>1
    <3>3. CASE e = owner_block
      <4>1. j \in head[Mine] .. tail[Mine] - 1 /\ entries[Mine][j] = i
        BY <1>1, <1>2, <3>2, <3>3, NothingBeyondEnd DEF Live, Mine
      <4> QED BY <4>1 DEF Available, InBlock
    <3>4. CASE e \in thief_block .. owner_block - 1
      <4>1. j \notin Held(Block(e))
        BY <1>1, <1>2, <1>5, <3>4, Ranges
      <4>2. j \in steal_tail[Block(e)] .. tail[Block(e)] - 1
        BY <1>5, <1>6, <3>2, <3>4, <4>1 DEF Live
      <4>3. i \in InBlock(Block(e), steal_tail[Block(e)])
        BY <3>2, <4>2 DEF InBlock
      <4> QED BY <3>4, <4>3 DEF Available
    <3> QED BY <1>4, <3>3, <3>4
  <2> QED BY <2>1, <2>2, <2>3 DEF Found
<1> QED BY <1>3, <1>7, <1>8

(* While no two calls of it overlap a deque loses no actor and keeps none   *)
(* that it has returned, whatever its size and the order of the calls       *)
(* (scheduler.c, lines 114-353).                                            *)
THEOREM NothingIsLost == ASSUME DequeConstants PROVE Spec => []NothingLost
<1>1. Init => (overlap = "no" => LoneInv)
  BY LoneInit
<1>2. DequeInv /\ (overlap = "no" => LoneInv) /\ [Next]_vars => (overlap = "no" => LoneInv)'
  BY LoneStep
<1>3. DequeInv /\ (overlap = "no" => LoneInv) => NothingLost
  BY LoneIsEnough
<1> QED BY <1>1, <1>2, <1>3, DequeInvariant, PTL DEF Spec

=============================================================================
