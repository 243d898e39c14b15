------------------------------ MODULE BWoSDeque ------------------------------
(***************************************************************************)
(* The work-stealing deque of a scheduler (scheduler.c: ws_push, ws_pop,   *)
(* ws_steal): a ring of blocks.  The owner pushes and pops at the tail of  *)
(* one block; a full block is granted to the thieves, who reserve entries  *)
(* by a CAS on steal_tail and commit by an increment of steal_head.  An    *)
(* owner that finds its block empty takes the previous one back.  A thief  *)
(* that finds no granted block steals from the head of the owner's block.  *)
(*                                                                         *)
(* A step is one access to a word that the other side uses; the owner's    *)
(* loads of words only it writes go with the step that uses them.          *)
(* Accesses take effect in program order.  Actors are numbered in the      *)
(* order in which they are pushed.                                         *)
(***************************************************************************)
EXTENDS Integers, FiniteSets

CONSTANTS
  Thieves,
  NE,        \* BWOS_NE, the entries of a block
  B,         \* BWOS_B, the blocks of the ring
  MaxPush    \* bound: calls of ws_push

VARIABLES
  head, tail, steal_tail, steal_head,   \* of each block
  entries,                              \* entries[b][i], 0 where nothing was written
  owner_block, thief_block,             \* epochs; the block is the epoch modulo B
  overflow,                             \* actors handed to the global queue
  opc, oval,                            \* the owner: where it is, the value it has read
  tpc, loc,                             \* a thief: where it is, its local variables
  pushed, taken,                        \* actors pushed; how often each was returned
  fell,                                 \* whether a fallback steal has succeeded
  early,                                \* whether a block was reset while a thief read it
  overlap                               \* whether two calls were ever under way at once

blocks == <<head, tail, steal_tail, steal_head>>
cursors == <<owner_block, thief_block>>
owner == <<opc, oval>>
thieves == <<tpc, loc>>
ghosts == <<pushed, taken, fell, early, overlap>>
vars == <<blocks, entries, cursors, overflow, owner, thieves, ghosts>>

(* scheduler.h has 32 entries and 8 blocks. *)
DequeConstants == IsFiniteSet(Thieves) /\ NE \in Nat \ {0} /\ B \in Nat \ {0, 1} /\ MaxPush \in Nat

Sentinel == NE   \* BWOS_SENTINEL
Block(e) == e % B
Items == 1 .. MaxPush
Unset == [tb |-> 0, ob |-> 0, epoch |-> 0, at |-> 0, end |-> 0, got |-> 0]
Locals == [tb : Nat, ob : Nat, epoch : Nat, at : 0 .. NE, end : 0 .. NE, got : 0 .. MaxPush]

(* ws_init *)
Init ==
  /\ head = [b \in 0 .. B - 1 |-> 0] /\ tail = head /\ steal_head = head
  /\ steal_tail = [b \in 0 .. B - 1 |-> Sentinel]
  /\ entries = [b \in 0 .. B - 1 |-> [i \in 0 .. NE - 1 |-> 0]]
  /\ owner_block = 1 /\ thief_block = 0 /\ overflow = {}
  /\ opc = "idle" /\ oval = 0
  /\ tpc = [t \in Thieves |-> "idle"]
  /\ loc = [t \in Thieves |-> Unset]
  /\ pushed = 0 /\ taken = [i \in Items |-> 0] /\ fell = "no" /\ early = "no" /\ overlap = "no"

Put(f, b, v) == [f EXCEPT ![b] = v]
Mine == Block(owner_block)          \* the owner's block
Above == Block(owner_block + 1)
Below == Block(owner_block - 1)

(* One store to a word of block b. *)
StoreHead(b, v) == head' = Put(head, b, v) /\ UNCHANGED <<tail, steal_tail, steal_head>>
StoreTail(b, v) == tail' = Put(tail, b, v) /\ UNCHANGED <<head, steal_tail, steal_head>>
StoreStealTail(b, v) == steal_tail' = Put(steal_tail, b, v) /\ UNCHANGED <<head, tail, steal_head>>
StoreStealHead(b, v) == steal_head' = Put(steal_head, b, v) /\ UNCHANGED <<head, tail, steal_tail>>

(* A call begins; a call returns actor i. *)
Begins == /\ overlap' = IF opc = "idle" /\ \A t \in Thieves : tpc[t] = "idle" THEN overlap ELSE "yes"
          /\ UNCHANGED <<taken, fell, early>>
Take(i) == taken' = [taken EXCEPT ![i] = @ + 1] /\ UNCHANGED <<pushed, fell, early, overlap>>

(* The owner goes on at l, or with v as the value it has read. *)
Owner(l) == opc' = l /\ UNCHANGED <<oval, overflow, thieves>>
OwnerReads(l, v) == /\ opc' = l /\ oval' = v
                    /\ UNCHANGED <<blocks, entries, cursors, overflow, thieves, ghosts>>

-----------------------------------------------------------------------------
(* ws_push *)

Push ==
  /\ opc = "idle" /\ pushed < MaxPush
  /\ pushed' = pushed + 1 /\ Begins
  /\ Owner("push") /\ UNCHANGED <<blocks, entries, cursors>>

(* There is room: write the entry, then publish it. *)
PushWrite ==
  /\ opc = "push" /\ tail[Mine] < NE
  /\ entries' = [entries EXCEPT ![Mine][tail[Mine]] = pushed]
  /\ Owner("publish") /\ UNCHANGED <<blocks, cursors, ghosts>>

PushPublish ==
  /\ opc = "publish" /\ StoreTail(Mine, tail[Mine] + 1)
  /\ Owner("idle") /\ UNCHANGED <<entries, cursors, ghosts>>

(* The block is full.  Without a next one the actor goes to the global      *)
(* queue, which is taken to have room; the difference is unsigned, so an    *)
(* owner that has fallen back behind the thieves has no next block either.  *)
PushOverflow ==
  /\ opc = "push" /\ tail[Mine] = NE /\ owner_block + 1 - thief_block \notin 0 .. B - 1
  /\ overflow' = overflow \cup {pushed} /\ opc' = "idle"
  /\ UNCHANGED <<blocks, entries, cursors, oval, thieves, ghosts>>

(* There is one: grant the full block from its present head on.             *)
GrantLoad ==
  /\ opc = "push" /\ tail[Mine] = NE /\ owner_block + 1 - thief_block \in 0 .. B - 1
  /\ OwnerReads("close", head[Mine])

GrantClose ==
  /\ opc = "close" /\ StoreHead(Mine, tail[Mine])
  /\ Owner("open") /\ UNCHANGED <<entries, cursors, ghosts>>

GrantOpen ==
  /\ opc = "open" /\ StoreStealTail(Mine, oval)
  /\ Owner("reclaim") /\ UNCHANGED <<entries, cursors, ghosts>>

(* A block that carries the sentinel is taken as it is, also one that has   *)
(* the value because its last entry was reserved.  Else the owner spins     *)
(* ("drain") for as many steals, oval, as the block had entries.            *)
Reclaim ==
  /\ opc \in {"reclaim", "drain"} /\ (opc = "drain" => steal_head[Above] >= oval)
  /\ IF opc = "reclaim" /\ steal_tail[Above] # Sentinel
     THEN OwnerReads("drain", tail[Above]) ELSE OwnerReads("reset", oval)

(* A thief has reserved an entry of block b and not yet reported it.        *)
Reading(b) == \E t \in Thieves : tpc[t] \in {"read", "commit"} /\ Block(loc[t].epoch) = b

(* Four stores in a row; the last takes effect with that of owner_block. *)
Reset ==
  /\ early' = IF Reading(Above) THEN "yes" ELSE early
  /\ \/ opc = "reset" /\ StoreHead(Above, 0) /\ Owner("reset_tail") /\ UNCHANGED owner_block
     \/ opc = "reset_tail" /\ StoreTail(Above, 0) /\ Owner("reset_commits") /\ UNCHANGED owner_block
     \/ opc = "reset_commits" /\ StoreStealHead(Above, 0) /\ Owner("reset_steals") /\ UNCHANGED owner_block
     \/ opc = "reset_steals" /\ StoreStealTail(Above, Sentinel) /\ Owner("push") /\ owner_block' = owner_block + 1
  /\ UNCHANGED <<entries, thief_block, pushed, taken, fell, overlap>>

-----------------------------------------------------------------------------
(* ws_pop *)

Pop ==
  /\ opc = "idle" /\ Begins
  /\ Owner("pop") /\ UNCHANGED <<blocks, entries, cursors, pushed>>

PopLook ==
  /\ opc = "pop"
  /\ OwnerReads(CASE tail[Mine] > head[Mine] + 1 -> "top"
                  [] tail[Mine] = head[Mine] + 1 -> "last"
                  [] OTHER -> "retreat", head[Mine])

PopTop ==
  /\ opc = "top" /\ Take(entries[Mine][tail[Mine] - 1])
  /\ StoreTail(Mine, tail[Mine] - 1)
  /\ Owner("idle") /\ UNCHANGED <<entries, cursors>>

PopLast ==
  /\ opc = "last" /\ StoreTail(Mine, oval)
  /\ Owner("claim") /\ UNCHANGED <<entries, cursors, ghosts>>

(* The CAS on head against a thief: the winner has the entry. *)
PopClaim ==
  /\ opc = "claim"
  /\ IF head[Mine] = oval
     THEN Take(entries[Mine][oval]) /\ StoreHead(Mine, oval + 1) /\ Owner("won")
     ELSE Owner("lost") /\ UNCHANGED <<blocks, ghosts>>
  /\ UNCHANGED <<entries, cursors>>

(* Either way the block starts over. *)
PopResetHead ==
  /\ opc \in {"won", "lost"} /\ StoreHead(Mine, 0)
  /\ Owner(IF opc = "won" THEN "won_tail" ELSE "lost_tail") /\ UNCHANGED <<entries, cursors, ghosts>>

PopResetTail ==
  /\ opc \in {"won_tail", "lost_tail"} /\ StoreTail(Mine, 0)
  /\ Owner(IF opc = "won_tail" THEN "idle" ELSE "retreat") /\ UNCHANGED <<entries, cursors, ghosts>>

(* Nothing below: the deque is empty. *)
PopRetreat ==
  /\ opc = "retreat"
  /\ OwnerReads(IF owner_block <= thief_block THEN "idle" ELSE "takeover", oval)

(* Exchange steal_tail with the sentinel.  A block fully reserved carries   *)
(* the sentinel already (BWOS_SENTINEL is BWOS_NE), so the code's branch    *)
(* for one is never entered.                                                *)
Takeover ==
  /\ opc = "takeover" /\ StoreStealTail(Below, Sentinel)
  /\ oval' = steal_tail[Below]
  /\ opc' = IF steal_tail[Below] = Sentinel THEN "pop" ELSE "settle"
  /\ owner_block' = IF steal_tail[Below] = Sentinel THEN owner_block - 1 ELSE owner_block
  /\ UNCHANGED <<entries, thief_block, overflow, thieves, ghosts>>

(* The owner spins until the reserved entries have been read. *)
TakeoverSpin ==
  /\ opc = "settle" /\ steal_head[Below] >= oval /\ StoreHead(Below, oval)
  /\ Owner("settled") /\ UNCHANGED <<entries, cursors, ghosts>>

TakeoverDone ==
  /\ opc = "settled" /\ StoreStealHead(Below, 0) /\ owner_block' = owner_block - 1
  /\ Owner("pop") /\ UNCHANGED <<entries, thief_block, ghosts>>

-----------------------------------------------------------------------------
(* ws_steal *)

Fresh(t) == Block(loc[t].epoch)     \* the block being scanned
Theirs(t) == Block(loc[t].ob)       \* the block believed to be the owner's

(* Thief t goes on at l, with local variables r or the ones it has. *)
Thief(t, l, r) == /\ tpc' = [tpc EXCEPT ![t] = l] /\ loc' = [loc EXCEPT ![t] = r]
                  /\ UNCHANGED <<entries, owner_block, overflow, owner>>
ThiefReads(t, l, r) == Thief(t, l, r) /\ UNCHANGED <<blocks, thief_block, ghosts>>
NextEpoch(t) == ThiefReads(t, "scan", [loc[t] EXCEPT !.epoch = @ + 1])
GiveUp(t) == ThiefReads(t, "idle", Unset)

StealCall(t) ==
  /\ tpc[t] = "idle" /\ Begins
  /\ Thief(t, "bound", [Unset EXCEPT !.tb = thief_block, !.epoch = thief_block])
  /\ UNCHANGED <<blocks, thief_block, pushed>>

StealBound(t) ==
  tpc[t] = "bound" /\ ThiefReads(t, "scan", [loc[t] EXCEPT !.ob = owner_block])

(* The reservation cursor, and then the end, of the next block to scan. *)
ScanCursor(t) ==
  /\ tpc[t] = "scan" /\ loc[t].epoch < loc[t].ob
  /\ IF steal_tail[Fresh(t)] = Sentinel THEN NextEpoch(t)
     ELSE ThiefReads(t, "end", [loc[t] EXCEPT !.at = steal_tail[Fresh(t)]])

ScanEnd(t) ==
  /\ tpc[t] = "end"
  /\ IF loc[t].at >= tail[Fresh(t)] THEN NextEpoch(t)
     ELSE ThiefReads(t, "reserve", [loc[t] EXCEPT !.end = tail[Fresh(t)]])

(* Mutant of Reserve: the cursor is stored without a comparison. *)
ReserveBlindly(t) ==
  /\ tpc[t] = "reserve" /\ StoreStealTail(Fresh(t), loc[t].at + 1)
  /\ Thief(t, "read", loc[t]) /\ UNCHANGED <<thief_block, ghosts>>

(* The CAS that reserves an entry; a thief that loses it goes on to the     *)
(* next block.                                                              *)
Reserve(t) ==
  /\ tpc[t] = "reserve"
  /\ IF steal_tail[Fresh(t)] # loc[t].at THEN NextEpoch(t)
     ELSE /\ StoreStealTail(Fresh(t), loc[t].at + 1)
          /\ Thief(t, "read", loc[t]) /\ UNCHANGED <<thief_block, ghosts>>

ReadReserved(t) ==
  tpc[t] = "read" /\ ThiefReads(t, "commit", [loc[t] EXCEPT !.got = entries[Fresh(t)][loc[t].at]])

(* Mutant of Commit: the thieves move on from a block that has entries left. *)
CommitMovesOn(t) ==
  /\ tpc[t] = "commit" /\ StoreStealHead(Fresh(t), steal_head[Fresh(t)] + 1)
  /\ Thief(t, "advance", loc[t]) /\ UNCHANGED <<thief_block, ghosts>>

Commit(t) ==
  /\ tpc[t] = "commit" /\ StoreStealHead(Fresh(t), steal_head[Fresh(t)] + 1)
  /\ Thief(t, IF loc[t].at + 1 >= loc[t].end THEN "advance" ELSE "return", loc[t])
  /\ UNCHANGED <<thief_block, ghosts>>

(* The block is drained: the thieves move on to the next. *)
AdvanceThieves(t) ==
  /\ tpc[t] = "advance"
  /\ thief_block' = IF thief_block = loc[t].tb THEN loc[t].epoch + 1 ELSE thief_block
  /\ Thief(t, "return", loc[t]) /\ UNCHANGED <<blocks, ghosts>>

Return(t) ==
  /\ tpc[t] = "return" /\ Take(loc[t].got)
  /\ Thief(t, "idle", Unset) /\ UNCHANGED <<blocks, thief_block>>

(* The fallback: the head of the owner's block, if it is not granted. *)
Fallback(t) ==
  /\ tpc[t] = "scan" /\ loc[t].epoch >= loc[t].ob
  /\ IF steal_tail[Theirs(t)] # Sentinel THEN GiveUp(t) ELSE ThiefReads(t, "bottom", loc[t])

FallbackHead(t) ==
  tpc[t] = "bottom" /\ ThiefReads(t, "top", [loc[t] EXCEPT !.at = head[Theirs(t)]])

FallbackTail(t) ==
  /\ tpc[t] = "top"
  /\ IF loc[t].at >= tail[Theirs(t)] THEN GiveUp(t) ELSE ThiefReads(t, "claim", loc[t])

FallbackClaim(t) ==
  /\ tpc[t] = "claim"
  /\ IF head[Theirs(t)] # loc[t].at THEN GiveUp(t)
     ELSE /\ StoreHead(Theirs(t), loc[t].at + 1) /\ fell' = "yes"
          /\ Thief(t, "lift", loc[t]) /\ UNCHANGED <<thief_block, pushed, taken, early, overlap>>

FallbackRead(t) ==
  tpc[t] = "lift" /\ ThiefReads(t, "granted", [loc[t] EXCEPT !.got = entries[Theirs(t)][loc[t].at]])

(* If the block was granted meanwhile the steal is reported like another. *)
FallbackReport(t) ==
  /\ tpc[t] = "granted"
  /\ IF steal_tail[Theirs(t)] = Sentinel THEN UNCHANGED blocks
     ELSE StoreStealHead(Theirs(t), steal_head[Theirs(t)] + 1)
  /\ Thief(t, "return", loc[t]) /\ UNCHANGED <<thief_block, ghosts>>

-----------------------------------------------------------------------------
OwnerInside ==
  \/ PushWrite \/ PushPublish \/ PushOverflow \/ GrantLoad \/ GrantClose \/ GrantOpen
  \/ Reclaim \/ Reset
  \/ PopLook \/ PopTop \/ PopLast \/ PopClaim \/ PopResetHead \/ PopResetTail 
  \/ PopRetreat \/ Takeover \/ TakeoverSpin \/ TakeoverDone
ThiefInside(t) ==
  \/ StealBound(t) \/ ScanCursor(t) \/ ScanEnd(t) \/ Reserve(t) \/ ReadReserved(t) \/ Commit(t)
  \/ AdvanceThieves(t) \/ Return(t) \/ Fallback(t) \/ FallbackHead(t) \/ FallbackTail(t)
  \/ FallbackClaim(t) \/ FallbackRead(t) \/ FallbackReport(t)

Next == \/ Push \/ Pop \/ OwnerInside
        \/ \E t \in Thieves : StealCall(t) \/ ThiefInside(t)

Spec == Init /\ [][Next]_vars

-----------------------------------------------------------------------------
OwnerPC == {"idle", "push", "publish", "close", "open", "reclaim", "drain", "reset",
  "reset_tail", "reset_commits", "reset_steals", "pop", "top", "last", "claim", "won", "lost",
  "won_tail", "lost_tail", "retreat", "takeover", "settle", "settled"}
ThiefPC == {"idle", "bound", "scan", "end", "reserve", "read", "commit", "advance", "return",
  "bottom", "top", "claim", "lift", "granted"}

(* Every variable keeps its type. *)
TypeOK ==
  /\ {head, tail, steal_tail} \subseteq [0 .. B - 1 -> 0 .. NE]
  /\ steal_head \in [0 .. B - 1 -> Nat]
  /\ entries \in [0 .. B - 1 -> [0 .. NE - 1 -> 0 .. MaxPush]]
  /\ owner_block \in Nat /\ thief_block \in Nat /\ overflow \subseteq Items
  /\ opc \in OwnerPC /\ oval \in 0 .. NE
  /\ tpc \in [Thieves -> ThiefPC] /\ loc \in [Thieves -> Locals]
  /\ pushed \in 0 .. MaxPush /\ taken \in [Items -> Nat]
  /\ {fell, early} \subseteq {"no", "yes"} /\ overlap \in {"no", "yes"}

(* The protocol of granted blocks is in use alone, or no two calls overlap. *)
Undisturbed == (fell = "no" /\ early = "no") \/ overlap = "no"

(* The actors a call could still return, block by block. *)
InBlock(b, from) == {entries[b][i] : i \in from .. tail[b] - 1}
Available ==
  overflow \cup InBlock(Mine, head[Mine])
    \cup UNION {InBlock(Block(e), steal_tail[Block(e)]) : e \in thief_block .. owner_block - 1}

(* No actor is returned twice, whatever the order of reservations,          *)
(* take-overs and grants of the same block: it would be run by two          *)
(* schedulers.  Excepted are races of the owner with a steal from its own   *)
(* block, and its reset of a block that one thief is still reading when     *)
(* another has reserved the last entry: steal_tail then has the value of    *)
(* the sentinel and the owner does not wait (scheduler.c, line 169).        *)
TakenOnce == Undisturbed => \A i \in Items : taken[i] <= 1

(* When no call is under way every actor pushed has been returned or can    *)
(* still be found: no block with entries lies outside the epochs that the   *)
(* owner and the thieves look at, and nothing returned is still there.      *)
NothingLost ==
  overlap = "no" /\ opc = "idle" /\ (\A t \in Thieves : tpc[t] = "idle")
    => Available = {i \in 1 .. pushed : taken[i] = 0}

(* With no other call under way the owner never spins: all steals have been *)
(* reported, those from its own block "so the reclaim spin-wait doesn't     *)
(* deadlock" (scheduler.c, lines 334-335).                                  *)
NoSpinAlone == overlap = "no" /\ opc = "settle" => steal_head[Below] >= oval
=============================================================================
