-------------------------- MODULE LinearCellsProofs --------------------------
(***************************************************************************)
(* The deque, the vector and the byte buffer hold the sequence they stand  *)
(* for, for any elements, capacities and lengths.                          *)
(*                                                                         *)
(* The indices of a deque are read modulo its capacity although they are   *)
(* counted modulo IndexMod.  This is right because a capacity divides      *)
(* IndexMod; and a deque that grows is shorter than IndexMod, so that its  *)
(* doubled capacity divides the power of two as well.                      *)
(***************************************************************************)
EXTENDS LinearCells, WellFoundedInduction, FunctionTheorems, SequenceTheorems, TLAPS

-----------------------------------------------------------------------------
(* The invariant *)

Elements == CellItems \cup {NoItem}

(* The elements of a deque lie at their slots, nothing lies elsewhere.      *)
DequeHolds(d, s) ==
  /\ d \in [kind : {"deque"}, cap : Nat \ {0}, head : 0..IndexMod-1, tail : 0..IndexMod-1,
            buffer : [0..d.cap-1 -> Elements]]
  /\ IndexMod % d.cap = 0 /\ Len(s) <= d.cap
  /\ d.tail = (d.head + Len(s)) % IndexMod
  /\ \A i \in 0..Len(s)-1 : d.buffer[(d.head + i) % d.cap] = s[i + 1]
  /\ \A j \in 0..d.cap-1 : d.buffer[j] # NoItem => \E i \in 0..Len(s)-1 : j = (d.head + i) % d.cap

(* Elements one after the other from slot 0 on.                             *)
Stores(e, s) == \A i \in 0..Len(s)-1 : e[i] = s[i + 1]

(* A vector keeps its elements inline, or in a numbered heap buffer.        *)
VectorHolds(v, s) ==
  /\ v \in [kind : {"vector"}, cap : Nat, size : Nat, buf : Nat, elems : [0..v.cap-1 -> Elements]]
  /\ v.size = Len(s) /\ Len(s) <= v.cap
  /\ \/ v.cap = InlineCap /\ v.buf = 0
     \/ v.cap >= HeapCap /\ v.buf > 0
  /\ Stores(v.elems, s)

BufferHolds(b, s) ==
  /\ b \in [kind : {"buffer"}, cap : Nat \ {0}, size : Nat, bytes : [0..b.cap-1 -> CellItems \cup {0}]]
  /\ b.size = Len(s) /\ Len(s) <= b.cap
  /\ Stores(b.bytes, s)

LinearInv ==
  /\ spec \in Seq(CellItems) /\ Len(spec) <= MaxLen
  /\ \/ obj.kind = "deque" /\ DequeHolds(obj, spec)
     \/ obj.kind = "vector" /\ VectorHolds(obj, spec)
     \/ obj.kind = "buffer" /\ BufferHolds(obj, spec)

-----------------------------------------------------------------------------
(* Least elements and remainders *)

LEMMA Least ==
  ASSUME NEW S, S \subseteq Nat, S # {}
  PROVE  \E x \in S : \A y \in S : x =< y
<1> DEFINE R == {ss \in Nat \X Nat : ss[1] < ss[2]}
<1>1. IsWellFoundedOn(R, Nat)
  BY NatLessThanWellFounded DEF OpToRel
<1>2. PICK x \in S : \A y \in S : ~(<<y, x>> \in R)
  <2> HIDE DEF R
  <2> QED BY <1>1, WFMin
<1>3. ASSUME NEW y \in S PROVE x =< y
  <2>1. <<y, x>> \notin R
    BY <1>2
  <2>2. ~(y < x)
    BY <2>1
  <2> QED BY <2>2
<1> QED BY <1>3

LEMMA MinIsLeast ==
  ASSUME NEW S, S \subseteq Nat, S # {}
  PROVE  Min(S) \in S /\ \A y \in S : Min(S) =< y
<1> DEFINE P(x) == x \in S /\ \A y \in S : x =< y
<1>1. \E x : P(x)
  BY Least
<1>2. P(CHOOSE x : P(x))
  BY <1>1
<1> QED BY <1>2, Least DEF Min

LEMMA MinOfTwo ==
  ASSUME NEW a \in Nat, NEW b \in Nat
  PROVE  Min({a, b}) = IF a <= b THEN a ELSE b
<1>1. Min({a, b}) \in {a, b} /\ Min({a, b}) <= a /\ Min({a, b}) <= b
  BY MinIsLeast
<1> QED BY <1>1

LEMMA MaxOfTwo ==
  ASSUME NEW a \in Nat, NEW b \in Nat
  PROVE  Max({a, b}) = IF a <= b THEN b ELSE a
<1> DEFINE m == IF a <= b THEN b ELSE a
<1>1. m \in {a, b} /\ \A y \in {a, b} : m >= y
  OBVIOUS
<1>2. \A x \in {a, b} : (\A y \in {a, b} : x >= y) => x = m
  OBVIOUS
<1> HIDE DEF m
<1>3. Max({a, b}) = m
  BY <1>1, <1>2 DEF Max
<1> QED BY <1>3 DEF m

(* Division with remainder, and that it is the only one.                    *)
LEMMA Divided ==
  ASSUME NEW c \in Nat \ {0}, NEW i \in Int
  PROVE  /\ (i \div c) \in Int /\ (i % c) \in 0..c-1 /\ (i % c) \in Int
         /\ i = (c * (i \div c)) + (i % c)
  OBVIOUS

LEMMA OneRemainder ==
  ASSUME NEW c \in Nat \ {0}, NEW q \in Int, NEW r \in 0..c-1
  PROVE  ((c * q) + r) % c = r
  OBVIOUS

LEMMA WholeTurns ==
  ASSUME NEW c \in Nat \ {0}, NEW i \in Int, NEW q \in Int
  PROVE  (i + (c * q)) % c = i % c
<1> DEFINE p == i \div c
           r == i % c
<1>1. p \in Int /\ r \in 0..c-1 /\ i = (c * p) + r
  BY Divided
<1> HIDE DEF p, r
<1>2. i + (c * q) = (c * (p + q)) + r
  BY <1>1
<1>3. ((c * (p + q)) + r) % c = r
  BY <1>1, OneRemainder
<1> QED BY <1>2, <1>3 DEF r

(* An index taken modulo a multiple of the capacity names the same slot.    *)
LEMMA Through ==
  ASSUME NEW c \in Nat \ {0}, NEW m \in Nat \ {0}, m % c = 0, NEW i \in Int, NEW k \in Int
  PROVE  ((i % m) + k) % c = (i + k) % c
<1> DEFINE a == m \div c
           p == i \div m
           r == i % m
<1>1. a \in Int /\ m = c * a
  BY Divided
<1>2. p \in Int /\ r \in Int /\ i = (m * p) + r
  BY Divided
<1> HIDE DEF a, p, r
<1>3. m * p = c * (a * p)
  BY <1>1, <1>2
<1>4. a * p \in Int
  BY <1>1, <1>2
<1> DEFINE v == r + k
           u == a * p
<1>5. v \in Int /\ u \in Int /\ i + k = v + (c * u)
  BY <1>2, <1>3, <1>4
<1> HIDE DEF u, v
<1>6. (v + (c * u)) % c = v % c
  BY <1>5, WholeTurns
<1> QED BY <1>5, <1>6 DEF r, v

(* Indices less than a turn apart have different slots.                     *)
LEMMA SlotsDiffer ==
  ASSUME NEW c \in Nat \ {0}, NEW h \in Int, NEW i \in Int, NEW j \in Int,
         i < j, j - i < c
  PROVE  (h + i) % c # (h + j) % c
<1> SUFFICES ASSUME (h + i) % c = (h + j) % c PROVE FALSE
  OBVIOUS
<1> DEFINE p == (h + i) \div c
           q == (h + j) \div c
           r == (h + i) % c
<1>1. p \in Int /\ r \in Int /\ h + i = (c * p) + r
  BY Divided
<1>2. q \in Int /\ h + j = (c * q) + r
  <2>1. h + j \in Int
    OBVIOUS
  <2>2. q \in Int /\ h + j = (c * q) + ((h + j) % c)
    BY <2>1, Divided
  <2> QED BY <2>2
<1> HIDE DEF p, q, r
<1>3. (c * q) - (c * p) = j - i
  BY <1>1, <1>2
<1>4. c * (q - p) = j - i
  BY <1>1, <1>2, <1>3
<1>5. q - p \in Int /\ (q - p > 0 => c * (q - p) >= c) /\ (q - p <= 0 => c * (q - p) <= 0)
  BY <1>1, <1>2
<1> QED BY <1>4, <1>5

LEMMA SmallRemainder ==
  ASSUME NEW c \in Nat \ {0}, NEW i \in 0..c-1
  PROVE  i % c = i
<1>1. ((c * 0) + i) % c = i
  BY OneRemainder
<1> QED BY <1>1

LEMMA Grows ==
  ASSUME NEW c \in Nat \ {0}, NEW m \in Nat
  PROVE  c * m >= m
<1>1. (c - 1) * m >= 0
  OBVIOUS
<1>2. c * m = (c - 1) * m + m
  OBVIOUS
<1> QED BY <1>1, <1>2

(* A capacity below IndexMod that divides it can be doubled.                *)
LEMMA DoubledDivides ==
  ASSUME LinearConstants, NEW c \in Nat \ {0}, IndexMod % c = 0, c < IndexMod
  PROVE  IndexMod % (2 * c) = 0
<1> DEFINE m == IndexMod \div c
<1>1. m \in Int /\ IndexMod = (c * m) + 0 /\ IndexMod \in Nat \ {0}
  BY Divided DEF LinearConstants
<1> HIDE DEF m
<1>2. m \in 2..IndexMod
  <2>1. m <= 0 => c * m <= 0
    BY <1>1
  <2>2. m > 1
    BY <1>1, <2>1
  <2>3. c * m >= m
    BY <1>1, <2>2, Grows
  <2> QED BY <1>1, <2>2, <2>3
<1>3. IndexMod % m = 0
  <2>1. IndexMod = (m * c) + 0
    BY <1>1
  <2> QED BY <2>1, <1>2, OneRemainder
<1>4. m % 2 = 0
  BY <1>2, <1>3 DEF LinearConstants, PowerOfTwo
<1>5. PICK k \in Int : m = 2 * k
  BY <1>2, <1>4, Divided
<1>6. IndexMod = ((2 * c) * k) + 0
  BY <1>1, <1>5
<1>7. (((2 * c) * k) + 0) % (2 * c) = 0
  <2>1. 2 * c \in Nat \ {0} /\ 0 \in 0..(2 * c) - 1
    OBVIOUS
  <2> QED BY <1>5, <2>1, OneRemainder
<1> QED BY <1>6, <1>7

-----------------------------------------------------------------------------
(* The deque *)

LEMMA Placed ==
  ASSUME LinearConstants, NEW s \in Seq(CellItems), NEW d, DequeHolds(d, s), NEW i \in Int
  PROVE  Slot(d, i) = i % d.cap /\ i % d.cap \in 0..d.cap-1
<1>1. d.cap \in Nat \ {0} /\ IndexMod % d.cap = 0 /\ IndexMod \in Nat \ {0}
  BY DEF LinearConstants, DequeHolds
<1>2. ((i % IndexMod) + 0) % d.cap = (i + 0) % d.cap
  <2>1. 0 \in Int
    OBVIOUS
  <2> QED BY <1>1, <2>1, Through, ZenonT(30)
<1>3. i % d.cap \in 0..d.cap-1 /\ i % IndexMod \in Int
  BY <1>1, Divided, Zenon
<1>4. (i % IndexMod) + 0 = i % IndexMod /\ i + 0 = i
  BY <1>3
<1> QED BY <1>2, <1>3, <1>4 DEF Slot

LEMMA Sized ==
  ASSUME LinearConstants, NEW s \in Seq(CellItems), NEW d, DequeHolds(d, s), Len(s) < IndexMod
  PROVE  cell_deque_size(d) = Len(s)
<1>1. IndexMod \in Nat \ {0} /\ d.head \in Int /\ Len(s) \in Nat
  BY DEF LinearConstants, DequeHolds
<1>2. IndexMod % IndexMod = 0
  <2>1. ((IndexMod * 1) + 0) % IndexMod = 0
    BY <1>1, OneRemainder
  <2> QED BY <1>1, <2>1
<1>3. (((d.head + Len(s)) % IndexMod) + (-d.head)) % IndexMod = ((d.head + Len(s)) + (-d.head)) % IndexMod
  <2>1. d.head + Len(s) \in Int /\ -d.head \in Int
    BY <1>1
  <2> QED BY <1>1, <1>2, <2>1, Through
<1>4. (d.head + Len(s)) + (-d.head) = Len(s)
  BY <1>1
<1>5. d.tail - d.head = ((d.head + Len(s)) % IndexMod) + (-d.head)
  <2>1. d.head + Len(s) \in Int
    BY <1>1
  <2>2. (d.head + Len(s)) % IndexMod \in Int
    BY <1>1, <2>1, Divided
  <2> QED BY <1>1, <2>2 DEF DequeHolds
<1>6. Len(s) % IndexMod = Len(s)
  BY <1>1, SmallRemainder
<1> QED BY <1>3, <1>4, <1>5, <1>6 DEF cell_deque_size

(* deque_grow unwraps a full ring into the front of a buffer twice as long. *)
LEMMA GrowHolds ==
  ASSUME LinearConstants, NEW s \in Seq(CellItems), NEW d, DequeHolds(d, s),
         Len(s) = d.cap, Len(s) < IndexMod
  PROVE  DequeHolds(deque_grow(d), s) /\ Len(s) < deque_grow(d).cap
<1> DEFINE c == d.cap
           h == d.head % d.cap
           g == deque_grow(d)
           at(i) == IF i < c - h THEN d.buffer[h + i] ELSE d.buffer[i - (c - h)]
<1>1. c \in Nat \ {0} /\ IndexMod % c = 0 /\ d.head \in Int /\ IndexMod \in Nat \ {0} /\ Len(s) = c
  BY DEF LinearConstants, DequeHolds
<1>2. h \in 0..c-1 /\ Slot(d, d.head) = h
  BY <1>1, Placed
<1>3. Slot(d, d.tail) = h
  <2>1. d.head + c \in Int /\ (d.head + c) % IndexMod \in Int
    <3>1. d.head + c \in Int
      BY <1>1
    <3> QED BY <1>1, <3>1, Divided
  <2>2. d.tail = (d.head + c) % IndexMod
    BY <1>1 DEF DequeHolds
  <2>5. Slot(d, d.tail) = d.tail % c
    <3>1. d.tail \in Int
      BY <2>1, <2>2
    <3> QED BY <3>1, Placed
  <2>3. (((d.head + c) % IndexMod) + 0) % c = ((d.head + c) + 0) % c
    <3> DEFINE x == d.head + c
    <3>1. 0 \in Int /\ x \in Int /\ c \in Nat \ {0} /\ IndexMod \in Nat \ {0} /\ IndexMod % c = 0
      BY <1>1, <2>1
    <3> HIDE DEF c, x
    <3>2. ((x % IndexMod) + 0) % c = (x + 0) % c
      BY <3>1, Through, ZenonT(30)
    <3> QED BY <3>2 DEF x
  <2>4. (d.head + (c * 1)) % c = h
    <3> HIDE DEF c
    <3>1. 1 \in Int
      OBVIOUS
    <3>2. (d.head + (c * 1)) % c = d.head % c
      BY <1>1, <3>1, WholeTurns, Zenon
    <3> QED BY <3>2 DEF c
  <2>6. ((d.head + c) % IndexMod) + 0 = (d.head + c) % IndexMod /\ (d.head + c) + 0 = d.head + (c * 1)
    BY <1>1, <2>1
  <2> QED BY <2>2, <2>3, <2>4, <2>5, <2>6
<1>4. cell_deque_size(d) = c
  BY <1>1, Sized
<1> DEFINE new == [i \in 0..2 * c - 1 |-> IF i < c THEN at(i) ELSE NoItem]
<1>5. g = [d EXCEPT !.cap = 2 * d.cap, !.head = 0, !.tail = c, !.buffer = new]
  <2>1. ~(h < h)
    BY <1>2
  <2> QED BY <1>2, <1>3, <1>4, <2>1 DEF deque_grow
<1>6. ASSUME NEW i \in 0..c-1 PROVE at(i) = s[i + 1]
  <2> DEFINE q == d.head \div c
  <2>1. d.head = (c * q) + h /\ q \in Int
    BY <1>1, Divided
  <2>2. d.buffer[(d.head + i) % c] = s[i + 1]
    BY <1>1 DEF DequeHolds
  <2> HIDE DEF c, h, q
  <2>3. CASE i < c - h
    <3>1. h + i \in 0..c-1 /\ d.head + i = (c * q) + (h + i)
      BY <1>1, <1>2, <2>1, <2>3
    <3>2. ((c * q) + (h + i)) % c = h + i
      BY <1>1, <2>1, <3>1, OneRemainder, Zenon
    <3> QED BY <2>2, <2>3, <3>1, <3>2
  <2>4. CASE ~(i < c - h)
    <3>1. i - (c - h) \in 0..c-1 /\ d.head + i = (c * (q + 1)) + (i - (c - h)) /\ q + 1 \in Int
      BY <1>1, <1>2, <2>1, <2>4
    <3>2. ((c * (q + 1)) + (i - (c - h))) % c = i - (c - h)
      BY <1>1, <2>1, <3>1, OneRemainder, Zenon
    <3> QED BY <2>2, <2>4, <3>1, <3>2
  <2> QED BY <2>3, <2>4
<1>7. \A i \in 0..c-1 : s[i + 1] \in CellItems
  BY <1>1, ElementOfSeq
<1>8. \A i \in 0..c-1 : (0 + i) % (2 * c) = i
  <2> TAKE i \in 0..c-1
  <2>1. 2 * c \in Nat \ {0} /\ i \in 0..(2 * c) - 1
    BY <1>1
  <2> QED BY <2>1, SmallRemainder
<1>9. IndexMod % (2 * c) = 0
  BY <1>1, DoubledDivides
<1>10. (0 + Len(s)) % IndexMod = c
  BY <1>1, SmallRemainder
<1>11. new \in [0..2 * c - 1 -> Elements]
  <2> HIDE DEF c, h, at
  <2> QED BY <1>1, <1>6, <1>7 DEF Elements
<1>12. /\ g.cap = 2 * c /\ g.head = 0 /\ g.tail = c /\ g.buffer = new
       /\ g \in [kind : {"deque"}, cap : Nat \ {0}, head : 0..IndexMod-1, tail : 0..IndexMod-1,
                 buffer : [0..g.cap-1 -> Elements]]
  <2>1. 2 * c \in Nat \ {0} /\ 0 \in 0..IndexMod-1 /\ c \in 0..IndexMod-1
    BY <1>1
  <2> HIDE DEF new, g
  <2> QED BY <1>5, <1>11, <2>1 DEF DequeHolds
<1> HIDE DEF c, h, at
<1> HIDE DEF g
<1>13. \A i \in 0..Len(s)-1 : g.buffer[(g.head + i) % g.cap] = s[i + 1]
  <2> TAKE i \in 0..Len(s)-1
  <2>1. i \in 0..c-1 /\ i \in 0..2 * c - 1 /\ i < c
    BY <1>1
  <2>2. (g.head + i) % g.cap = i
    BY <1>8, <1>12, <2>1
  <2>3. g.buffer[i] = at(i)
    BY <1>12, <2>1
  <2> QED BY <1>6, <2>1, <2>2, <2>3
<1>14. \A j \in 0..g.cap-1 : g.buffer[j] # NoItem => \E i \in 0..Len(s)-1 : j = (g.head + i) % g.cap
  BY <1>1, <1>8, <1>12
<1>15. DequeHolds(g, s)
  <2>1. g.cap \in Nat \ {0} /\ IndexMod % g.cap = 0 /\ g.head \in 0..IndexMod-1 /\ Len(s) <= g.cap
    BY <1>1, <1>9, <1>12
  <2>2. g.tail = (g.head + Len(s)) % IndexMod
    BY <1>10, <1>12
  <2> QED BY <1>12, <1>13, <1>14, <2>1, <2>2 DEF DequeHolds
<1>16. Len(s) < g.cap
  BY <1>1, <1>12
<1> QED BY <1>15, <1>16 DEF g

LEMMA RoomyHolds ==
  ASSUME LinearConstants, NEW s \in Seq(CellItems), NEW d, DequeHolds(d, s), Len(s) < IndexMod
  PROVE  DequeHolds(Roomy(d), s) /\ Len(s) < Roomy(d).cap
<1>1. cell_deque_size(d) = Len(s) /\ Len(s) \in Nat
  BY Sized
<1>4. d.cap \in Nat /\ Len(s) <= d.cap
  BY DEF DequeHolds
<1>2. CASE Len(s) = d.cap
  BY <1>1, <1>2, GrowHolds DEF Roomy
<1>3. CASE Len(s) # d.cap
  BY <1>1, <1>3, <1>4 DEF Roomy
<1> QED BY <1>2, <1>3

(* What the slots of a deque are and how they turn with its head.           *)
LEMMA Turning ==
  ASSUME LinearConstants, NEW c \in Nat \ {0}, IndexMod % c = 0, NEW h \in Int, NEW k \in Int, NEW i \in Int
  PROVE  (((h + k) % IndexMod) + i) % c = (h + (k + i)) % c
<1> DEFINE x == h + k
<1>1. x \in Int /\ x + i = h + (k + i) /\ IndexMod \in Nat \ {0}
  BY DEF LinearConstants
<1> HIDE DEF x
<1>2. ((x % IndexMod) + i) % c = (x + i) % c
  BY <1>1, Through, ZenonT(30)
<1> QED BY <1>1, <1>2 DEF x

LEMMA WholeRange == LinearConstants => IndexMod \in Nat \ {0} /\ IndexMod % IndexMod = 0
<1> SUFFICES ASSUME LinearConstants PROVE IndexMod \in Nat \ {0} /\ IndexMod % IndexMod = 0
  OBVIOUS
<1>1. IndexMod \in Nat \ {0} /\ 1 \in Int /\ 0 \in 0..IndexMod-1
  BY DEF LinearConstants
<1>2. ((IndexMod * 1) + 0) % IndexMod = 0
  BY <1>1, OneRemainder, Zenon
<1> QED BY <1>1, <1>2

LEMMA Turned ==
  ASSUME LinearConstants, NEW h \in Int, NEW k \in Int, NEW i \in Int
  PROVE  /\ (((h + k) % IndexMod) + i) % IndexMod = (h + (k + i)) % IndexMod
         /\ ((h + k) % IndexMod) \in 0..IndexMod-1 /\ ((h + k) % IndexMod) \in Int
<1> DEFINE x == h + k
           m == IndexMod
<1>1. m \in Nat \ {0} /\ x \in Int /\ m % m = 0
  BY WholeRange
<1>2. (x % m) \in 0..m-1 /\ (x % m) \in Int
  <2> HIDE DEF m, x
  <2> QED BY <1>1, Divided, Zenon
<1>3. ((x % m) + i) % m = (x + i) % m
  <2> HIDE DEF m, x
  <2>1. ASSUME NEW c \in Nat \ {0}, c = m PROVE ((x % m) + i) % c = (x + i) % c
    <3>1. m % c = 0
      BY <1>1, <2>1
    <3> QED BY <1>1, <3>1, Through, Zenon
  <2> QED BY <1>1, <2>1
<1>4. x + i = h + (k + i)
  OBVIOUS
<1> QED BY <1>2, <1>3, <1>4

LEMMA Advanced ==
  ASSUME LinearConstants, NEW h \in 0..IndexMod-1, NEW k \in Int, NEW i \in Int
  PROVE  /\ (((h + k) % IndexMod) + i) % IndexMod = (h + (k + i)) % IndexMod
         /\ (((h + k) % IndexMod) + i) % IndexMod \in Int
         /\ (((h + k) % IndexMod) - i) % IndexMod = (h + (k - i)) % IndexMod
         /\ (((h + k) % IndexMod) - i) % IndexMod \in Int
<1>1. h \in Int /\ k + i \in Int /\ -i \in Int /\ k + (-i) \in Int
  BY WholeRange
<1>2. (((h + k) % IndexMod) + i) % IndexMod = (h + (k + i)) % IndexMod
  BY <1>1, Turned, ZenonT(30)
<1>3. (h + (k + i)) % IndexMod \in Int
  BY <1>1, Turned, ZenonT(30)
<1>4. (((h + k) % IndexMod) + (-i)) % IndexMod = (h + (k + (-i))) % IndexMod
  BY <1>1, Turned, ZenonT(30)
<1>5. (h + (k + (-i))) % IndexMod \in Int /\ (h + k) % IndexMod \in Int
  BY <1>1, Turned, Zenon
<1>6. ((h + k) % IndexMod) + (-i) = ((h + k) % IndexMod) - i /\ k + (-i) = k - i
  BY <1>5
<1> QED BY <1>2, <1>3, <1>4, <1>5, <1>6

LEMMA Slots ==
  ASSUME NEW c \in Nat \ {0}, NEW h \in Int
  PROVE  /\ \A k \in Int : (h + k) % c \in 0..c-1
         /\ \A j, k \in Int : j # k /\ j - k < c /\ k - j < c => (h + j) % c # (h + k) % c
<1>1. ASSUME NEW k \in Int PROVE (h + k) % c \in 0..c-1
  <2>1. h + k \in Int
    OBVIOUS
  <2> QED BY <2>1, Divided, Zenon
<1>2. ASSUME NEW j \in Int, NEW k \in Int, j # k, j - k < c, k - j < c
      PROVE  (h + j) % c # (h + k) % c
  <2>1. CASE j < k
    BY <1>2, <2>1, SlotsDiffer
  <2>2. CASE k < j
    BY <1>2, <2>2, SlotsDiffer
  <2> QED BY <1>2, <2>1, <2>2
<1> QED BY <1>1, <1>2

(* The ring c slots long: what index k names is P[k], and different indices *)
(* name different slots unless they are a turn apart.                       *)
Around(P, c) ==
  /\ c \in Nat \ {0} /\ P \in [Int -> 0..c-1]
  /\ \A j, k \in Int : j # k /\ j - k < c /\ k - j < c => P[j] # P[k]

(* The buffer b holds s from index k on, and nothing else.                  *)
LaidOut(b, P, c, k, s) ==
  /\ b \in [0..c-1 -> Elements]
  /\ \A i \in 0..Len(s)-1 : b[P[k + i]] = s[i + 1]
  /\ \A j \in 0..c-1 : b[j] # NoItem => \E i \in 0..Len(s)-1 : j = P[k + i]

LEMMA HoldsRing ==
  ASSUME LinearConstants, NEW s \in Seq(CellItems), NEW d, DequeHolds(d, s)
  PROVE  LET P == [k \in Int |-> (d.head + k) % d.cap]
         IN  /\ Around(P, d.cap) /\ LaidOut(d.buffer, P, d.cap, 0, s)
             /\ \A k \in Int : Slot(d, (d.head + k) % IndexMod) = P[k] /\ Slot(d, d.head + k) = P[k]
<1> DEFINE P == [k \in Int |-> (d.head + k) % d.cap]
           c == d.cap
           h == d.head
<1>1. c \in Nat \ {0} /\ IndexMod % c = 0 /\ h \in Int /\ Len(s) \in Nat
  BY DEF DequeHolds, LinearConstants
<1>2. Around(P, c)
  <2>1. ASSUME NEW k \in Int PROVE (h + k) % c \in 0..c-1
    <3> HIDE DEF h, c
    <3> QED BY <1>1, Slots, Zenon
  <2>2. ASSUME NEW j \in Int, NEW k \in Int, j # k, j - k < c, k - j < c PROVE (h + j) % c # (h + k) % c
    <3> HIDE DEF h, c
    <3> QED BY <1>1, <2>2, Slots, Zenon
  <2> QED BY <1>1, <2>1, <2>2 DEF Around
<1>3. LaidOut(d.buffer, P, c, 0, s)
  <2>1. \A i \in 0..Len(s)-1 : P[0 + i] = (h + i) % c
    OBVIOUS
  <2>2. /\ d.buffer \in [0..c-1 -> Elements]
        /\ \A i \in 0..Len(s)-1 : d.buffer[(h + i) % c] = s[i + 1]
        /\ \A j \in 0..c-1 : d.buffer[j] # NoItem => \E i \in 0..Len(s)-1 : j = (h + i) % c
    BY DEF DequeHolds
  <2> HIDE DEF P, h, c
  <2> QED BY <2>1, <2>2 DEF LaidOut
<1>4. ASSUME NEW k \in Int PROVE Slot(d, (h + k) % IndexMod) = P[k] /\ Slot(d, h + k) = P[k]
  <2>1. (h + k) % IndexMod \in Int /\ h + k \in Int
    <3> HIDE DEF h
    <3>1. (h + k) % IndexMod \in Int
      BY <1>1, Turned, Zenon
    <3> QED BY <1>1, <3>1
  <2>2. Slot(d, (h + k) % IndexMod) = ((h + k) % IndexMod) % c /\ Slot(d, h + k) = (h + k) % c
    BY <2>1, Placed
  <2>3. (((h + k) % IndexMod) + 0) % c = (h + (k + 0)) % c
    <3> HIDE DEF h, c
    <3> QED BY <1>1, Turning
  <2>4. ((h + k) % IndexMod) + 0 = (h + k) % IndexMod /\ k + 0 = k
    BY <2>1
  <2> QED BY <2>2, <2>3, <2>4
<1> QED BY <1>2, <1>3, <1>4

LEMMA RingTurns ==
  ASSUME LinearConstants, NEW s, NEW d, DequeHolds(d, s), NEW k \in Int, NEW i \in Int
  PROVE  (((d.head + k) % IndexMod) + i) % d.cap = (d.head + (k + i)) % d.cap
<1> DEFINE c == d.cap
           h == d.head
<1>1. c \in Nat \ {0} /\ h \in Int /\ IndexMod % c = 0
  BY DEF DequeHolds, LinearConstants
<1>2. (((h + k) % IndexMod) + i) % c = (h + (k + i)) % c
  <2> HIDE DEF c, h
  <2> QED BY <1>1, Turning, Zenon
<1> QED BY <1>2

LEMMA RingEnds ==
  ASSUME LinearConstants, NEW h \in Int, NEW k \in Int, NEW n \in Int
  PROVE  /\ (h + k) % IndexMod \in 0..IndexMod-1 /\ (h + (k + n)) % IndexMod \in 0..IndexMod-1
         /\ (((h + k) % IndexMod) + n) % IndexMod = (h + (k + n)) % IndexMod
<1>1. k + n \in Int
  OBVIOUS
<1>2. (h + k) % IndexMod \in 0..IndexMod-1
  BY Turned, Zenon
<1>3. (h + (k + n)) % IndexMod \in 0..IndexMod-1
  BY <1>1, Turned, Zenon
<1>4. (((h + k) % IndexMod) + n) % IndexMod = (h + (k + n)) % IndexMod
  BY Turned, Zenon
<1> QED BY <1>2, <1>3, <1>4

(* Where an index turns by k, so do the slots.                              *)
LEMMA RingHolds ==
  ASSUME LinearConstants, NEW s \in Seq(CellItems), NEW d, DequeHolds(d, s), NEW P,
         P = [k \in Int |-> (d.head + k) % d.cap],
         NEW t \in Seq(CellItems), Len(t) <= d.cap, NEW k \in Int, NEW b,
         LaidOut(b, P, d.cap, k, t),
         NEW g \in [kind : {"deque"}, cap : Nat, head : Int, tail : Int, buffer : [0..d.cap-1 -> Elements]]
  PROVE  /\ g.cap = d.cap /\ g.head = (d.head + k) % IndexMod
         /\ g.tail = (d.head + (k + Len(t))) % IndexMod /\ g.buffer = b
         => DequeHolds(g, t)
<1> DEFINE c == d.cap
           h == d.head
           M == IndexMod
           n == Len(t)
<1>1. n \in Int /\ n \in Nat /\ h \in Int
  BY LenProperties DEF DequeHolds, LinearConstants
<1>2. /\ (h + k) % M \in 0..M-1 /\ (h + (k + n)) % M \in 0..M-1
      /\ (((h + k) % M) + n) % M = (h + (k + n)) % M
  <2> HIDE DEF h, n
  <2> QED BY <1>1, RingEnds, ZenonT(30)
<1>8. c \in Nat \ {0} /\ M % c = 0
  BY DEF DequeHolds
<1>9. \A i \in Int : (((h + k) % M) + i) % c = (h + (k + i)) % c
  BY RingTurns, Zenon
<1> HAVE /\ g.cap = c /\ g.head = (h + k) % M /\ g.tail = (h + (k + n)) % M /\ g.buffer = b
<1>3. g \in [kind : {"deque"}, cap : Nat \ {0}, head : 0..M-1, tail : 0..M-1, buffer : [0..c-1 -> Elements]]
  BY <1>1, <1>2, <1>8
<1>4. ASSUME NEW i \in 0..n-1 PROVE (g.head + i) % c = P[k + i]
  <2>1. i \in Int /\ k + i \in Int
    BY <1>1
  <2>2. (((h + k) % M) + i) % c = (h + (k + i)) % c
    BY <1>9, <2>1, Zenon
  <2> QED BY <2>1, <2>2
<1>5. \A i \in 0..n-1 : g.buffer[(g.head + i) % g.cap] = t[i + 1]
  BY <1>4 DEF LaidOut
<1>6. \A j \in 0..c-1 : g.buffer[j] # NoItem => \E i \in 0..n-1 : j = (g.head + i) % c
  <2> TAKE j \in 0..c-1
  <2> HAVE g.buffer[j] # NoItem
  <2>1. PICK i \in 0..n-1 : j = P[k + i]
    BY DEF LaidOut
  <2> QED BY <1>4, <2>1
<1>7. g.tail = (g.head + n) % M
  BY <1>2
<1> QED BY <1>1, <1>3, <1>5, <1>6, <1>7, <1>8 DEF DequeHolds

(* Elements are put behind the last one or before the first one ...         *)
LEMMA PutBehind ==
  ASSUME NEW P, NEW c, Around(P, c), NEW b, NEW s \in Seq(CellItems), LaidOut(b, P, c, 0, s),
         Len(s) < c, NEW v \in CellItems
  PROVE  LaidOut([b EXCEPT ![P[Len(s)]] = v], P, c, 0, Append(s, v))
<1> DEFINE n == Len(s)
           a == [b EXCEPT ![P[n]] = v]
           t == Append(s, v)
<1>0. n \in Nat
  BY LenProperties
<1>1. n \in Nat /\ c \in Nat /\ b \in [0..c-1 -> Elements] /\ v \in Elements
  BY <1>0 DEF Around, LaidOut, Elements
<1>2. Len(t) = n + 1 /\ t[n + 1] = v /\ \A i \in 0..n-1 : t[i + 1] = s[i + 1]
  BY <1>1, AppendProperties
<1>3. \A i \in 0..n : P[i] \in 0..c-1
  BY <1>1 DEF Around
<1>4. \A i \in 0..n-1 : b[P[i]] = s[i + 1]
  BY <1>1 DEF LaidOut
<1>5. \A i \in 0..n-1 : P[i] # P[n]
  BY <1>1 DEF Around
<1>6. \A i \in 0..n : a[P[0 + i]] = t[i + 1]
  <2> TAKE i \in 0..n
  <2>1. CASE i = n
    BY <1>1, <1>2, <1>3, <2>1
  <2>2. CASE i # n
    <3>1. i \in 0..n-1 /\ P[i] # P[n] /\ P[i] \in 0..c-1
      BY <1>1, <1>3, <1>5, <2>2
    <3> QED BY <1>1, <1>2, <1>4, <3>1
  <2> QED BY <2>1, <2>2
<1>7. ASSUME NEW j \in 0..c-1, a[j] # NoItem PROVE \E i \in 0..n : j = P[0 + i]
  <2>1. CASE j = P[n]
    BY <1>1, <2>1
  <2>2. CASE j # P[n]
    <3>1. b[j] # NoItem
      BY <1>1, <1>7, <2>2
    <3>2. PICK i \in 0..n-1 : j = P[0 + i]
      BY <3>1 DEF LaidOut
    <3> QED BY <1>1, <3>2
  <2> QED BY <2>1, <2>2
<1>8. a \in [0..c-1 -> Elements] /\ 0..Len(t)-1 = 0..n
  <2>1. a \in [0..c-1 -> Elements]
    BY <1>1
  <2> HIDE DEF t, a, n
  <2> QED BY <1>1, <1>2, <2>1
<1> HIDE DEF a, t
<1> QED BY <1>6, <1>7, <1>8 DEF LaidOut, a, t

LEMMA PutBefore ==
  ASSUME NEW P, NEW c, Around(P, c), NEW b, NEW s \in Seq(CellItems), LaidOut(b, P, c, 0, s),
         Len(s) < c, NEW v \in CellItems
  PROVE  LaidOut([b EXCEPT ![P[-1]] = v], P, c, -1, <<v>> \o s)
<1> DEFINE n == Len(s)
           a == [b EXCEPT ![P[-1]] = v]
           t == <<v>> \o s
<1>0. n \in Nat
  BY LenProperties
<1>1. n \in Nat /\ c \in Nat /\ b \in [0..c-1 -> Elements] /\ v \in Elements
  BY <1>0 DEF Around, LaidOut, Elements
<1>2. Len(t) = n + 1 /\ t[1] = v /\ \A i \in 1..n : t[i + 1] = s[i]
  <2>1. <<v>> \in Seq(CellItems) /\ Len(<<v>>) = 1 /\ <<v>>[1] = v
    OBVIOUS
  <2>2. Len(t) = 1 + n /\ \A i \in 1..1+n : t[i] = IF i <= 1 THEN <<v>>[i] ELSE s[i - 1]
    BY <2>1, ConcatProperties
  <2> HIDE DEF t
  <2> QED BY <1>1, <2>1, <2>2
<1>3. \A i \in 0..n : P[i - 1] \in 0..c-1
  <2> TAKE i \in 0..n
  <2>1. i - 1 \in Int
    BY <1>1
  <2> QED BY <2>1 DEF Around
<1>4. \A i \in 0..n-1 : b[P[i]] = s[i + 1]
  BY <1>1 DEF LaidOut
<1>5. \A i \in 1..n : P[i - 1] # P[-1]
  <2> TAKE i \in 1..n
  <2>1. i - 1 \in Int /\ -1 \in Int /\ i - 1 # -1 /\ (i - 1) - (-1) < c /\ (-1) - (i - 1) < c
    BY <1>1
  <2> QED BY <2>1 DEF Around
<1>6. \A i \in 0..n : a[P[-1 + i]] = t[i + 1]
  <2> TAKE i \in 0..n
  <2>0. -1 + i = i - 1 /\ P[i - 1] \in 0..c-1
    BY <1>1, <1>3
  <2>1. CASE i = 0
    <3>1. P[-1] \in 0..c-1
      BY <2>0, <2>1
    <3> QED BY <1>1, <1>2, <2>0, <2>1, <3>1
  <2>2. CASE i # 0
    <3>1. i - 1 \in 0..n-1 /\ i \in 1..n /\ (i - 1) + 1 = i
      BY <1>1, <2>2
    <3>2. b[P[i - 1]] = s[i] /\ P[i - 1] # P[-1]
      BY <1>4, <1>5, <3>1
    <3>3. a[P[i - 1]] = b[P[i - 1]]
      BY <1>1, <2>0, <3>2
    <3> QED BY <1>2, <2>0, <3>1, <3>2, <3>3
  <2> QED BY <2>1, <2>2
<1>7. ASSUME NEW j \in 0..c-1, a[j] # NoItem PROVE \E i \in 0..n : j = P[-1 + i]
  <2>1. CASE j = P[-1]
    <3>1. -1 + 0 = -1 /\ 0 \in 0..n
      BY <1>1
    <3> QED BY <2>1, <3>1
  <2>2. CASE j # P[-1]
    <3>1. b[j] # NoItem
      BY <1>1, <1>7, <2>2
    <3>2. PICK i \in 0..n-1 : j = P[0 + i]
      BY <3>1 DEF LaidOut
    <3>3. i + 1 \in 0..n /\ -1 + (i + 1) = 0 + i
      BY <1>1
    <3> QED BY <3>2, <3>3
  <2> QED BY <2>1, <2>2
<1>8. a \in [0..c-1 -> Elements] /\ 0..Len(t)-1 = 0..n
  <2>1. a \in [0..c-1 -> Elements]
    BY <1>1
  <2> HIDE DEF t, a, n
  <2> QED BY <1>1, <1>2, <2>1
<1> HIDE DEF a, t
<1> QED BY <1>6, <1>7, <1>8 DEF LaidOut, a, t

(* ... and taken from there, their slots cleared.                           *)
LEMMA CutFirst ==
  ASSUME NEW P, NEW c, Around(P, c), NoItem \notin CellItems, NEW b, NEW s \in Seq(CellItems), LaidOut(b, P, c, 0, s),
         Len(s) <= c, s # << >>
  PROVE  LaidOut([b EXCEPT ![P[0]] = NoItem], P, c, 1, Tail(s))
<1> DEFINE n == Len(s)
           a == [b EXCEPT ![P[0]] = NoItem]
           t == Tail(s)
<1>1. n \in Nat \ {0} /\ c \in Nat /\ b \in [0..c-1 -> Elements] /\ NoItem \in Elements
  BY EmptySeq DEF Around, LaidOut, Elements
<1>2. Len(t) = n - 1 /\ \A i \in 1..n-1 : t[i] = s[i + 1]
  BY <1>1, HeadTailProperties
<1>3. \A i \in 0..n : P[i] \in 0..c-1
  BY <1>1 DEF Around
<1>4. \A i \in 0..n-1 : b[P[0 + i]] = s[i + 1]
  BY DEF LaidOut
<1>5. \A i \in 1..n-1 : P[i] # P[0]
  BY <1>1 DEF Around
<1>6. \A i \in 0..n-2 : a[P[1 + i]] = t[i + 1]
  <2> TAKE i \in 0..n-2
  <2>1. i + 1 \in 1..n-1 /\ i + 1 \in 0..n-1 /\ 1 + i = 0 + (i + 1) /\ i + 1 \in 0..n
    BY <1>1
  <2>2. P[i + 1] # P[0] /\ P[i + 1] \in 0..c-1 /\ b[P[0 + (i + 1)]] = s[(i + 1) + 1] /\ t[i + 1] = s[(i + 1) + 1]
    BY <1>2, <1>3, <1>4, <1>5, <2>1
  <2> QED BY <1>1, <2>1, <2>2
<1>7. ASSUME NEW j \in 0..c-1, a[j] # NoItem PROVE \E i \in 0..n-2 : j = P[1 + i]
  <2>1. j # P[0] /\ b[j] # NoItem
    BY <1>1, <1>7
  <2>2. PICK i \in 0..n-1 : j = P[0 + i]
    BY <2>1 DEF LaidOut
  <2>3. i # 0
    BY <2>1, <2>2
  <2>4. i - 1 \in 0..n-2 /\ 1 + (i - 1) = 0 + i
    BY <1>1, <2>3
  <2> QED BY <2>2, <2>4
<1>8. a \in [0..c-1 -> Elements] /\ 0..Len(t)-1 = 0..n-2
  <2>1. a \in [0..c-1 -> Elements]
    BY <1>1
  <2> HIDE DEF t, a, n
  <2> QED BY <1>1, <1>2, <2>1
<1> HIDE DEF a, t
<1> QED BY <1>6, <1>7, <1>8 DEF LaidOut, a, t

LEMMA FrontProperties ==
  ASSUME NEW s \in Seq(CellItems), s # << >>
  PROVE  Front(s) \in Seq(CellItems) /\ Len(Front(s)) = Len(s) - 1 /\ \A i \in 1..Len(s)-1 : Front(s)[i] = s[i]
<1>1. Len(s) \in Nat \ {0}
  BY LenProperties, EmptySeq
<1>2. \A i \in 1..Len(s)-1 : s[i] \in CellItems
  BY <1>1, ElementOfSeq
<1>3. /\ Front(s) \in Seq(CellItems)
      /\ Len(Front(s)) = IF 1 <= Len(s) - 1 THEN (Len(s) - 1) - 1 + 1 ELSE 0
      /\ \A i \in 1..(Len(s) - 1) - 1 + 1 : Front(s)[i] = s[1 + i - 1]
  BY <1>1, <1>2, SubSeqProperties DEF Front
<1>4. Len(Front(s)) = Len(s) - 1
  <2> DEFINE n == Len(s)
  <2>1. n \in Nat \ {0} /\ Len(Front(s)) = IF 1 <= n - 1 THEN (n - 1) - 1 + 1 ELSE 0
    BY <1>1, <1>3
  <2> HIDE DEF n
  <2>2. Len(Front(s)) = n - 1
    BY <2>1
  <2> QED BY <2>2 DEF n
<1>5. ASSUME NEW i \in 1..Len(s)-1 PROVE Front(s)[i] = s[i]
  <2>1. i \in 1..(Len(s) - 1) - 1 + 1 /\ 1 + i - 1 = i
    BY <1>1
  <2> QED BY <1>3, <2>1
<1> QED BY <1>3, <1>4, <1>5

LEMMA CutLast ==
  ASSUME NEW P, NEW c, Around(P, c), NoItem \notin CellItems, NEW b, NEW s \in Seq(CellItems), LaidOut(b, P, c, 0, s),
         Len(s) <= c, s # << >>
  PROVE  LaidOut([b EXCEPT ![P[Len(s) - 1]] = NoItem], P, c, 0, Front(s))
<1> DEFINE n == Len(s)
           a == [b EXCEPT ![P[n - 1]] = NoItem]
           t == Front(s)
<1>1. n \in Nat \ {0} /\ c \in Nat /\ b \in [0..c-1 -> Elements] /\ NoItem \in Elements
  BY EmptySeq DEF Around, LaidOut, Elements
<1>2. Len(t) = n - 1 /\ \A i \in 1..n-1 : t[i] = s[i]
  BY FrontProperties
<1>3. \A i \in 0..n : P[i] \in 0..c-1
  BY <1>1 DEF Around
<1>4. \A i \in 0..n-1 : b[P[0 + i]] = s[i + 1]
  BY DEF LaidOut
<1>5. \A i \in 0..n-2 : P[i] # P[n - 1]
  BY <1>1 DEF Around
<1>6. \A i \in 0..n-2 : a[P[0 + i]] = t[i + 1]
  <2> TAKE i \in 0..n-2
  <2>1. i + 1 \in 1..n-1 /\ i \in 0..n-1 /\ 0 + i = i /\ i \in 0..n
    BY <1>1
  <2>2. P[i] # P[n - 1] /\ P[i] \in 0..c-1 /\ b[P[i]] = s[i + 1] /\ t[i + 1] = s[i + 1]
    BY <1>2, <1>3, <1>4, <1>5, <2>1
  <2> QED BY <1>1, <2>1, <2>2
<1>7. ASSUME NEW j \in 0..c-1, a[j] # NoItem PROVE \E i \in 0..n-2 : j = P[0 + i]
  <2>1. j # P[n - 1] /\ b[j] # NoItem
    BY <1>1, <1>7
  <2>2. PICK i \in 0..n-1 : j = P[0 + i]
    BY <2>1 DEF LaidOut
  <2>3. i # n - 1
    BY <2>1, <2>2
  <2>4. i \in 0..n-2
    BY <1>1, <2>3
  <2> QED BY <2>2, <2>4
<1>8. a \in [0..c-1 -> Elements] /\ 0..Len(t)-1 = 0..n-2
  <2>1. a \in [0..c-1 -> Elements]
    BY <1>1
  <2> HIDE DEF t, a, n
  <2> QED BY <1>1, <1>2, <2>1
<1> HIDE DEF a, t
<1> QED BY <1>6, <1>7, <1>8 DEF LaidOut, a, t

(* Where the ends of a deque move to, and the slots they name.              *)
LEMMA Ends ==
  ASSUME LinearConstants, NEW s \in Seq(CellItems), NEW d, DequeHolds(d, s)
  PROVE  /\ (d.head + 0) % IndexMod = d.head /\ (d.head + Len(s)) % IndexMod = d.tail
         /\ (d.head + 1) % IndexMod \in Int /\ (d.head - 1) % IndexMod \in Int
         /\ (d.tail + 1) % IndexMod \in Int /\ (d.tail - 1) % IndexMod \in Int
         /\ (d.head - 1) % IndexMod = (d.head + (-1)) % IndexMod
         /\ (d.tail + 1) % IndexMod = (d.head + (Len(s) + 1)) % IndexMod
         /\ (d.tail - 1) % IndexMod = (d.head + (Len(s) - 1)) % IndexMod
<1> DEFINE h == d.head
           n == Len(s)
           t == d.tail
           M == IndexMod
<1>1. h \in 0..M-1 /\ n \in Int /\ t = (h + n) % M /\ h \in Int
  BY LenProperties DEF DequeHolds, LinearConstants
<1>2. h % M = h
  <2>1. M \in Nat \ {0}
    BY WholeRange
  <2> HIDE DEF h
  <2> QED BY <1>1, <2>1, SmallRemainder, Zenon
<1>3. ASSUME NEW i \in Int
      PROVE  /\ (((h + n) % M) + i) % M = (h + (n + i)) % M /\ (((h + n) % M) + i) % M \in Int
             /\ (((h + n) % M) - i) % M = (h + (n - i)) % M /\ (((h + n) % M) - i) % M \in Int
             /\ (h + i) % M \in Int
  <2> HIDE DEF h, n, t
  <2>1. /\ (((h + n) % M) + i) % M = (h + (n + i)) % M /\ (((h + n) % M) + i) % M \in Int
        /\ (((h + n) % M) - i) % M = (h + (n - i)) % M /\ (((h + n) % M) - i) % M \in Int
    BY <1>1, Advanced, Zenon
  <2>2. (h + i) % M \in Int
    BY <1>1, Turned, Zenon
  <2> QED BY <2>1, <2>2
<1> HIDE DEF h, n, t, M
<1>4. /\ (((h + n) % M) + 1) % M = (h + (n + 1)) % M /\ (((h + n) % M) + 1) % M \in Int
      /\ (((h + n) % M) - 1) % M = (h + (n - 1)) % M /\ (((h + n) % M) - 1) % M \in Int
      /\ (h + 1) % M \in Int /\ (h + (-1)) % M \in Int
  BY <1>3
<1>5. h + (-1) = h - 1 /\ h + 0 = h
  BY <1>1
<1>6. /\ (h + 0) % M = h /\ (h + n) % M = t /\ (h + 1) % M \in Int /\ (h - 1) % M \in Int
      /\ (t + 1) % M \in Int /\ (t - 1) % M \in Int /\ (h - 1) % M = (h + (-1)) % M
      /\ (t + 1) % M = (h + (n + 1)) % M /\ (t - 1) % M = (h + (n - 1)) % M
  BY <1>1, <1>2, <1>4, <1>5
<1> QED BY <1>6 DEF h, n, t, M

LEMMA EndSlots ==
  ASSUME LinearConstants, NEW s \in Seq(CellItems), NEW d, DequeHolds(d, s), NEW P,
         P = [k \in Int |-> (d.head + k) % d.cap]
  PROVE  /\ Slot(d, d.tail) = P[Len(s)] /\ Slot(d, d.head) = P[0]
         /\ Slot(d, (d.head - 1) % IndexMod) = P[-1]
         /\ Slot(d, (d.tail - 1) % IndexMod) = P[Len(s) - 1] /\ Slot(d, d.tail - 1) = P[Len(s) - 1]
<1>1. \A k \in Int : Slot(d, (d.head + k) % IndexMod) = P[k] /\ Slot(d, d.head + k) = P[k]
  BY HoldsRing
<1>2. Len(s) \in Int /\ d.head \in Int /\ d.tail \in Int
  BY LenProperties DEF DequeHolds, LinearConstants
<1>3. Slot(d, d.tail - 1) = Slot(d, (d.tail - 1) % IndexMod)
  <2>1. d.tail - 1 \in Int /\ (d.tail - 1) % IndexMod \in Int
    BY <1>2, Ends
  <2>2. Slot(d, d.tail - 1) = (d.tail - 1) % d.cap /\ Slot(d, (d.tail - 1) % IndexMod) = ((d.tail - 1) % IndexMod) % d.cap
    BY <2>1, Placed, Zenon
  <2>3. (d.tail - 1) % d.cap = ((d.tail - 1) % IndexMod) % d.cap
    BY <2>1, <2>2 DEF Slot
  <2> QED BY <2>2, <2>3
<1>4. /\ Slot(d, d.head + 0) = P[0] /\ Slot(d, (d.head + (-1)) % IndexMod) = P[-1]
      /\ Slot(d, (d.head + Len(s)) % IndexMod) = P[Len(s)]
      /\ Slot(d, (d.head + (Len(s) - 1)) % IndexMod) = P[Len(s) - 1]
  <2>1. Len(s) - 1 \in Int
    BY <1>2
  <2> QED BY <1>1, <1>2, <2>1, SMTT(30)
<1>5. d.head + 0 = d.head
  BY <1>2
<1> QED BY <1>1, <1>3, <1>4, <1>5, Ends

LEMMA PushBackHolds ==
  ASSUME LinearConstants, NEW s \in Seq(CellItems), NEW d, DequeHolds(d, s), Len(s) < IndexMod, NEW v \in CellItems
  PROVE  DequeHolds(cell_deque_push_back(d, v), Append(s, v))
<1> DEFINE r == Roomy(d)
           n == Len(s)
           P == [i \in Int |-> (r.head + i) % r.cap]
           b == [r.buffer EXCEPT ![P[n]] = v]
           g == cell_deque_push_back(d, v)
           t == Append(s, v)
           k == 0
<1>0. k \in Int
  OBVIOUS
<1>1. DequeHolds(r, s) /\ n \in Nat /\ n < r.cap
  BY RoomyHolds, LenProperties
<1> HIDE DEF r
<1>2. Around(P, r.cap) /\ LaidOut(r.buffer, P, r.cap, 0, s)
  BY <1>1, HoldsRing
<1>12. P = [i \in Int |-> (r.head + i) % r.cap]
  OBVIOUS
<1>3. Slot(r, r.tail) = P[n]
  <2> HIDE DEF P
  <2> QED BY <1>1, <1>12, EndSlots
<1>4. r \in [kind : {"deque"}, cap : Nat, head : Int, tail : Int, buffer : [0..r.cap-1 -> Elements]]
  BY <1>1 DEF DequeHolds, LinearConstants
<1> HIDE DEF P
<1>5. g = [r EXCEPT !.tail = (r.tail + 1) % IndexMod, !.buffer[P[n]] = v]
  BY <1>3 DEF cell_deque_push_back, r
<1>6. LaidOut(b, P, r.cap, k, t) /\ Len(t) = n + 1 /\ t \in Seq(CellItems)
  BY <1>1, <1>2, PutBehind, AppendProperties
<1>7. /\ (r.head + 0) % IndexMod = r.head /\ (r.head + n) % IndexMod = r.tail
      /\ (r.head + 1) % IndexMod \in Int /\ (r.head - 1) % IndexMod \in Int
      /\ (r.tail + 1) % IndexMod \in Int /\ (r.tail - 1) % IndexMod \in Int
      /\ (r.head - 1) % IndexMod = (r.head + (-1)) % IndexMod
      /\ (r.tail + 1) % IndexMod = (r.head + (n + 1)) % IndexMod
      /\ (r.tail - 1) % IndexMod = (r.head + (n - 1)) % IndexMod
  BY <1>1, Ends
<1> HIDE DEF b, g, t
<1>8. /\ g \in [kind : {"deque"}, cap : Nat, head : Int, tail : Int, buffer : [0..r.cap-1 -> Elements]]
      /\ g.cap = r.cap /\ g.head = r.head /\ g.tail = (r.tail + 1) % IndexMod /\ g.buffer = b
  BY <1>4, <1>5, <1>6, <1>7 DEF b, LaidOut
<1>9. k + Len(t) = n + 1 /\ Len(t) <= r.cap
  BY <1>1, <1>4, <1>6
<1>10. g.head = (r.head + k) % IndexMod /\ g.tail = (r.head + (k + Len(t))) % IndexMod
  BY <1>7, <1>8, <1>9
<1> HIDE DEF k
<1>11. DequeHolds(g, t)
  BY <1>0, <1>1, <1>6, <1>8, <1>9, <1>10, <1>12, RingHolds
<1> QED BY <1>11 DEF g, t

LEMMA PushFrontHolds ==
  ASSUME LinearConstants, NEW s \in Seq(CellItems), NEW d, DequeHolds(d, s), Len(s) < IndexMod, NEW v \in CellItems
  PROVE  DequeHolds(cell_deque_push_front(d, v), <<v>> \o s)
<1> DEFINE r == Roomy(d)
           n == Len(s)
           P == [i \in Int |-> (r.head + i) % r.cap]
           b == [r.buffer EXCEPT ![P[-1]] = v]
           g == cell_deque_push_front(d, v)
           t == <<v>> \o s
           k == -1
<1>0. k \in Int
  OBVIOUS
<1>1. DequeHolds(r, s) /\ n \in Nat /\ n < r.cap
  BY RoomyHolds, LenProperties
<1> HIDE DEF r
<1>2. Around(P, r.cap) /\ LaidOut(r.buffer, P, r.cap, 0, s)
  BY <1>1, HoldsRing
<1>12. P = [i \in Int |-> (r.head + i) % r.cap]
  OBVIOUS
<1>3. Slot(r, (r.head - 1) % IndexMod) = P[-1]
  <2> HIDE DEF P
  <2> QED BY <1>1, <1>12, EndSlots
<1>4. r \in [kind : {"deque"}, cap : Nat, head : Int, tail : Int, buffer : [0..r.cap-1 -> Elements]]
  BY <1>1 DEF DequeHolds, LinearConstants
<1> HIDE DEF P
<1>5. g = [r EXCEPT !.head = (r.head - 1) % IndexMod, !.buffer[P[-1]] = v]
  BY <1>3 DEF cell_deque_push_front, r
<1>6. LaidOut(b, P, r.cap, k, t) /\ Len(t) = n + 1 /\ t \in Seq(CellItems)
  BY <1>1, <1>2, PutBefore, ConcatProperties
<1>7. /\ (r.head + 0) % IndexMod = r.head /\ (r.head + n) % IndexMod = r.tail
      /\ (r.head + 1) % IndexMod \in Int /\ (r.head - 1) % IndexMod \in Int
      /\ (r.tail + 1) % IndexMod \in Int /\ (r.tail - 1) % IndexMod \in Int
      /\ (r.head - 1) % IndexMod = (r.head + (-1)) % IndexMod
      /\ (r.tail + 1) % IndexMod = (r.head + (n + 1)) % IndexMod
      /\ (r.tail - 1) % IndexMod = (r.head + (n - 1)) % IndexMod
  BY <1>1, Ends
<1> HIDE DEF b, g, t
<1>8. /\ g \in [kind : {"deque"}, cap : Nat, head : Int, tail : Int, buffer : [0..r.cap-1 -> Elements]]
      /\ g.cap = r.cap /\ g.head = (r.head - 1) % IndexMod /\ g.tail = r.tail /\ g.buffer = b
  BY <1>4, <1>5, <1>6, <1>7 DEF b, LaidOut
<1>9. k + Len(t) = n /\ Len(t) <= r.cap
  BY <1>1, <1>4, <1>6
<1>10. g.head = (r.head + k) % IndexMod /\ g.tail = (r.head + (k + Len(t))) % IndexMod
  BY <1>7, <1>8, <1>9
<1> HIDE DEF k
<1>11. DequeHolds(g, t)
  BY <1>0, <1>1, <1>6, <1>8, <1>9, <1>10, <1>12, RingHolds
<1> QED BY <1>11 DEF g, t

LEMMA PopFrontHolds ==
  ASSUME LinearConstants, NEW s \in Seq(CellItems), NEW d, DequeHolds(d, s), Len(s) < IndexMod, s # << >>
  PROVE  DequeHolds(cell_deque_pop_front(d), Tail(s))
<1> DEFINE r == d
           n == Len(s)
           P == [i \in Int |-> (r.head + i) % r.cap]
           b == [r.buffer EXCEPT ![P[0]] = NoItem]
           g == cell_deque_pop_front(d)
           t == Tail(s)
           k == 1
<1>0. k \in Int
  OBVIOUS
<1>1. DequeHolds(r, s) /\ n \in Nat \ {0} /\ n <= r.cap
  BY LenProperties, EmptySeq DEF DequeHolds
<1> HIDE DEF r
<1>2. Around(P, r.cap) /\ LaidOut(r.buffer, P, r.cap, 0, s)
  BY <1>1, HoldsRing
<1>12. P = [i \in Int |-> (r.head + i) % r.cap]
  OBVIOUS
<1>3. Slot(r, r.head) = P[0]
  <2> HIDE DEF P
  <2> QED BY <1>1, <1>12, EndSlots
<1>4. r \in [kind : {"deque"}, cap : Nat, head : Int, tail : Int, buffer : [0..r.cap-1 -> Elements]]
  BY <1>1 DEF DequeHolds, LinearConstants
<1> HIDE DEF P
<1>5. g = [r EXCEPT !.head = (r.head + 1) % IndexMod, !.buffer[P[0]] = NoItem]
  BY <1>1, <1>3, Sized DEF cell_deque_pop_front, r
<1>6. LaidOut(b, P, r.cap, k, t) /\ Len(t) = n - 1 /\ t \in Seq(CellItems)
  BY <1>1, <1>2, CutFirst, HeadTailProperties DEF LinearConstants
<1>7. /\ (r.head + 0) % IndexMod = r.head /\ (r.head + n) % IndexMod = r.tail
      /\ (r.head + 1) % IndexMod \in Int /\ (r.head - 1) % IndexMod \in Int
      /\ (r.tail + 1) % IndexMod \in Int /\ (r.tail - 1) % IndexMod \in Int
      /\ (r.head - 1) % IndexMod = (r.head + (-1)) % IndexMod
      /\ (r.tail + 1) % IndexMod = (r.head + (n + 1)) % IndexMod
      /\ (r.tail - 1) % IndexMod = (r.head + (n - 1)) % IndexMod
  BY <1>1, Ends
<1> HIDE DEF b, g, t
<1>8. /\ g \in [kind : {"deque"}, cap : Nat, head : Int, tail : Int, buffer : [0..r.cap-1 -> Elements]]
      /\ g.cap = r.cap /\ g.head = (r.head + 1) % IndexMod /\ g.tail = r.tail /\ g.buffer = b
  BY <1>4, <1>5, <1>6, <1>7 DEF b, LaidOut
<1>9. k + Len(t) = n /\ Len(t) <= r.cap
  BY <1>1, <1>4, <1>6
<1>10. g.head = (r.head + k) % IndexMod /\ g.tail = (r.head + (k + Len(t))) % IndexMod
  BY <1>7, <1>8, <1>9
<1> HIDE DEF k
<1>11. DequeHolds(g, t)
  BY <1>0, <1>1, <1>6, <1>8, <1>9, <1>10, <1>12, RingHolds
<1> QED BY <1>11 DEF g, t

LEMMA PopBackHolds ==
  ASSUME LinearConstants, NEW s \in Seq(CellItems), NEW d, DequeHolds(d, s), Len(s) < IndexMod, s # << >>
  PROVE  DequeHolds(cell_deque_pop_back(d), Front(s))
<1> DEFINE r == d
           n == Len(s)
           P == [i \in Int |-> (r.head + i) % r.cap]
           b == [r.buffer EXCEPT ![P[n - 1]] = NoItem]
           g == cell_deque_pop_back(d)
           t == Front(s)
           k == 0
<1>0. k \in Int
  OBVIOUS
<1>1. DequeHolds(r, s) /\ n \in Nat \ {0} /\ n <= r.cap
  BY LenProperties, EmptySeq DEF DequeHolds
<1> HIDE DEF r
<1>2. Around(P, r.cap) /\ LaidOut(r.buffer, P, r.cap, 0, s)
  BY <1>1, HoldsRing
<1>12. P = [i \in Int |-> (r.head + i) % r.cap]
  OBVIOUS
<1>3. Slot(r, (r.tail - 1) % IndexMod) = P[n - 1]
  <2> HIDE DEF P
  <2> QED BY <1>1, <1>12, EndSlots
<1>4. r \in [kind : {"deque"}, cap : Nat, head : Int, tail : Int, buffer : [0..r.cap-1 -> Elements]]
  BY <1>1 DEF DequeHolds, LinearConstants
<1> HIDE DEF P
<1>5. g = [r EXCEPT !.tail = (r.tail - 1) % IndexMod, !.buffer[P[n - 1]] = NoItem]
  BY <1>1, <1>3, Sized DEF cell_deque_pop_back, r
<1>6. LaidOut(b, P, r.cap, k, t) /\ Len(t) = n - 1 /\ t \in Seq(CellItems)
  BY <1>1, <1>2, CutLast, FrontProperties DEF LinearConstants
<1>7. /\ (r.head + 0) % IndexMod = r.head /\ (r.head + n) % IndexMod = r.tail
      /\ (r.head + 1) % IndexMod \in Int /\ (r.head - 1) % IndexMod \in Int
      /\ (r.tail + 1) % IndexMod \in Int /\ (r.tail - 1) % IndexMod \in Int
      /\ (r.head - 1) % IndexMod = (r.head + (-1)) % IndexMod
      /\ (r.tail + 1) % IndexMod = (r.head + (n + 1)) % IndexMod
      /\ (r.tail - 1) % IndexMod = (r.head + (n - 1)) % IndexMod
  BY <1>1, Ends
<1> HIDE DEF b, g, t
<1>8. /\ g \in [kind : {"deque"}, cap : Nat, head : Int, tail : Int, buffer : [0..r.cap-1 -> Elements]]
      /\ g.cap = r.cap /\ g.head = r.head /\ g.tail = (r.tail - 1) % IndexMod /\ g.buffer = b
  BY <1>4, <1>5, <1>6, <1>7 DEF b, LaidOut
<1>9. k + Len(t) = n - 1 /\ Len(t) <= r.cap
  BY <1>1, <1>4, <1>6
<1>10. g.head = (r.head + k) % IndexMod /\ g.tail = (r.head + (k + Len(t))) % IndexMod
  BY <1>7, <1>8, <1>9
<1> HIDE DEF k
<1>11. DequeHolds(g, t)
  BY <1>0, <1>1, <1>6, <1>8, <1>9, <1>10, <1>12, RingHolds
<1> QED BY <1>11 DEF g, t

LEMMA DequeAnswers ==
  ASSUME LinearConstants, NEW s \in Seq(CellItems), NEW d, DequeHolds(d, s), Len(s) < IndexMod
  PROVE  /\ cell_deque_to_list(d) = s
         /\ cell_deque_peek_front(d) = IF s = << >> THEN NoItem ELSE Head(s)
         /\ cell_deque_peek_back(d) = IF s = << >> THEN NoItem ELSE Last(s)
         /\ {i \in 0..d.cap-1 : d.buffer[i] # NoItem} = {Slot(d, d.head + i) : i \in 0..Len(s)-1}
<1> DEFINE n == Len(s)
           P == [i \in Int |-> (d.head + i) % d.cap]
<1>1. n \in Nat /\ cell_deque_size(d) = n
  BY LenProperties, Sized
<1>2. Around(P, d.cap) /\ LaidOut(d.buffer, P, d.cap, 0, s)
  BY HoldsRing
<1>3. P = [i \in Int |-> (d.head + i) % d.cap]
  OBVIOUS
<1> HIDE DEF P
<1>4. Slot(d, d.head) = P[0] /\ Slot(d, d.tail - 1) = P[n - 1]
  BY <1>3, EndSlots
<1>11. \A i \in Int : Slot(d, d.head + i) = P[i]
  BY HoldsRing DEF P
<1>5. ASSUME NEW i \in 0..n-1 PROVE d.buffer[P[i]] = s[i + 1] /\ s[i + 1] \in CellItems /\ P[i] \in 0..d.cap-1
  <2>1. i + 1 \in 1..n /\ i \in Int /\ 0 + i = i
    BY <1>1
  <2>2. d.buffer[P[0 + i]] = s[i + 1]
    BY <1>2 DEF LaidOut
  <2>3. s[i + 1] \in CellItems
    BY <2>1, ElementOfSeq
  <2>4. P[i] \in 0..d.cap-1
    BY <1>2, <2>1 DEF Around
  <2> QED BY <2>1, <2>2, <2>3, <2>4
<1>6. cell_deque_to_list(d) = s
  <2>1. ASSUME NEW i \in 1..n PROVE d.buffer[Slot(d, d.head + i - 1)] = s[i]
    <3>1. i - 1 \in Int /\ i - 1 \in 0..n-1 /\ (i - 1) + 1 = i
      BY <1>1
    <3>2. Slot(d, d.head + (i - 1)) = P[i - 1]
      BY <1>11, <3>1
    <3> QED BY <1>5, <3>1, <3>2
  <2>2. s = [i \in 1..n |-> s[i]]
    BY LenProperties
  <2> QED BY <1>1, <2>1, <2>2 DEF cell_deque_to_list
<1>7. cell_deque_peek_front(d) = IF s = << >> THEN NoItem ELSE Head(s)
  <2>1. CASE s = << >>
    BY <1>1, <2>1, EmptySeq DEF cell_deque_peek_front
  <2>2. CASE s # << >>
    <3>1. n # 0 /\ 0 \in 0..n-1
      BY <1>1, <2>2, EmptySeq
    <3>2. d.buffer[P[0]] = s[0 + 1]
      BY <1>5, <3>1
    <3> QED BY <1>1, <1>4, <2>2, <3>1, <3>2 DEF cell_deque_peek_front
  <2> QED BY <2>1, <2>2
<1>8. cell_deque_peek_back(d) = IF s = << >> THEN NoItem ELSE Last(s)
  <2>1. CASE s = << >>
    BY <1>1, <2>1, EmptySeq DEF cell_deque_peek_back
  <2>2. CASE s # << >>
    <3>1. n # 0 /\ n - 1 \in 0..n-1 /\ (n - 1) + 1 = n
      BY <1>1, <2>2, EmptySeq
    <3>2. d.buffer[P[n - 1]] = s[n]
      BY <1>5, <3>1
    <3> QED BY <1>1, <1>4, <2>2, <3>1, <3>2 DEF cell_deque_peek_back, Last
  <2> QED BY <2>1, <2>2
<1>9. ASSUME NEW j \in 0..d.cap-1, d.buffer[j] # NoItem PROVE \E i \in 0..n-1 : j = Slot(d, d.head + i)
  <2>1. PICK i \in 0..n-1 : j = P[0 + i]
    BY <1>2, <1>9 DEF LaidOut
  <2>2. i \in Int /\ 0 + i = i
    BY <1>1
  <2> QED BY <1>11, <2>1, <2>2
<1>10. ASSUME NEW i \in 0..n-1 PROVE Slot(d, d.head + i) \in 0..d.cap-1 /\ d.buffer[Slot(d, d.head + i)] # NoItem
  <2>1. i \in Int
    BY <1>1
  <2> QED BY <1>11, <1>5, <2>1 DEF LinearConstants
<1> QED BY <1>6, <1>7, <1>8, <1>9, <1>10

-----------------------------------------------------------------------------
(* Slices *)

(* The clamped bounds are those of the slice of the sequence.               *)
LEMMA SliceProperties ==
  ASSUME NEW s \in Seq(CellItems), NEW from \in Nat, NEW to \in Nat
  PROVE  LET c == Clamped(Len(s), from, to)
             t == SubSeq(s, from + 1, Min({to, Len(s)}))
         IN  /\ c.start \in Nat /\ c.len \in Nat /\ c.start + c.len <= Len(s)
             /\ t \in Seq(CellItems) /\ Len(t) = c.len
             /\ \A i \in 0..c.len-1 : t[i + 1] = s[c.start + i + 1]
<1> DEFINE n == Len(s)
           lo == Min({from, n})
           hi == Min({to, n})
           c == Clamped(n, from, to)
           t == SubSeq(s, from + 1, hi)
<1>1. n \in Nat /\ lo = (IF from <= n THEN from ELSE n) /\ hi = (IF to <= n THEN to ELSE n)
  BY LenProperties, MinOfTwo
<1>2. c.start = lo /\ c.len = Max({lo, hi}) - lo
  BY DEF Clamped
<1> HIDE DEF lo, hi, c, n
<1>3. Max({lo, hi}) = IF lo <= hi THEN hi ELSE lo
  BY <1>1, MaxOfTwo
<1>4. c.start \in Nat /\ c.len \in Nat /\ c.start + c.len <= n /\ c.len = IF lo <= hi THEN hi - lo ELSE 0
  BY <1>1, <1>2, <1>3
<1>5. \A i \in from + 1..hi : s[i] \in CellItems
  BY <1>1, ElementOfSeq DEF n
<1>6. /\ t \in Seq(CellItems)
      /\ Len(t) = IF from + 1 <= hi THEN hi - (from + 1) + 1 ELSE 0
      /\ \A i \in 1..hi - (from + 1) + 1 : t[i] = s[(from + 1) + i - 1]
  <2>1. from + 1 \in Int /\ hi \in Int
    BY <1>1
  <2> QED BY <1>5, <2>1, SubSeqProperties
<1> HIDE DEF t
<1>7. Len(t) = c.len
  BY <1>1, <1>4, <1>6, SMTT(30)
<1>8. ASSUME NEW i \in 0..c.len-1 PROVE t[i + 1] = s[c.start + i + 1]
  <2>1. i + 1 \in 1..hi - (from + 1) + 1 /\ (from + 1) + (i + 1) - 1 = c.start + i + 1
    BY <1>1, <1>2, <1>4
  <2> QED BY <1>6, <2>1
<1> QED BY <1>4, <1>6, <1>7, <1>8 DEF c, t, hi, n

-----------------------------------------------------------------------------
(* Capacities *)

LEMMA ByInduction ==
  ASSUME NEW S, 0 \in S, \A n \in Nat : n \in S => n + 1 \in S
  PROVE  \A n \in Nat : n \in S
<1> DEFINE T == Nat \ S
<1>1. SUFFICES ASSUME T # {} PROVE FALSE
  OBVIOUS
<1>2. PICK x \in T : \A y \in T : x =< y
  BY <1>1, Least
<1>3. x \in Nat \ {0}
  OBVIOUS
<1>4. x - 1 \in Nat /\ x - 1 \notin T /\ (x - 1) + 1 = x
  BY <1>2, <1>3
<1> QED BY <1>4

(* What is iterated exists.                                                 *)
Iterated(T, next, a, n, f) ==
  f \in [0..n -> T] /\ f = [k \in 0..n |-> IF k = 0 THEN a ELSE next[f[k - 1]]]

LEMMA Iterates ==
  ASSUME NEW T, NEW next \in [T -> T], NEW a \in T
  PROVE  \A n \in Nat : \E f : Iterated(T, next, a, n, f)
<1> DEFINE S == {n \in Nat : \E f : Iterated(T, next, a, n, f)}
<1>0. \A n \in Nat : n + 1 \in Nat
  OBVIOUS
<1>1. 0 \in S
  <2>1. Iterated(T, next, a, 0, [k \in 0..0 |-> a])
    BY DEF Iterated
  <2> QED BY <2>1
<1>2. ASSUME NEW n \in Nat, n \in S PROVE n + 1 \in S
  <2>1. PICK f : Iterated(T, next, a, n, f)
    BY <1>2
  <2>6. f \in [0..n -> T] /\ f = [k \in 0..n |-> IF k = 0 THEN a ELSE next[f[k - 1]]]
    BY <2>1 DEF Iterated
  <2> DEFINE g == [k \in 0..n + 1 |-> IF k = n + 1 THEN next[f[n]] ELSE f[k]]
  <2>2. g \in [0..n + 1 -> T]
    BY <2>6
  <2>3. ASSUME NEW k \in 0..n + 1 PROVE g[k] = IF k = 0 THEN a ELSE next[g[k - 1]]
    <3>1. CASE k = 0
      BY <2>6, <3>1
    <3>2. CASE k = n + 1
      BY <2>6, <3>2
    <3>3. CASE k # 0 /\ k # n + 1
      <4>1. k \in 0..n /\ k - 1 \in 0..n + 1 /\ k - 1 # n + 1
        BY <3>3
      <4> QED BY <2>6, <3>3, <4>1
    <3> QED BY <3>1, <3>2, <3>3
  <2>4. Iterated(T, next, a, n + 1, g)
    <3> HIDE DEF g
    <3>1. g = [k \in 0..n + 1 |-> g[k]]
      BY <2>2
    <3> QED BY <2>2, <2>3, <3>1 DEF Iterated
  <2>5. \E h : Iterated(T, next, a, n + 1, h)
    BY <2>4
  <2> HIDE DEF g
  <2> QED BY <1>0, <2>5
<1>3. \A n \in Nat : n \in S
  <2> HIDE DEF S
  <2> QED BY <1>1, <1>2, ByInduction
<1> QED BY <1>3

(* What grows with every iteration is at least as large as their number.    *)
LEMMA IteratesGrow ==
  ASSUME NEW n \in Nat, NEW f \in [0..n -> Nat], \A k \in 1..n : f[k] > f[k - 1]
  PROVE  \A k \in 0..n : f[k] >= f[0] + k
<1> DEFINE S == {k \in Nat : k \in 0..n => f[k] >= f[0] + k}
<1>1. 0 \in S
  OBVIOUS
<1>2. ASSUME NEW k \in Nat, k \in S PROVE k + 1 \in S
  <2> SUFFICES ASSUME k + 1 \in 0..n PROVE f[k + 1] >= f[0] + (k + 1)
    OBVIOUS
  <2>1. k \in 0..n /\ k + 1 \in 1..n /\ (k + 1) - 1 = k /\ 0 \in 0..n
    OBVIOUS
  <2>2. f[k] >= f[0] + k /\ f[k + 1] > f[k]
    BY <1>2, <2>1
  <2>3. f[k] \in Nat /\ f[k + 1] \in Nat /\ f[0] \in Nat
    BY <2>1
  <2> QED BY <2>2, <2>3
<1>3. \A k \in Nat : k \in S
  <2> HIDE DEF S
  <2> QED BY <1>1, <1>2, ByInduction
<1> QED BY <1>3

LEMMA DoublingsAre ==
  ASSUME NEW min \in Nat \ {0}, NEW n \in Nat
  PROVE  /\ Doublings(min, n) \in [0..n -> Nat]
         /\ Doublings(min, n)[0] = min
         /\ \A k \in 0..n : Doublings(min, n)[k] >= min + k
<1> DEFINE T == Nat \ {0}
           next == [c \in T |-> 2 * c]
           Doubles(f) == f = [k \in 0..n |-> IF k = 0 THEN min ELSE 2 * f[k - 1]]
           d == Doublings(min, n)
<1>1. PICK f \in [0..n -> T] : f = [k \in 0..n |-> IF k = 0 THEN min ELSE next[f[k - 1]]]
  <2>1. next \in [T -> T] /\ min \in T
    OBVIOUS
  <2> HIDE DEF next, T
  <2>2. \E f : Iterated(T, next, min, n, f)
    BY <2>1, Iterates
  <2> QED BY <2>2 DEF Iterated
<1>2. Doubles(f)
  <2>1. \A k \in 0..n : k # 0 => next[f[k - 1]] = 2 * f[k - 1]
    OBVIOUS
  <2> HIDE DEF next
  <2> QED BY <1>1, <2>1
<1>3. Doubles(d)
  BY <1>2 DEF Doublings
<1> HIDE DEF d
<1>4. d[0] = min /\ \A k \in 1..n : d[k] = 2 * d[k - 1]
  BY <1>3
<1> DEFINE S == {k \in Nat : k \in 0..n => d[k] \in Nat \ {0}}
<1>5. \A k \in Nat : k \in S
  <2>1. 0 \in S
    BY <1>4
  <2>2. ASSUME NEW k \in Nat, k \in S PROVE k + 1 \in S
    <3> SUFFICES ASSUME k + 1 \in 0..n PROVE d[k + 1] \in Nat \ {0}
      OBVIOUS
    <3>1. k \in 0..n /\ k + 1 \in 1..n /\ (k + 1) - 1 = k
      OBVIOUS
    <3>2. d[k] \in Nat \ {0} /\ d[k + 1] = 2 * d[k]
      BY <1>4, <2>2, <3>1
    <3> QED BY <3>2
  <2> HIDE DEF S
  <2> QED BY <2>1, <2>2, ByInduction
<1>6. d \in [0..n -> Nat]
  <2>1. \A k \in 0..n : d[k] \in Nat
    BY <1>5
  <2>2. d = [k \in 0..n |-> d[k]]
    BY <1>3
  <2> QED BY <2>1, <2>2
<1>7. \A k \in 1..n : d[k] > d[k - 1]
  <2> TAKE k \in 1..n
  <2>1. k - 1 \in 0..n /\ k - 1 \in Nat
    OBVIOUS
  <2>2. d[k - 1] \in Nat \ {0} /\ d[k] = 2 * d[k - 1]
    BY <1>4, <1>5, <2>1
  <2> QED BY <2>2
<1> QED BY <1>4, <1>6, <1>7, IteratesGrow DEF d

LEMMA DoubledHolds ==
  ASSUME NEW min \in Nat \ {0}, NEW n \in Nat
  PROVE  Doubled(min, n) \in Nat \ {0} /\ Doubled(min, n) >= n /\ (n = 0 => Doubled(min, n) = min)
<1> DEFINE d == Doublings(min, n)
           S == {c \in {d[k] : k \in 0..n} : c >= n}
<1>1. d \in [0..n -> Nat] /\ d[0] = min /\ \A k \in 0..n : d[k] >= min + k
  BY DoublingsAre
<1> HIDE DEF d
<1>2. n \in 0..n /\ 0 \in 0..n
  OBVIOUS
<1>3. S \subseteq Nat /\ d[n] \in S
  BY <1>1, <1>2
<1>4. Min(S) \in S
  <2> HIDE DEF S
  <2> QED BY <1>3, MinIsLeast
<1>5. PICK k \in 0..n : Min(S) = d[k]
  BY <1>4
<1>6. Doubled(min, n) = d[k] /\ d[k] >= n /\ d[k] >= min + k /\ d[k] \in Nat
  BY <1>1, <1>4, <1>5 DEF Doubled, d
<1> QED BY <1>1, <1>6

LEMMA NextCap ==
  ASSUME NEW c \in Nat, c >= 2
  PROVE  vec_next_cap(c) \in Nat /\ vec_next_cap(c) > c /\ vec_next_cap(c) >= 2
  BY DEF vec_next_cap

LEMMA HeapCapsAre ==
  ASSUME LinearConstants, NEW n \in Nat
  PROVE  /\ HeapCaps(n) \in [0..n -> Nat]
         /\ \A k \in 0..n : HeapCaps(n)[k] >= HeapCap + k
<1> DEFINE T == {c \in Nat : c >= 2}
           next == [c \in T |-> vec_next_cap(c)]
           Grows3(f) == f = [k \in 0..n |-> IF k = 0 THEN HeapCap ELSE vec_next_cap(f[k - 1])]
           d == HeapCaps(n)
<1>1. PICK f \in [0..n -> T] : f = [k \in 0..n |-> IF k = 0 THEN HeapCap ELSE next[f[k - 1]]]
  <2>1. next \in [T -> T] /\ HeapCap \in T
    BY NextCap DEF LinearConstants
  <2> HIDE DEF next, T
  <2>2. \E f : Iterated(T, next, HeapCap, n, f)
    BY <2>1, Iterates
  <2> QED BY <2>2 DEF Iterated
<1>2. Grows3(f)
  <2>1. \A k \in 0..n : k # 0 => next[f[k - 1]] = vec_next_cap(f[k - 1])
    OBVIOUS
  <2> HIDE DEF next
  <2> QED BY <1>1, <2>1
<1>3. Grows3(d)
  BY <1>2 DEF HeapCaps
<1> HIDE DEF d
<1>4. d[0] = HeapCap /\ \A k \in 1..n : d[k] = vec_next_cap(d[k - 1])
  BY <1>3
<1> DEFINE S == {k \in Nat : k \in 0..n => d[k] \in T}
<1>5. \A k \in Nat : k \in S
  <2>1. 0 \in S
    BY <1>4 DEF LinearConstants
  <2>2. ASSUME NEW k \in Nat, k \in S PROVE k + 1 \in S
    <3> SUFFICES ASSUME k + 1 \in 0..n PROVE d[k + 1] \in T
      OBVIOUS
    <3>1. k \in 0..n /\ k + 1 \in 1..n /\ (k + 1) - 1 = k
      OBVIOUS
    <3> QED BY <1>4, <2>2, <3>1, NextCap
  <2> HIDE DEF S
  <2> QED BY <2>1, <2>2, ByInduction
<1>6. d \in [0..n -> Nat]
  <2>1. \A k \in 0..n : d[k] \in Nat
    BY <1>5
  <2>2. d = [k \in 0..n |-> d[k]]
    BY <1>3
  <2> QED BY <2>1, <2>2
<1>7. \A k \in 1..n : d[k] > d[k - 1]
  <2> TAKE k \in 1..n
  <2>1. k - 1 \in 0..n /\ k - 1 \in Nat
    OBVIOUS
  <2>2. d[k - 1] \in T /\ d[k] = vec_next_cap(d[k - 1])
    BY <1>4, <1>5, <2>1
  <2> QED BY <2>2, NextCap
<1> QED BY <1>4, <1>6, <1>7, IteratesGrow DEF d

LEMMA VectorCapHolds ==
  ASSUME LinearConstants, NEW n \in Nat
  PROVE  /\ VectorCap(n) \in Nat /\ VectorCap(n) >= n
         /\ IF n <= InlineCap THEN VectorCap(n) = InlineCap ELSE VectorCap(n) >= HeapCap
<1>1. CASE n <= InlineCap
  BY <1>1 DEF VectorCap, LinearConstants
<1>2. CASE ~(n <= InlineCap)
  <2> DEFINE d == HeapCaps(n)
             S == {c \in {d[k] : k \in 0..n} : c >= n}
  <2>1. d \in [0..n -> Nat] /\ \A k \in 0..n : d[k] >= HeapCap + k
    BY HeapCapsAre
  <2>0. HeapCap \in Nat
    BY DEF LinearConstants
  <2> HIDE DEF d
  <2>2. n \in 0..n
    OBVIOUS
  <2>3. S \subseteq Nat /\ d[n] \in S
    BY <2>0, <2>1, <2>2
  <2>4. Min(S) \in S
    <3> HIDE DEF S
    <3> QED BY <2>3, MinIsLeast
  <2>5. PICK k \in 0..n : Min(S) = d[k]
    BY <2>4
  <2>6. VectorCap(n) = d[k] /\ d[k] >= n /\ d[k] >= HeapCap + k /\ d[k] \in Nat
    BY <1>2, <2>1, <2>4, <2>5 DEF VectorCap, d
  <2> QED BY <1>2, <2>0, <2>6
<1> QED BY <1>1, <1>2

-----------------------------------------------------------------------------
(* Elements from slot 0 on *)

LEMMA StoredBehind ==
  ASSUME NEW E, CellItems \subseteq E, NEW c \in Nat, NEW e \in [0..c-1 -> E],
         NEW s \in Seq(CellItems), Stores(e, s), Len(s) < c, NEW x \in CellItems
  PROVE  /\ [e EXCEPT ![Len(s)] = x] \in [0..c-1 -> E] /\ Stores([e EXCEPT ![Len(s)] = x], Append(s, x))
         /\ Append(s, x) \in Seq(CellItems) /\ Len(Append(s, x)) = Len(s) + 1
<1> DEFINE n == Len(s)
           t == Append(s, x)
           g == [e EXCEPT ![n] = x]
<1>1. n \in Nat /\ n \in 0..c-1
  BY LenProperties
<1>2. t \in Seq(CellItems) /\ Len(t) = n + 1 /\ t[n + 1] = x /\ \A j \in 1..n : t[j] = s[j]
  BY <1>1, AppendProperties
<1>3. ASSUME NEW i \in 0..n PROVE g[i] = t[i + 1]
  <2>1. CASE i = n
    BY <1>1, <1>2, <2>1
  <2>2. CASE i # n
    <3>1. i \in 0..n-1 /\ i + 1 \in 1..n /\ i \in 0..c-1
      BY <1>1, <2>2
    <3>2. e[i] = s[i + 1] /\ t[i + 1] = s[i + 1]
      BY <1>2, <3>1 DEF Stores
    <3> QED BY <2>2, <3>1, <3>2
  <2> QED BY <2>1, <2>2
<1>4. g \in [0..c-1 -> E]
  OBVIOUS
<1>5. 0..Len(t)-1 = 0..n
  BY <1>1, <1>2
<1> QED BY <1>2, <1>3, <1>4, <1>5 DEF Stores

LEMMA StoredFront ==
  ASSUME NEW E, NEW c \in Nat, NEW e \in [0..c-1 -> E], NEW x \in E,
         NEW s \in Seq(CellItems), Stores(e, s), Len(s) <= c, s # << >>
  PROVE  [e EXCEPT ![Len(s) - 1] = x] \in [0..c-1 -> E] /\ Stores([e EXCEPT ![Len(s) - 1] = x], Front(s))
<1> DEFINE n == Len(s)
           t == Front(s)
           g == [e EXCEPT ![n - 1] = x]
<1>1. n \in Nat \ {0}
  BY LenProperties, EmptySeq
<1>2. Len(t) = n - 1 /\ \A j \in 1..n-1 : t[j] = s[j]
  BY FrontProperties
<1>3. ASSUME NEW i \in 0..(n-1)-1 PROVE g[i] = t[i + 1]
  <2>1. i \in 0..n-1 /\ i + 1 \in 1..n-1 /\ i \in 0..c-1 /\ i # n - 1
    BY <1>1
  <2>2. e[i] = s[i + 1] /\ t[i + 1] = s[i + 1]
    BY <1>2, <2>1 DEF Stores
  <2> QED BY <2>1, <2>2
<1>4. g \in [0..c-1 -> E]
  OBVIOUS
<1> QED BY <1>2, <1>3, <1>4 DEF Stores

LEMMA StoredAt ==
  ASSUME NEW E, CellItems \subseteq E, NEW c \in Nat, NEW e \in [0..c-1 -> E],
         NEW s \in Seq(CellItems), Stores(e, s), Len(s) <= c, NEW i \in Nat, i < Len(s), NEW k, k = i + 1, NEW x \in CellItems
  PROVE  /\ [e EXCEPT ![i] = x] \in [0..c-1 -> E] /\ Stores([e EXCEPT ![i] = x], [s EXCEPT ![k] = x])
         /\ [s EXCEPT ![k] = x] \in Seq(CellItems) /\ Len([s EXCEPT ![k] = x]) = Len(s)
<1> DEFINE n == Len(s)
           t == [s EXCEPT ![k] = x]
           g == [e EXCEPT ![i] = x]
<1>1. n \in Nat /\ k \in 1..n
  BY LenProperties
<1>2. t \in Seq(CellItems) /\ Len(t) = n /\ \A j \in 1..n : t[j] = IF j = k THEN x ELSE s[j]
  BY <1>1, ExceptSeq
<1>3. ASSUME NEW j \in 0..n-1 PROVE g[j] = t[j + 1]
  <2>1. j + 1 \in 1..n /\ j \in 0..c-1 /\ (j + 1 = k <=> j = i) /\ i \in 0..c-1
    BY <1>1
  <2>2. e[j] = s[j + 1] /\ t[j + 1] = IF j + 1 = k THEN x ELSE s[j + 1]
    BY <1>2, <2>1 DEF Stores
  <2>3. g[j] = IF j = i THEN x ELSE e[j]
    BY <2>1
  <2> QED BY <2>1, <2>2, <2>3
<1>4. g \in [0..c-1 -> E]
  OBVIOUS
<1> QED BY <1>2, <1>3, <1>4 DEF Stores

(* What is stored is read back.                                             *)
LEMMA StoredRead ==
  ASSUME NEW s \in Seq(CellItems), NEW e, Stores(e, s)
  PROVE  [i \in 1..Len(s) |-> e[i - 1]] = s
<1> DEFINE n == Len(s)
<1>1. n \in Nat /\ s = [i \in 1..n |-> s[i]]
  BY LenProperties
<1>2. ASSUME NEW i \in 1..n PROVE e[i - 1] = s[i]
  <2>1. i - 1 \in 0..n-1 /\ (i - 1) + 1 = i
    BY <1>1
  <2> QED BY <2>1 DEF Stores
<1> QED BY <1>1, <1>2

-----------------------------------------------------------------------------
(* The vector *)

LEMMA NewVector ==
  ASSUME LinearConstants, NEW n \in Nat
  PROVE  VectorHolds(cell_vector_new(n), << >>) /\ cell_vector_new(n).cap >= n
<1> DEFINE cap == VectorCap(n)
           v == cell_vector_new(n)
<1>1. cap \in Nat /\ cap >= n /\ IF n <= InlineCap THEN cap = InlineCap ELSE cap >= HeapCap
  BY VectorCapHolds
<1>2. v = [kind |-> "vector", cap |-> cap, size |-> 0, buf |-> IF n <= InlineCap THEN 0 ELSE 1,
           elems |-> [i \in 0..cap-1 |-> NoItem]]
  BY DEF cell_vector_new
<1>3. [i \in 0..cap-1 |-> NoItem] \in [0..cap-1 -> Elements]
  BY DEF Elements
<1> HIDE DEF cap, v
<1>4. Len(<< >>) = 0 /\ Stores(v.elems, << >>)
  BY EmptySeq DEF Stores
<1> QED BY <1>1, <1>2, <1>3, <1>4 DEF VectorHolds, v

LEMMA VectorGrows ==
  ASSUME LinearConstants, NEW s \in Seq(CellItems), NEW v, VectorHolds(v, s)
  PROVE  LET w == vector_grow(v)
         IN  VectorHolds(w, s) /\ w.cap > v.cap /\ w.buf = v.buf + 1
<1> DEFINE n == Len(s)
           cap == IF v.cap <= InlineCap THEN HeapCap ELSE vec_next_cap(v.cap)
           e == [i \in 0..cap-1 |-> IF i < v.size THEN v.elems[i] ELSE NoItem]
           w == vector_grow(v)
<1>1. /\ n \in Nat /\ v.size = n /\ v.cap \in Nat /\ n <= v.cap /\ v.buf \in Nat
      /\ v.elems \in [0..v.cap-1 -> Elements] /\ Stores(v.elems, s)
  BY LenProperties DEF VectorHolds
<1>2. cap \in Nat /\ cap > v.cap /\ cap >= HeapCap
  <2>1. CASE v.cap <= InlineCap
    BY <1>1, <2>1 DEF LinearConstants
  <2>2. CASE ~(v.cap <= InlineCap)
    <3>1. v.cap >= HeapCap /\ v.cap >= 2 /\ HeapCap \in Nat
      BY <1>1, <2>2 DEF VectorHolds, LinearConstants
    <3>2. vec_next_cap(v.cap) \in Nat /\ vec_next_cap(v.cap) > v.cap
      BY <1>1, <3>1, NextCap
    <3> QED BY <1>1, <2>2, <3>1, <3>2
  <2> QED BY <2>1, <2>2
<1>3. w = [v EXCEPT !.cap = cap, !.buf = @ + 1, !.elems = e]
  BY DEF vector_grow
<1> HIDE DEF cap
<1>4. e \in [0..cap-1 -> Elements]
  <2>1. ASSUME NEW i \in 0..cap-1 PROVE (IF i < n THEN v.elems[i] ELSE NoItem) \in Elements
    BY <1>1 DEF Elements
  <2> QED BY <1>1, <2>1
<1>5. Stores(e, s)
  <2>1. ASSUME NEW i \in 0..n-1 PROVE e[i] = v.elems[i]
    BY <1>1, <1>2
  <2> HIDE DEF e
  <2> QED BY <1>1, <2>1 DEF Stores
<1> HIDE DEF e
<1>6. v \in [kind : {"vector"}, cap : Nat, size : Nat, buf : Nat, elems : [0..v.cap-1 -> Elements]]
  BY DEF VectorHolds
<1> HIDE DEF w
<1> DEFINE k == v.buf + 1
<1>9. k \in Nat /\ w = [v EXCEPT !.cap = cap, !.buf = k, !.elems = e]
  BY <1>1, <1>3
<1> HIDE DEF k
<1>7. /\ w \in [kind : {"vector"}, cap : Nat, size : Nat, buf : Nat, elems : [0..cap-1 -> Elements]]
      /\ w.cap = cap /\ w.size = v.size /\ w.buf = k /\ w.elems = e
  BY <1>2, <1>4, <1>6, <1>9
<1>8. w.buf > 0
  BY <1>1, <1>7 DEF k
<1> QED BY <1>1, <1>2, <1>5, <1>7, <1>8 DEF VectorHolds, w, k

LEMMA PushVector ==
  ASSUME LinearConstants, NEW s \in Seq(CellItems), NEW v, VectorHolds(v, s), NEW x \in CellItems
  PROVE  VectorHolds(cell_vector_push(v, x), Append(s, x))
<1> DEFINE n == Len(s)
           r == IF v.size = v.cap THEN vector_grow(v) ELSE v
           t == Append(s, x)
           e == [r.elems EXCEPT ![n] = x]
           w == cell_vector_push(v, x)
<1>1. VectorHolds(r, s) /\ n < r.cap
  <2>1. v.size = n /\ n <= v.cap /\ n \in Nat /\ v.cap \in Nat
    BY LenProperties DEF VectorHolds
  <2>2. VectorHolds(vector_grow(v), s) /\ vector_grow(v).cap > v.cap
    BY VectorGrows
  <2>3. vector_grow(v).cap \in Nat
    BY <2>2 DEF VectorHolds
  <2> QED BY <2>1, <2>2, <2>3
<1>2. w = [r EXCEPT !.elems[r.size] = x, !.size = r.size + 1]
  BY DEF cell_vector_push
<1> HIDE DEF r
<1>3. /\ r \in [kind : {"vector"}, cap : Nat, size : Nat, buf : Nat, elems : [0..r.cap-1 -> Elements]]
      /\ r.size = n /\ n \in Nat /\ Stores(r.elems, s)
  BY <1>1, LenProperties DEF VectorHolds
<1>4. e \in [0..r.cap-1 -> Elements] /\ Stores(e, t) /\ Len(t) = n + 1
  <2> DEFINE f == r.elems
             c == r.cap
  <2>1. c \in Nat /\ f \in [0..c-1 -> Elements] /\ CellItems \subseteq Elements
    BY <1>3 DEF Elements
  <2>2. Stores(f, s) /\ Len(s) < c
    BY <1>1, <1>3
  <2> HIDE DEF f, c
  <2>3. [f EXCEPT ![Len(s)] = x] \in [0..c-1 -> Elements]
    BY <2>1, <2>2, StoredBehind
  <2>4. Stores([f EXCEPT ![Len(s)] = x], Append(s, x))
    BY <2>1, <2>2, StoredBehind
  <2>5. Len(Append(s, x)) = Len(s) + 1
    BY <2>1, <2>2, StoredBehind
  <2> QED BY <2>3, <2>4, <2>5 DEF f, c
<1> HIDE DEF w, t
<1> DEFINE k == n + 1
<1>8. k \in Nat /\ w = [r EXCEPT !.elems = e, !.size = k]
  BY <1>2, <1>3
<1> HIDE DEF e, k
<1>5. /\ w \in [kind : {"vector"}, cap : Nat, size : Nat, buf : Nat, elems : [0..r.cap-1 -> Elements]]
      /\ w.cap = r.cap /\ w.size = k /\ w.buf = r.buf /\ w.elems = e
  BY <1>3, <1>4, <1>8
<1>6. \/ w.cap = InlineCap /\ w.buf = 0
      \/ w.cap >= HeapCap /\ w.buf > 0
  BY <1>1, <1>5 DEF VectorHolds
<1>7. w.size = Len(t) /\ Len(t) <= w.cap
  BY <1>1, <1>3, <1>4, <1>5 DEF k
<1> QED BY <1>4, <1>5, <1>6, <1>7 DEF VectorHolds, w, t

LEMMA PopVector ==
  ASSUME LinearConstants, NEW s \in Seq(CellItems), NEW v, VectorHolds(v, s), s # << >>
  PROVE  VectorHolds(cell_vector_pop(v), Front(s))
<1> DEFINE n == Len(s)
           t == Front(s)
           e == [v.elems EXCEPT ![n - 1] = NoItem]
           w == cell_vector_pop(v)
<1>1. n \in Nat \ {0}
  BY LenProperties, EmptySeq
<1>3. /\ v \in [kind : {"vector"}, cap : Nat, size : Nat, buf : Nat, elems : [0..v.cap-1 -> Elements]]
      /\ v.size = n /\ Stores(v.elems, s) /\ n <= v.cap
  BY DEF VectorHolds
<1> DEFINE k == n - 1
<1>2. k \in Nat /\ w = [v EXCEPT !.size = k, !.elems = e]
  BY <1>1, <1>3 DEF cell_vector_pop
<1>4. e \in [0..v.cap-1 -> Elements] /\ Stores(e, t) /\ Len(t) = n - 1
  <2>1. v.cap \in Nat /\ v.elems \in [0..v.cap-1 -> Elements] /\ NoItem \in Elements
    BY <1>3 DEF Elements
  <2> QED BY <1>3, <2>1, StoredFront, FrontProperties
<1> HIDE DEF e, w, t, k
<1>5. /\ w \in [kind : {"vector"}, cap : Nat, size : Nat, buf : Nat, elems : [0..v.cap-1 -> Elements]]
      /\ w.cap = v.cap /\ w.size = k /\ w.buf = v.buf /\ w.elems = e
  BY <1>2, <1>3, <1>4
<1>6. \/ w.cap = InlineCap /\ w.buf = 0
      \/ w.cap >= HeapCap /\ w.buf > 0
  BY <1>5 DEF VectorHolds
<1>7. w.size = Len(t) /\ Len(t) <= w.cap
  BY <1>1, <1>3, <1>4, <1>5 DEF k
<1> QED BY <1>4, <1>5, <1>6, <1>7 DEF VectorHolds, w, t

LEMMA SetVector ==
  ASSUME LinearConstants, NEW s \in Seq(CellItems), NEW v, VectorHolds(v, s),
         NEW i \in 0..Len(s)-1, NEW x \in CellItems
  PROVE  VectorHolds(cell_vector_set(v, i, x), [s EXCEPT ![i + 1] = x])
<1> DEFINE n == Len(s)
           t == [s EXCEPT ![i + 1] = x]
           e == [v.elems EXCEPT ![i] = x]
           w == cell_vector_set(v, i, x)
<1>1. n \in Nat /\ ~(i >= n)
  BY LenProperties
<1>3. /\ v \in [kind : {"vector"}, cap : Nat, size : Nat, buf : Nat, elems : [0..v.cap-1 -> Elements]]
      /\ v.size = n /\ Stores(v.elems, s) /\ n <= v.cap
  BY DEF VectorHolds
<1>2. w = [v EXCEPT !.elems[i] = x]
  BY <1>1, <1>3 DEF cell_vector_set
<1>4. e \in [0..v.cap-1 -> Elements] /\ Stores(e, t) /\ Len(t) = n
  <2> DEFINE f == v.elems
             c == v.cap
             k == i + 1
  <2>1. c \in Nat /\ f \in [0..c-1 -> Elements] /\ CellItems \subseteq Elements
    BY <1>3 DEF Elements
  <2>2. Stores(f, s) /\ Len(s) <= c /\ k = i + 1 /\ i \in Nat /\ i < Len(s)
    BY <1>1, <1>3
  <2> HIDE DEF f, c, k
  <2>3. [f EXCEPT ![i] = x] \in [0..c-1 -> Elements]
    BY <2>1, <2>2, StoredAt
  <2>4. Stores([f EXCEPT ![i] = x], [s EXCEPT ![k] = x])
    BY <2>1, <2>2, StoredAt
  <2>5. Len([s EXCEPT ![k] = x]) = Len(s)
    BY <2>1, <2>2, StoredAt
  <2> QED BY <2>3, <2>4, <2>5 DEF f, c, k
<1> HIDE DEF e, w, t
<1>5. /\ w \in [kind : {"vector"}, cap : Nat, size : Nat, buf : Nat, elems : [0..v.cap-1 -> Elements]]
      /\ w.cap = v.cap /\ w.size = v.size /\ w.buf = v.buf /\ w.elems = e
  BY <1>2, <1>3, <1>4 DEF e
<1>6. \/ w.cap = InlineCap /\ w.buf = 0
      \/ w.cap >= HeapCap /\ w.buf > 0
  BY <1>5 DEF VectorHolds
<1> QED BY <1>3, <1>4, <1>5, <1>6 DEF VectorHolds, w, t

LEMMA SliceVector ==
  ASSUME LinearConstants, NEW s \in Seq(CellItems), NEW v, VectorHolds(v, s),
         NEW from \in Nat, NEW to \in Nat
  PROVE  VectorHolds(cell_vector_slice(v, from, to), SubSeq(s, from + 1, Min({to, Len(s)})))
<1> DEFINE n == Len(s)
           t == SubSeq(s, from + 1, Min({to, Len(s)}))
           c == Clamped(n, from, to)
           u == cell_vector_new(c.len)
           e == [i \in 0..u.cap-1 |-> IF i < c.len THEN v.elems[c.start + i] ELSE NoItem]
           w == cell_vector_slice(v, from, to)
<1>1. /\ v.cap \in Nat /\ v.elems \in [0..v.cap-1 -> Elements]
      /\ v.size = n /\ Stores(v.elems, s) /\ n <= v.cap /\ n \in Nat
  BY LenProperties DEF VectorHolds
<1>2. /\ c.start \in Nat /\ c.len \in Nat /\ c.start + c.len <= n
      /\ Len(t) = c.len /\ \A i \in 0..c.len-1 : t[i + 1] = s[c.start + i + 1]
  BY SliceProperties
<1>3. VectorHolds(u, << >>) /\ u.cap >= c.len
  BY <1>2, NewVector
<1>4. /\ u \in [kind : {"vector"}, cap : Nat, size : Nat, buf : Nat, elems : [0..u.cap-1 -> Elements]]
      /\ \/ u.cap = InlineCap /\ u.buf = 0
         \/ u.cap >= HeapCap /\ u.buf > 0
  BY <1>3 DEF VectorHolds
<1>5. w = [u EXCEPT !.size = c.len, !.elems = [i \in DOMAIN u.elems |-> IF i < c.len THEN v.elems[c.start + i] ELSE NoItem]]
  BY <1>1 DEF cell_vector_slice
<1> HIDE DEF c, t, u, w
<1>6. DOMAIN u.elems = 0..u.cap-1
  BY <1>4
<1>7. w = [u EXCEPT !.size = c.len, !.elems = e]
  BY <1>5, <1>6
<1>8. e \in [0..u.cap-1 -> Elements]
  <2>1. ASSUME NEW i \in 0..u.cap-1 PROVE (IF i < c.len THEN v.elems[c.start + i] ELSE NoItem) \in Elements
    <3>1. CASE i < c.len
      <4>1. c.start + i \in 0..v.cap-1
        BY <1>1, <1>2, <1>4, <3>1, SMTT(30)
      <4> QED BY <1>1, <3>1, <4>1
    <3>2. CASE ~(i < c.len)
      BY <3>2 DEF Elements
    <3> QED BY <3>1, <3>2
  <2> QED BY <2>1
<1>9. Stores(e, t)
  <2>1. ASSUME NEW i \in 0..c.len-1 PROVE e[i] = t[i + 1]
    <3>1. i \in 0..u.cap-1 /\ i < c.len /\ c.start + i \in 0..n-1 /\ (c.start + i) + 1 = c.start + i + 1
      <4> DEFINE a == c.start
                 b == c.len
                 m == u.cap
      <4>1. a \in Nat /\ b \in Nat /\ m \in Nat /\ m >= b /\ a + b <= n /\ i \in 0..b-1
        BY <1>2, <1>3, <1>4
      <4> HIDE DEF a, b, m
      <4>2. i \in 0..m-1 /\ i < b /\ a + i \in 0..n-1 /\ (a + i) + 1 = a + i + 1
        BY <1>1, <4>1
      <4> QED BY <4>2 DEF a, b, m
    <3>2. v.elems[c.start + i] = s[c.start + i + 1]
      BY <1>1, <3>1 DEF Stores
    <3> QED BY <1>2, <3>1, <3>2
  <2> HIDE DEF e
  <2> QED BY <1>2, <2>1 DEF Stores
<1> HIDE DEF e
<1>10. /\ w \in [kind : {"vector"}, cap : Nat, size : Nat, buf : Nat, elems : [0..u.cap-1 -> Elements]]
       /\ w.cap = u.cap /\ w.size = c.len /\ w.buf = u.buf /\ w.elems = e
  BY <1>2, <1>4, <1>7, <1>8
<1> QED BY <1>2, <1>3, <1>4, <1>9, <1>10 DEF VectorHolds, w, t

LEMMA VectorAnswers ==
  ASSUME LinearConstants, NEW s \in Seq(CellItems), NEW v, VectorHolds(v, s)
  PROVE  /\ cell_vector_to_list(v) = s
         /\ \A i \in 0..MaxLen : cell_vector_get(v, i) = IF i < Len(s) THEN s[i + 1] ELSE NoItem
         /\ \A x : LET m == MappedWhilePushing(v, x)
                   IN  m.result = s \/ (m.freed /\ v.size = v.cap /\ v.cap > InlineCap)
<1> DEFINE n == Len(s)
<1>1. /\ v \in [kind : {"vector"}, cap : Nat, size : Nat, buf : Nat, elems : [0..v.cap-1 -> Elements]]
      /\ v.size = n /\ Stores(v.elems, s) /\ n \in Nat
  BY LenProperties DEF VectorHolds
<1>2. [i \in 1..n |-> v.elems[i - 1]] = s
  BY <1>1, StoredRead
<1>3. cell_vector_to_list(v) = s
  BY <1>1, <1>2 DEF cell_vector_to_list
<1>4. ASSUME NEW i \in 0..MaxLen PROVE cell_vector_get(v, i) = IF i < n THEN s[i + 1] ELSE NoItem
  <2>1. CASE i < n
    <3>1. i \in 0..n-1
      BY <1>1, <2>1
    <3>2. v.elems[i] = s[i + 1]
      BY <1>1, <3>1 DEF Stores
    <3> QED BY <1>1, <2>1, <3>2 DEF cell_vector_get, LinearConstants
  <2>2. CASE ~(i < n)
    BY <1>1, <2>2 DEF cell_vector_get, LinearConstants
  <2> QED BY <2>1, <2>2
<1>5. ASSUME NEW x PROVE LET m == MappedWhilePushing(v, x)
                         IN  m.result = s \/ (m.freed /\ v.size = v.cap /\ v.cap > InlineCap)
  <2> DEFINE w == cell_vector_push(v, x)
             live == w.buf = v.buf \/ v.buf = 0
             m == MappedWhilePushing(v, x)
  <2>1. /\ m.freed = ~live
        /\ m.result = [i \in 1..v.size |-> IF i = 1 \/ live THEN v.elems[i - 1] ELSE NoItem]
    BY DEF MappedWhilePushing
  <2>2. CASE live
    <3>1. m.result = [i \in 1..n |-> v.elems[i - 1]]
      BY <1>1, <2>1, <2>2
    <3> QED BY <1>2, <3>1
  <2>3. CASE ~live
    <3>1. v.size = v.cap
      <4>1. CASE v.size # v.cap
        <5>1. w = [v EXCEPT !.elems[v.size] = x, !.size = v.size + 1]
          BY <4>1 DEF cell_vector_push
        <5> HIDE DEF w
        <5>2. w.buf = v.buf
          BY <1>1, <5>1
        <5> QED BY <2>3, <5>2
      <4> QED BY <4>1
    <3>2. v.buf # 0
      BY <2>3
    <3>3. v.cap >= HeapCap /\ v.cap \in Nat
      BY <3>2 DEF VectorHolds
    <3>4. v.cap > InlineCap
      BY <3>3 DEF LinearConstants
    <3> QED BY <2>1, <2>3, <3>1, <3>4
  <2> QED BY <2>2, <2>3
<1> QED BY <1>3, <1>4, <1>5

-----------------------------------------------------------------------------
(* The byte buffer *)

LEMMA NewBuffer ==
  ASSUME LinearConstants, NEW n \in Nat
  PROVE  LET b == cell_buffer_new(n)
         IN  /\ b \in [kind : {"buffer"}, cap : Nat \ {0}, size : Nat, bytes : [0..b.cap-1 -> CellItems \cup {0}]]
             /\ b.cap >= n /\ b.size = 0
<1> DEFINE cap == Doubled(BufferMinCap, n)
           b == cell_buffer_new(n)
<1>1. cap \in Nat \ {0} /\ cap >= n
  BY DoubledHolds DEF LinearConstants
<1>2. b = [kind |-> "buffer", cap |-> cap, size |-> 0, bytes |-> [i \in 0..cap-1 |-> 0]]
  BY DEF cell_buffer_new
<1> HIDE DEF cap, b
<1> QED BY <1>1, <1>2 DEF b

(* A buffer filled with a sequence holds it.                                *)
LEMMA Fills ==
  ASSUME LinearConstants, NEW s \in Seq(CellItems)
  PROVE  BufferHolds(Filled(s), s)
<1> DEFINE n == Len(s)
           b == cell_buffer_new(n)
           e == [i \in 0..b.cap-1 |-> IF i < n THEN s[i + 1] ELSE 0]
           w == Filled(s)
<1>1. n \in Nat
  BY LenProperties
<1>2. /\ b \in [kind : {"buffer"}, cap : Nat \ {0}, size : Nat, bytes : [0..b.cap-1 -> CellItems \cup {0}]]
      /\ b.cap >= n
  BY <1>1, NewBuffer
<1>3. w = [b EXCEPT !.size = n, !.bytes = [i \in DOMAIN b.bytes |-> IF i < n THEN s[i + 1] ELSE 0]]
  BY DEF Filled
<1> HIDE DEF b, w
<1>4. DOMAIN b.bytes = 0..b.cap-1
  BY <1>2
<1>5. w = [b EXCEPT !.size = n, !.bytes = e]
  BY <1>3, <1>4
<1>6. e \in [0..b.cap-1 -> CellItems \cup {0}]
  <2>1. ASSUME NEW i \in 0..b.cap-1 PROVE (IF i < n THEN s[i + 1] ELSE 0) \in CellItems \cup {0}
    <3>1. CASE i < n
      <4>1. i + 1 \in 1..n
        BY <1>1, <1>2, <3>1
      <4> QED BY <3>1, <4>1, ElementOfSeq
    <3>2. CASE ~(i < n)
      BY <3>2
    <3> QED BY <3>1, <3>2
  <2> QED BY <2>1
<1>7. Stores(e, s)
  <2>1. ASSUME NEW i \in 0..n-1 PROVE e[i] = s[i + 1]
    <3> DEFINE c == b.cap
    <3>1. c \in Nat /\ c >= n
      BY <1>2
    <3> HIDE DEF c
    <3>2. i \in 0..c-1 /\ i < n
      BY <1>1, <3>1
    <3> QED BY <3>2 DEF c
  <2> HIDE DEF e
  <2> QED BY <2>1 DEF Stores
<1> HIDE DEF e
<1>8. /\ w \in [kind : {"buffer"}, cap : Nat \ {0}, size : Nat, bytes : [0..b.cap-1 -> CellItems \cup {0}]]
      /\ w.cap = b.cap /\ w.size = n /\ w.bytes = e
  BY <1>1, <1>2, <1>5, <1>6
<1> QED BY <1>1, <1>2, <1>7, <1>8 DEF BufferHolds, w

LEMMA BufferRead ==
  ASSUME NEW s \in Seq(CellItems), NEW b, BufferHolds(b, s)
  PROVE  cell_buffer_to_list(b) = s
<1>1. b.size = Len(s) /\ Stores(b.bytes, s)
  BY DEF BufferHolds
<1>2. [i \in 1..Len(s) |-> b.bytes[i - 1]] = s
  BY <1>1, StoredRead
<1> QED BY <1>1, <1>2 DEF cell_buffer_to_list

LEMMA BufferGrows ==
  ASSUME LinearConstants, NEW s \in Seq(CellItems), NEW b, BufferHolds(b, s)
  PROVE  BufferHolds(buffer_grow(b), s) /\ buffer_grow(b).cap = 2 * b.cap
<1> DEFINE n == Len(s)
           cap == 2 * b.cap
           e == [i \in 0..cap-1 |-> IF i < n THEN b.bytes[i] ELSE 0]
           w == buffer_grow(b)
<1>1. /\ b \in [kind : {"buffer"}, cap : Nat \ {0}, size : Nat, bytes : [0..b.cap-1 -> CellItems \cup {0}]]
      /\ b.size = n /\ n <= b.cap /\ n \in Nat /\ Stores(b.bytes, s)
  BY LenProperties DEF BufferHolds
<1>2. w = [b EXCEPT !.cap = cap, !.bytes = e]
  BY <1>1 DEF buffer_grow
<1>3. cap \in Nat \ {0} /\ n <= cap
  BY <1>1
<1>4. e \in [0..cap-1 -> CellItems \cup {0}]
  <2>1. ASSUME NEW i \in 0..cap-1 PROVE (IF i < n THEN b.bytes[i] ELSE 0) \in CellItems \cup {0}
    BY <1>1
  <2> QED BY <2>1
<1> HIDE DEF cap, w
<1>5. Stores(e, s)
  <2>1. ASSUME NEW i \in 0..n-1 PROVE e[i] = b.bytes[i]
    BY <1>1, <1>3
  <2> HIDE DEF e
  <2> QED BY <1>1, <2>1 DEF Stores
<1> HIDE DEF e
<1>6. /\ w \in [kind : {"buffer"}, cap : Nat \ {0}, size : Nat, bytes : [0..cap-1 -> CellItems \cup {0}]]
      /\ w.cap = cap /\ w.size = n /\ w.bytes = e
  BY <1>1, <1>2, <1>3, <1>4
<1> QED BY <1>3, <1>5, <1>6 DEF BufferHolds, w, cap

LEMMA AppendBuffer ==
  ASSUME LinearConstants, NEW s \in Seq(CellItems), NEW b, BufferHolds(b, s), NEW x \in CellItems
  PROVE  BufferHolds(cell_buffer_append(b, x), Append(s, x))
<1> DEFINE n == Len(s)
           r == IF b.size >= b.cap THEN buffer_grow(b) ELSE b
           t == Append(s, x)
           e == [r.bytes EXCEPT ![n] = x]
           k == n + 1
           w == cell_buffer_append(b, x)
<1>1. BufferHolds(r, s) /\ n < r.cap
  <2>1. b.size = n /\ n <= b.cap /\ n \in Nat /\ b.cap \in Nat \ {0}
    BY LenProperties DEF BufferHolds
  <2>2. BufferHolds(buffer_grow(b), s) /\ buffer_grow(b).cap = 2 * b.cap
    BY BufferGrows
  <2> QED BY <2>1, <2>2
<1>2. w = [r EXCEPT !.bytes[r.size] = x, !.size = r.size + 1]
  BY DEF cell_buffer_append
<1> HIDE DEF r
<1>3. /\ r \in [kind : {"buffer"}, cap : Nat \ {0}, size : Nat, bytes : [0..r.cap-1 -> CellItems \cup {0}]]
      /\ r.size = n /\ n \in Nat /\ Stores(r.bytes, s)
  BY <1>1, LenProperties DEF BufferHolds
<1>4. e \in [0..r.cap-1 -> CellItems \cup {0}] /\ Stores(e, t) /\ Len(t) = n + 1
  <2> DEFINE f == r.bytes
             c == r.cap
             E == CellItems \cup {0}
  <2>1. c \in Nat /\ f \in [0..c-1 -> E] /\ CellItems \subseteq E
    BY <1>3
  <2>2. Stores(f, s) /\ Len(s) < c
    BY <1>1, <1>3
  <2> HIDE DEF f, c, E
  <2>3. [f EXCEPT ![Len(s)] = x] \in [0..c-1 -> E]
    BY <2>1, <2>2, StoredBehind
  <2>4. Stores([f EXCEPT ![Len(s)] = x], Append(s, x))
    BY <2>1, <2>2, StoredBehind
  <2>5. Len(Append(s, x)) = Len(s) + 1
    BY <2>1, <2>2, StoredBehind
  <2> QED BY <2>3, <2>4, <2>5 DEF f, c, E
<1> HIDE DEF w, t
<1>5. k \in Nat /\ w = [r EXCEPT !.bytes = e, !.size = k]
  BY <1>2, <1>3
<1> HIDE DEF e, k
<1>6. /\ w \in [kind : {"buffer"}, cap : Nat \ {0}, size : Nat, bytes : [0..r.cap-1 -> CellItems \cup {0}]]
      /\ w.cap = r.cap /\ w.size = k /\ w.bytes = e
  BY <1>3, <1>4, <1>5
<1>7. w.size = Len(t) /\ Len(t) <= w.cap
  BY <1>1, <1>3, <1>4, <1>6 DEF k
<1> QED BY <1>4, <1>6, <1>7 DEF BufferHolds, w, t

LEMMA SetBuffer ==
  ASSUME LinearConstants, NEW s \in Seq(CellItems), NEW b, BufferHolds(b, s),
         NEW i \in 0..Len(s)-1, NEW x \in CellItems
  PROVE  BufferHolds(cell_buffer_set(b, i, x), [s EXCEPT ![i + 1] = x])
<1> DEFINE n == Len(s)
           t == [s EXCEPT ![i + 1] = x]
           e == [b.bytes EXCEPT ![i] = x]
           w == cell_buffer_set(b, i, x)
<1>1. n \in Nat /\ i \in Nat /\ i < n
  BY LenProperties
<1>2. /\ b \in [kind : {"buffer"}, cap : Nat \ {0}, size : Nat, bytes : [0..b.cap-1 -> CellItems \cup {0}]]
      /\ b.size = n /\ Stores(b.bytes, s) /\ n <= b.cap
  BY DEF BufferHolds
<1>3. w = [b EXCEPT !.bytes = e]
  BY <1>2 DEF cell_buffer_set
<1>4. e \in [0..b.cap-1 -> CellItems \cup {0}] /\ Stores(e, t) /\ Len(t) = n
  <2> DEFINE f == b.bytes
             c == b.cap
             k == i + 1
             E == CellItems \cup {0}
  <2>1. c \in Nat /\ f \in [0..c-1 -> E] /\ CellItems \subseteq E
    BY <1>2
  <2>2. Stores(f, s) /\ Len(s) <= c /\ k = i + 1 /\ i \in Nat /\ i < Len(s)
    BY <1>1, <1>2
  <2> HIDE DEF f, c, k, E
  <2>3. [f EXCEPT ![i] = x] \in [0..c-1 -> E]
    BY <2>1, <2>2, StoredAt
  <2>4. Stores([f EXCEPT ![i] = x], [s EXCEPT ![k] = x])
    BY <2>1, <2>2, StoredAt
  <2>5. Len([s EXCEPT ![k] = x]) = Len(s)
    BY <2>1, <2>2, StoredAt
  <2> QED BY <2>3, <2>4, <2>5 DEF f, c, k, E
<1> HIDE DEF e, w, t
<1>5. /\ w \in [kind : {"buffer"}, cap : Nat \ {0}, size : Nat, bytes : [0..b.cap-1 -> CellItems \cup {0}]]
      /\ w.cap = b.cap /\ w.size = b.size /\ w.bytes = e
  BY <1>2, <1>3, <1>4
<1> QED BY <1>2, <1>4, <1>5 DEF BufferHolds, w, t

LEMMA ConcatBuffer ==
  ASSUME LinearConstants, NEW s \in Seq(CellItems), NEW a, BufferHolds(a, s),
         NEW t \in Seq(CellItems), NEW b, BufferHolds(b, t)
  PROVE  BufferHolds(cell_buffer_concat(a, b), s \o t)
  BY BufferRead, ConcatProperties, Fills DEF cell_buffer_concat

LEMMA SliceBuffer ==
  ASSUME LinearConstants, NEW s \in Seq(CellItems), NEW b, BufferHolds(b, s),
         NEW from \in Nat, NEW to \in Nat
  PROVE  BufferHolds(cell_buffer_slice(b, from, to), SubSeq(s, from + 1, Min({to, Len(s)})))
<1> DEFINE n == Len(s)
           c == Clamped(n, from, to)
           t == SubSeq(s, from + 1, Min({to, n}))
           u == SubSeq(s, c.start + 1, c.start + c.len)
<1>1. /\ c.start \in Nat /\ c.len \in Nat /\ c.start + c.len <= n
      /\ t \in Seq(CellItems) /\ Len(t) = c.len
      /\ \A i \in 0..c.len-1 : t[i + 1] = s[c.start + i + 1]
  BY SliceProperties
<1>2. n \in Nat /\ b.size = n /\ cell_buffer_to_list(b) = s
  BY LenProperties, BufferRead DEF BufferHolds
<1>3. cell_buffer_slice(b, from, to) = Filled(u)
  BY <1>2 DEF cell_buffer_slice
<1> HIDE DEF t, n
<1> DEFINE a == c.start
           m == c.len
<1>4. a \in Nat /\ m \in Nat /\ a + m <= n /\ u = SubSeq(s, a + 1, a + m)
  BY <1>1
<1>5. Len(t) = m /\ \A i \in 0..m-1 : t[i + 1] = s[a + i + 1]
  BY <1>1
<1> HIDE DEF a, m, c, u
<1>6. /\ u \in Seq(CellItems) /\ Len(u) = (IF a + 1 <= a + m THEN (a + m) - (a + 1) + 1 ELSE 0)
      /\ \A i \in 1..(a + m) - (a + 1) + 1 : u[i] = s[(a + 1) + i - 1]
  <2>1. \A i \in a + 1..a + m : s[i] \in CellItems
    BY <1>2, <1>4, ElementOfSeq DEF n
  <2> DEFINE p == a + 1
             q == a + m
  <2>2. p \in Int /\ q \in Int /\ \A i \in p..q : s[i] \in CellItems
    BY <1>4, <2>1
  <2> HIDE DEF p, q
  <2>3. /\ SubSeq(s, p, q) \in Seq(CellItems) /\ Len(SubSeq(s, p, q)) = (IF p <= q THEN q - p + 1 ELSE 0)
        /\ \A i \in 1..q - p + 1 : SubSeq(s, p, q)[i] = s[p + i - 1]
    BY <2>2, SubSeqProperties
  <2>4. u = SubSeq(s, p, q)
    BY <1>4 DEF p, q
  <2> QED BY <2>3, <2>4 DEF p, q
<1>7. Len(u) = m
  BY <1>4, <1>6
<1>8. ASSUME NEW i \in 1..m PROVE u[i] = t[i]
  <2>1. i \in 1..(a + m) - (a + 1) + 1 /\ (a + 1) + i - 1 = a + i /\ i - 1 \in 0..m-1
        /\ (i - 1) + 1 = i /\ a + (i - 1) + 1 = a + i
    BY <1>4
  <2>2. u[i] = s[a + i]
    BY <1>6, <2>1
  <2>3. t[(i - 1) + 1] = s[a + (i - 1) + 1]
    BY <1>5, <2>1
  <2> QED BY <2>1, <2>2, <2>3
<1>9. u = t
  BY <1>1, <1>5, <1>6, <1>7, <1>8, SeqEqual
<1>10. BufferHolds(Filled(t), t)
  BY <1>1, Fills
<1> QED BY <1>3, <1>9, <1>10 DEF t, n

(* The way through a string gives the buffer back unless a byte is zero.    *)
LEMMA RoundTrip ==
  ASSUME LinearConstants, NEW s \in Seq(CellItems), NEW b, BufferHolds(b, s)
  PROVE  (cell_buffer_to_list(cell_buffer_from_string(cell_buffer_to_string(b))) = s)
           <=> (0 \notin ToSet(s))
<1> DEFINE n == Len(s)
           zeros == {i \in 1..b.size : b.bytes[i - 1] = 0}
           m == IF zeros = {} THEN n ELSE Min(zeros) - 1
           u == SubSeq(s, 1, m)
<1>1. n \in Nat /\ b.size = n /\ cell_buffer_to_list(b) = s /\ Stores(b.bytes, s) /\ DOMAIN s = 1..n
  BY LenProperties, BufferRead DEF BufferHolds
<1>2. cell_buffer_to_string(b) = u
  BY <1>1 DEF cell_buffer_to_string
<1>3. zeros = {i \in 1..n : s[i] = 0}
  <2>1. ASSUME NEW i \in 1..n PROVE b.bytes[i - 1] = s[i]
    <3>1. i - 1 \in 0..n-1 /\ (i - 1) + 1 = i
      BY <1>1
    <3> QED BY <1>1, <3>1 DEF Stores
  <2> QED BY <1>1, <2>1
<1>4. zeros = {} <=> 0 \notin ToSet(s)
  BY <1>1, <1>3 DEF ToSet
<1> HIDE DEF zeros
<1>5. m \in 0..n /\ (m = n <=> zeros = {})
  <2>1. CASE zeros = {}
    BY <1>1, <2>1
  <2>2. CASE zeros # {}
    <3>1. zeros \subseteq Nat /\ zeros \subseteq 1..n
      BY <1>1, <1>3
    <3>2. Min(zeros) \in 1..n
      BY <2>2, <3>1, MinIsLeast
    <3>3. m = Min(zeros) - 1
      BY <2>2
    <3> QED BY <1>1, <2>2, <3>2, <3>3
  <2> QED BY <2>1, <2>2
<1> HIDE DEF m
<1>6. u \in Seq(CellItems) /\ Len(u) = m
  <2>2. m \in Int /\ m \in Nat /\ m <= n
    <3>1. n \in Nat /\ m \in 0..n
      BY <1>1, <1>5
    <3> HIDE DEF n
    <3> QED BY <3>1
  <2>1. ASSUME NEW i \in 1..m PROVE s[i] \in CellItems
    <3>1. i \in 1..n
      BY <1>1, <2>2
    <3> QED BY <3>1, ElementOfSeq
  <2>3. u \in Seq(CellItems) /\ Len(u) = IF 1 <= m THEN m - 1 + 1 ELSE 0
    BY <2>1, <2>2, SubSeqProperties
  <2> HIDE DEF u
  <2>4. (IF 1 <= m THEN m - 1 + 1 ELSE 0) = m
    BY <2>2
  <2> QED BY <2>3, <2>4
<1>7. cell_buffer_to_list(cell_buffer_from_string(u)) = u
  BY <1>6, Fills, BufferRead DEF cell_buffer_from_string
<1>8. u = s <=> m = n
  <2>1. ASSUME m = n PROVE u = s
    BY <2>1, SubSeqFull
  <2> HIDE DEF u
  <2> QED BY <1>6, <2>1
<1> QED BY <1>2, <1>4, <1>5, <1>7, <1>8

-----------------------------------------------------------------------------
(* The containers *)

LEMMA NewDeque ==
  ASSUME LinearConstants
  PROVE  DequeHolds(cell_deque_new(0), << >>)
<1> DEFINE cap == Doubled(DequeMinCap, 0)
           d == cell_deque_new(0)
<1>1. cap = DequeMinCap /\ cap \in Nat \ {0} /\ IndexMod \in Nat \ {0} /\ IndexMod % cap = 0
  BY DoubledHolds DEF LinearConstants
<1>2. d = [kind |-> "deque", cap |-> cap, head |-> 0, tail |-> 0, buffer |-> [i \in 0..cap-1 |-> NoItem]]
  BY DEF cell_deque_new
<1> HIDE DEF cap, d
<1>3. [i \in 0..cap-1 |-> NoItem] \in [0..cap-1 -> Elements]
  BY DEF Elements
<1>4. Len(<< >>) = 0
  BY EmptySeq
<1>5. 0 \in 0..IndexMod-1 /\ (0 + 0) % IndexMod = 0 /\ 0 <= cap
  BY <1>1
<1>6. d \in [kind : {"deque"}, cap : Nat \ {0}, head : 0..IndexMod-1, tail : 0..IndexMod-1,
             buffer : [0..d.cap-1 -> Elements]]
  BY <1>1, <1>2, <1>3, <1>5
<1>7. d.cap = cap /\ d.head = 0 /\ d.tail = 0 /\ \A j \in 0..cap-1 : d.buffer[j] = NoItem
  BY <1>2
<1> QED BY <1>1, <1>4, <1>5, <1>6, <1>7 DEF DequeHolds, d

LEMMA InitKept == LinearConstants /\ Init => LinearInv
<1> SUFFICES ASSUME LinearConstants, Init PROVE LinearInv
  OBVIOUS
<1>1. spec = << >> /\ spec \in Seq(CellItems) /\ Len(spec) <= MaxLen
  BY EmptySeq DEF Init, LinearConstants
<1>2. CASE obj = cell_deque_new(0)
  BY <1>1, <1>2, NewDeque DEF LinearInv, DequeHolds
<1>3. CASE obj = cell_vector_new(InlineCap)
  BY <1>1, <1>3, NewVector DEF LinearInv, VectorHolds, LinearConstants
<1>4. CASE obj = cell_buffer_new(0)
  <2>1. /\ obj \in [kind : {"buffer"}, cap : Nat \ {0}, size : Nat, bytes : [0..obj.cap-1 -> CellItems \cup {0}]]
        /\ obj.size = 0
    BY <1>4, NewBuffer
  <2>2. Len(spec) = 0 /\ Stores(obj.bytes, spec)
    BY <1>1, EmptySeq DEF Stores
  <2> QED BY <1>1, <2>1, <2>2 DEF LinearInv, BufferHolds
<1> QED BY <1>2, <1>3, <1>4 DEF Init

(* A slice is no longer than what it is taken from.                         *)
LEMMA SliceLength ==
  ASSUME LinearConstants, NEW s \in Seq(CellItems), Len(s) <= MaxLen, NEW from \in Nat, NEW to \in Nat
  PROVE  LET t == SubSeq(s, from + 1, Min({to, Len(s)}))
         IN  t \in Seq(CellItems) /\ Len(t) <= MaxLen
<1> DEFINE t == SubSeq(s, from + 1, Min({to, Len(s)}))
           a == Clamped(Len(s), from, to).start
           m == Clamped(Len(s), from, to).len
<1>1. a \in Nat /\ m \in Nat /\ a + m <= Len(s) /\ t \in Seq(CellItems) /\ Len(t) = m
  BY SliceProperties
<1> HIDE DEF a, m, t
<1>2. Len(s) \in Nat /\ MaxLen \in Nat
  BY LenProperties DEF LinearConstants
<1>3. m <= MaxLen
  BY <1>1, <1>2
<1> QED BY <1>1, <1>3 DEF t

LEMMA StepKept ==
  ASSUME LinearConstants, LinearInv, Next
  PROVE  LinearInv'
<1> PICK x \in CellItems : \/ obj.kind = "deque" /\ prim_deque(x)
                           \/ obj.kind = "vector" /\ prim_vector(x)
                           \/ obj.kind = "buffer" /\ prim_buffer(x)
  BY DEF Next
<1>1. spec \in Seq(CellItems) /\ Len(spec) \in Nat /\ Len(spec) <= MaxLen /\ MaxLen \in Nat /\ Len(spec) < IndexMod
  <2>1. spec \in Seq(CellItems) /\ Len(spec) \in Nat /\ Len(spec) <= MaxLen
    BY LenProperties DEF LinearInv
  <2> QED BY <2>1 DEF LinearConstants
<1>2. Append(spec, x) \in Seq(CellItems) /\ Len(Append(spec, x)) = Len(spec) + 1
  BY <1>1, AppendProperties
<1>3. <<x>> \o spec \in Seq(CellItems) /\ Len(<<x>> \o spec) = Len(spec) + 1
  <2>1. <<x>> \in Seq(CellItems) /\ Len(<<x>>) = 1
    OBVIOUS
  <2>2. <<x>> \o spec \in Seq(CellItems) /\ Len(<<x>> \o spec) = Len(<<x>>) + Len(spec)
    BY <1>1, <2>1, ConcatProperties
  <2> QED BY <1>1, <2>1, <2>2
<1>4. spec # << >> => Tail(spec) \in Seq(CellItems) /\ Len(Tail(spec)) = Len(spec) - 1
  BY <1>1, HeadTailProperties
<1>5. spec # << >> => Front(spec) \in Seq(CellItems) /\ Len(Front(spec)) = Len(spec) - 1
  BY <1>1, FrontProperties
<1>6. \A i \in 0..Len(spec)-1 : /\ [spec EXCEPT ![i + 1] = x] \in Seq(CellItems)
                                /\ Len([spec EXCEPT ![i + 1] = x]) = Len(spec)
  <2> TAKE i \in 0..Len(spec)-1
  <2> DEFINE k == i + 1
  <2>1. k \in 1..Len(spec)
    BY <1>1
  <2> HIDE DEF k
  <2>2. [spec EXCEPT ![k] = x] \in Seq(CellItems) /\ Len([spec EXCEPT ![k] = x]) = Len(spec)
    BY <1>1, <2>1, ExceptSeq
  <2> QED BY <2>2 DEF k
<1>7. \A from, to \in 0..MaxLen : LET t == SubSeq(spec, from + 1, Min({to, Len(spec)}))
                                  IN  t \in Seq(CellItems) /\ Len(t) <= MaxLen
  <2> TAKE from, to \in 0..MaxLen
  <2>1. from \in Nat /\ to \in Nat
    BY <1>1
  <2> QED BY <1>1, <2>1, SliceLength
<1>8. CASE obj.kind = "deque" /\ prim_deque(x)
  <2>1. DequeHolds(obj, spec)
    BY <1>8 DEF LinearInv
  <2>2. CASE Len(spec) < MaxLen /\ obj' = cell_deque_push_front(obj, x) /\ spec' = <<x>> \o spec
    <3>1. DequeHolds(obj', spec')
      BY <1>1, <2>1, <2>2, PushFrontHolds
    <3> QED BY <1>1, <1>3, <2>2, <3>1 DEF LinearInv, DequeHolds
  <2>3. CASE Len(spec) < MaxLen /\ obj' = cell_deque_push_back(obj, x) /\ spec' = Append(spec, x)
    <3>1. DequeHolds(obj', spec')
      BY <1>1, <2>1, <2>3, PushBackHolds
    <3> QED BY <1>1, <1>2, <2>3, <3>1, SMTT(30) DEF LinearInv, DequeHolds
  <2>4. CASE spec # << >> /\ obj' = cell_deque_pop_front(obj) /\ spec' = Tail(spec)
    <3>1. DequeHolds(obj', spec')
      BY <1>1, <2>1, <2>4, PopFrontHolds
    <3> QED BY <1>1, <1>4, <2>4, <3>1 DEF LinearInv, DequeHolds
  <2>5. CASE spec # << >> /\ obj' = cell_deque_pop_back(obj) /\ spec' = Front(spec)
    <3>1. DequeHolds(obj', spec')
      BY <1>1, <2>1, <2>5, PopBackHolds
    <3> QED BY <1>1, <1>5, <2>5, <3>1 DEF LinearInv, DequeHolds
  <2> QED BY <1>8, <2>2, <2>3, <2>4, <2>5 DEF prim_deque
<1>9. CASE obj.kind = "vector" /\ prim_vector(x)
  <2>1. VectorHolds(obj, spec)
    BY <1>9 DEF LinearInv
  <2>2. CASE Len(spec) < MaxLen /\ obj' = cell_vector_push(obj, x) /\ spec' = Append(spec, x)
    <3>1. VectorHolds(obj', spec')
      BY <1>1, <2>1, <2>2, PushVector
    <3> QED BY <1>1, <1>2, <2>2, <3>1 DEF LinearInv, VectorHolds
  <2>3. CASE spec # << >> /\ obj' = cell_vector_pop(obj) /\ spec' = Front(spec)
    <3>1. VectorHolds(obj', spec')
      BY <1>1, <2>1, <2>3, PopVector
    <3> QED BY <1>1, <1>5, <2>3, <3>1 DEF LinearInv, VectorHolds
  <2>4. ASSUME NEW i \in 0..Len(spec)-1, obj' = cell_vector_set(obj, i, x), spec' = [spec EXCEPT ![i + 1] = x]
        PROVE  LinearInv'
    <3>1. VectorHolds(obj', spec')
      BY <1>1, <2>1, <2>4, SetVector
    <3>2. spec' \in Seq(CellItems) /\ Len(spec') <= MaxLen
      BY <1>1, <1>6, <2>4
    <3> QED BY <3>1, <3>2 DEF LinearInv, VectorHolds
  <2>5. ASSUME NEW from \in 0..MaxLen, NEW to \in 0..MaxLen, obj' = cell_vector_slice(obj, from, to),
               spec' = SubSeq(spec, from + 1, Min({to, Len(spec)}))
        PROVE  LinearInv'
    <3>1. VectorHolds(obj', spec')
      BY <1>1, <2>1, <2>5, SliceVector
    <3>2. spec' \in Seq(CellItems) /\ Len(spec') <= MaxLen
      BY <1>7, <2>5
    <3> QED BY <3>1, <3>2 DEF LinearInv, VectorHolds
  <2> QED BY <1>9, <2>2, <2>3, <2>4, <2>5 DEF prim_vector
<1>10. CASE obj.kind = "buffer" /\ prim_buffer(x)
  <2>1. BufferHolds(obj, spec)
    BY <1>10 DEF LinearInv
  <2>2. CASE Len(spec) < MaxLen /\ obj' = cell_buffer_append(obj, x) /\ spec' = Append(spec, x)
    <3>1. BufferHolds(obj', spec')
      BY <1>1, <2>1, <2>2, AppendBuffer
    <3> QED BY <1>1, <1>2, <2>2, <3>1 DEF LinearInv, BufferHolds
  <2>3. ASSUME NEW i \in 0..Len(spec)-1, obj' = cell_buffer_set(obj, i, x), spec' = [spec EXCEPT ![i + 1] = x]
        PROVE  LinearInv'
    <3>1. BufferHolds(obj', spec')
      BY <1>1, <2>1, <2>3, SetBuffer
    <3>2. spec' \in Seq(CellItems) /\ Len(spec') <= MaxLen
      BY <1>1, <1>6, <2>3
    <3> QED BY <3>1, <3>2 DEF LinearInv, BufferHolds
  <2>4. ASSUME NEW from \in 0..MaxLen, NEW to \in 0..MaxLen, obj' = cell_buffer_slice(obj, from, to),
               spec' = SubSeq(spec, from + 1, Min({to, Len(spec)}))
        PROVE  LinearInv'
    <3>1. BufferHolds(obj', spec')
      BY <1>1, <2>1, <2>4, SliceBuffer
    <3>2. spec' \in Seq(CellItems) /\ Len(spec') <= MaxLen
      BY <1>7, <2>4
    <3> QED BY <3>1, <3>2 DEF LinearInv, BufferHolds
  <2>5. CASE 2 * Len(spec) <= MaxLen /\ obj' = cell_buffer_concat(obj, obj) /\ spec' = spec \o spec
    <3>1. BufferHolds(obj', spec')
      BY <1>1, <2>1, <2>5, ConcatBuffer
    <3>2. spec' \in Seq(CellItems) /\ Len(spec') = Len(spec) + Len(spec)
      BY <1>1, <2>5, ConcatProperties
    <3> QED BY <1>1, <2>5, <3>1, <3>2 DEF LinearInv, BufferHolds
  <2> QED BY <1>10, <2>2, <2>3, <2>4, <2>5 DEF prim_buffer
<1> QED BY <1>8, <1>9, <1>10

LEMMA StutterKept == LinearInv /\ UNCHANGED <<obj, spec>> => LinearInv'
BY SMTT(60) DEF LinearInv, DequeHolds, VectorHolds, BufferHolds, Stores

LEMMA LinearImplies ==
  ASSUME LinearConstants, LinearInv
  PROVE  DequeAgrees /\ VectorAgrees /\ BufferAgrees
<1>1. spec \in Seq(CellItems) /\ Len(spec) < IndexMod
  <2>1. spec \in Seq(CellItems) /\ Len(spec) \in Nat /\ Len(spec) <= MaxLen
    BY LenProperties DEF LinearInv
  <2> QED BY <2>1 DEF LinearConstants
<1>2. ASSUME obj.kind = "deque" PROVE DequeAgrees
  <2>1. DequeHolds(obj, spec)
    BY <1>2 DEF LinearInv
  <2> QED BY <1>1, <2>1, DequeAnswers DEF DequeAgrees
<1>3. ASSUME obj.kind = "vector" PROVE VectorAgrees
  <2>1. VectorHolds(obj, spec)
    BY <1>3 DEF LinearInv
  <2> QED BY <1>1, <2>1, VectorAnswers DEF VectorAgrees
<1>4. ASSUME obj.kind = "buffer" PROVE BufferAgrees
  <2>1. BufferHolds(obj, spec)
    BY <1>4 DEF LinearInv
  <2> QED BY <1>1, <2>1, BufferRead, RoundTrip DEF BufferAgrees
<1> QED BY <1>2, <1>3, <1>4 DEF DequeAgrees, VectorAgrees, BufferAgrees

(* Whatever is pushed, popped, set, sliced or joined, a container answers   *)
(* like the sequence it stands for (cell_deque_*, cell_vector_* and         *)
(* cell_buffer_* of cell.c), for any elements, capacities and lengths.      *)
THEOREM LinearCellsInvariant ==
  ASSUME LinearConstants
  PROVE  Init /\ [][Next]_<<obj, spec>> => [](LinearInv /\ DequeAgrees /\ VectorAgrees /\ BufferAgrees)
<1>1. LinearInv /\ [Next]_<<obj, spec>> => LinearInv'
  BY StepKept, StutterKept
<1> QED BY <1>1, InitKept, LinearImplies, PTL
=============================================================================
