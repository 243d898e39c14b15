------------------------------- MODULE Strings --------------------------------
(* The string primitives.  A string is a sequence of bytes without a zero,   *)
(* and every operation works on bytes; indices count from 0.  Searching      *)
(* looks at ChunkWidth positions at once and goes on one by one where no     *)
(* whole chunk is left.                                                      *)
EXTENDS Integers, Sequences, FiniteSets, SequencesExt

CONSTANTS
  Words,                \* bytes 1 to 255: what strings are built from and searched for
  Counts,               \* the numeric arguments
  ChunkWidth,
  MaxText, MaxTextOps,
  NoIndex

VARIABLES obj, spec

(* text: the string worked on; spec.ops counts the operations.               *)
Init == obj = [text |-> << >>] /\ spec = [ops |-> 0]

At(s, i) == s[i + 1]
Slice(s, from, upto) == SubSeq(s, from + 1, upto)

-----------------------------------------------------------------------------
(* Searching (str_simd.h). *)

RECURSIVE FindCharFrom(_, _, _)
FindCharFrom(s, c, i) ==
  LET hits == {b \in 0..ChunkWidth - 1 : At(s, i + b) = c}
  IN  IF i + ChunkWidth <= Len(s)
      THEN IF hits # {} THEN i + (CHOOSE b \in hits : \A d \in hits : b <= d) ELSE FindCharFrom(s, c, i + ChunkWidth)
      ELSE IF i >= Len(s) THEN NoIndex
      ELSE IF At(s, i) = c THEN i ELSE FindCharFrom(s, c, i + 1)
str_simd_find_char(s, c) == FindCharFrom(s, c, 0)

\* Whole chunks from the end; what is left at the front one by one.
RECURSIVE RfindCharFrom(_, _, _)
RfindCharFrom(s, c, tail) ==
  LET low == tail - ChunkWidth
      hits == {b \in 0..ChunkWidth - 1 : At(s, low + b) = c}
      front == {b \in 0..tail - 1 : At(s, b) = c}
  IN  IF low >= 0
      THEN IF hits # {} THEN low + (CHOOSE b \in hits : \A d \in hits : b >= d) ELSE RfindCharFrom(s, c, low)
      ELSE IF front = {} THEN NoIndex ELSE CHOOSE b \in front : \A d \in front : b >= d
str_simd_rfind_char(s, c) == RfindCharFrom(s, c, Len(s))

\* First and last byte together, then the bytes between.
Ends(h, n, i) == At(h, i) = At(n, 0) /\ At(h, i + Len(n) - 1) = At(n, Len(n) - 1)
Between(h, n, i) == Len(n) <= 2 \/ Slice(h, i + 1, i + Len(n) - 1) = Slice(n, 1, Len(n) - 1)

\* Only the first place of a chunk where both ends fit is compared.
FindSubstrFrom_first(h, n, start) ==
  LET scan_end == Len(h) - Len(n)
      chunk(i) == {b \in 0..ChunkWidth - 1 : i + b <= scan_end /\ Ends(h, n, i + b)}
      first(i) == CHOOSE b \in chunk(i) : \A d \in chunk(i) : b <= d
      scan[i \in 0..Len(h) + ChunkWidth] ==
        IF i + ChunkWidth <= scan_end + 1
        THEN IF chunk(i) # {} /\ Between(h, n, i + first(i)) THEN i + first(i) ELSE scan[i + ChunkWidth]
        ELSE IF i > scan_end THEN NoIndex
        ELSE IF Ends(h, n, i) /\ Between(h, n, i) THEN i ELSE scan[i + 1]
  IN  scan[start]

FindSubstrFrom(h, n, start) ==
  LET scan_end == Len(h) - Len(n)
      hits(i) == {b \in 0..ChunkWidth - 1 : i + b <= scan_end /\ Ends(h, n, i + b) /\ Between(h, n, i + b)}
      scan[i \in 0..Len(h) + ChunkWidth] ==
        IF i + ChunkWidth <= scan_end + 1
        THEN IF hits(i) # {} THEN i + (CHOOSE b \in hits(i) : \A d \in hits(i) : b <= d) ELSE scan[i + ChunkWidth]
        ELSE IF i > scan_end THEN NoIndex
        ELSE IF Ends(h, n, i) /\ Between(h, n, i) THEN i ELSE scan[i + 1]
  IN  scan[start]

str_simd_find_substr(h, n) ==
  IF n = << >> THEN 0
  ELSE IF Len(n) > Len(h) THEN NoIndex
  ELSE IF Len(n) = 1 THEN str_simd_find_char(h, n[1])
  ELSE FindSubstrFrom(h, n, 0)

str_simd_rfind_substr(h, n) ==
  LET hits == {i \in 0..Len(h) - Len(n) : Ends(h, n, i) /\ Between(h, n, i)}
  IN  IF n = << >> THEN Len(h)
      ELSE IF Len(n) > Len(h) THEN NoIndex
      ELSE IF Len(n) = 1 THEN str_simd_rfind_char(h, n[1])
      ELSE IF hits = {} THEN NoIndex ELSE CHOOSE i \in hits : \A j \in hits : i >= j

str_is_whitespace(c) == c \in {32, 9, 10, 13}
\* Chunks of whitespace are passed over whole.
RECURSIVE NonWhitespaceFrom(_, _)
NonWhitespaceFrom(s, i) ==
  LET hits == {b \in 0..ChunkWidth - 1 : ~str_is_whitespace(At(s, i + b))}
  IN  IF i + ChunkWidth <= Len(s)
      THEN IF hits # {} THEN i + (CHOOSE b \in hits : \A d \in hits : b <= d) ELSE NonWhitespaceFrom(s, i + ChunkWidth)
      ELSE IF i >= Len(s) THEN NoIndex
      ELSE IF ~str_is_whitespace(At(s, i)) THEN i ELSE NonWhitespaceFrom(s, i + 1)
str_simd_find_non_whitespace(s) == NonWhitespaceFrom(s, 0)

-----------------------------------------------------------------------------
(* Questions about strings. *)

prim_str_length(s) == Len(s)
prim_str_ref(s, i) == IF i < 0 \/ i >= Len(s) THEN NoIndex ELSE At(s, i)
prim_str_char_code(s, i) == IF i < 0 \/ i >= Len(s) THEN NoIndex ELSE At(s, i)
prim_code_to_char(c) == IF c = 0 THEN << >> ELSE <<c>>
prim_str_equal(s, t) == s = t
\* strcmp: the first byte that differs decides, the end counts as zero.
prim_str_less(s, t) ==
  LET byte(u, i) == IF i <= Len(u) THEN u[i] ELSE 0
      differ == {i \in 1..Len(s) + 1 : byte(s, i) # byte(t, i)}
      i == CHOOSE i \in differ : \A j \in differ : i <= j
  IN  differ # {} /\ byte(s, i) < byte(t, i)
prim_str_find(s, n) == IF n = << >> THEN 0 ELSE str_simd_find_substr(s, n)
prim_str_rfind(s, n) == IF n = << >> THEN Len(s) ELSE str_simd_rfind_substr(s, n)
prim_str_contains(s, n) == n = << >> \/ str_simd_find_substr(s, n) # NoIndex
prim_str_starts_with(s, p) == p = << >> \/ (Len(p) <= Len(s) /\ Slice(s, 0, Len(p)) = p)
prim_str_ends_with(s, x) == x = << >> \/ (Len(x) <= Len(s) /\ Slice(s, Len(s) - Len(x), Len(s)) = x)

\* Both searches of replace and split: the text before each of the first most
\* occurrences, and the rest; an occurrence begins where the last one ended.
RECURSIVE Pieces(_, _, _)
Pieces(s, n, most) ==
  LET i == str_simd_find_substr(s, n)
  IN  IF Len(s) < Len(n) \/ most = 0 \/ i = NoIndex THEN <<s>>
      ELSE <<Slice(s, 0, i)>> \o Pieces(Slice(s, i + Len(n), Len(s)), n, most - 1)

prim_str_count(s, n) == IF n = << >> THEN 0 ELSE Len(Pieces(s, n, Len(s))) - 1

-----------------------------------------------------------------------------
(* Strings made from strings. *)

Mapped(s, Op(_)) == [i \in DOMAIN s |-> Op(s[i])]
prim_str_concat(s, t) == s \o t
prim_str_upcase(s) == Mapped(s, LAMBDA c : IF c \in 97..122 THEN c - 32 ELSE c)
prim_str_downcase(s) == Mapped(s, LAMBDA c : IF c \in 65..90 THEN c + 32 ELSE c)
prim_str_reverse(s) == [i \in DOMAIN s |-> s[Len(s) + 1 - i]]
prim_str_repeat(s, n) == IF n <= 0 THEN << >> ELSE FlattenSeq([i \in 1..n |-> s])
prim_str_slice(s, start, end) ==
  LET e == IF end > Len(s) THEN Len(s) ELSE end
      b == IF start < 0 THEN 0 ELSE start
  IN  IF b > e THEN << >> ELSE Slice(s, b, e)

Joined(parts, w) == FlattenSeq([i \in DOMAIN parts |-> IF i = 1 THEN parts[i] ELSE w \o parts[i]])
\* The size that is allocated before the result is written.
ReplacedLen(s, n, w, most) == LET k == Len(Pieces(s, n, most)) - 1 IN Len(s) - k * Len(n) + k * Len(w)
prim_str_replace(s, n, w) == IF n = << >> THEN s ELSE Joined(Pieces(s, n, Len(s)), w)
prim_str_replacen(s, n, w, most) == IF n = << >> \/ most <= 0 THEN s ELSE Joined(Pieces(s, n, most), w)

LastInk(s) == LET ink == {i \in 1..Len(s) : ~str_is_whitespace(s[i])}
              IN  IF ink = {} THEN 0 ELSE CHOOSE i \in ink : \A j \in ink : i >= j
prim_str_trim_left(s) ==
  LET i == str_simd_find_non_whitespace(s) IN IF i = NoIndex THEN << >> ELSE Slice(s, i, Len(s))
prim_str_trim_right(s) == Slice(s, 0, LastInk(s))
prim_str_trim(s) ==
  LET i == str_simd_find_non_whitespace(s) IN IF i = NoIndex THEN << >> ELSE Slice(s, i, LastInk(s))

prim_str_split(s, d) ==
  IF s = << >> THEN << >> ELSE IF d = << >> THEN [i \in DOMAIN s |-> <<s[i]>>] ELSE Pieces(s, d, Len(s))
prim_str_splitn(s, d, n) ==
  IF s = << >> THEN << >> ELSE IF n <= 1 \/ d = << >> THEN <<s>> ELSE Pieces(s, d, n - 1)

RECURSIVE Tokens(_, _)
Tokens(s, i) ==
  LET stops == {j \in i + 1..Len(s) : j = Len(s) \/ str_is_whitespace(At(s, j))}
      end == CHOOSE j \in stops : \A k \in stops : j <= k
  IN  IF i >= Len(s) THEN << >>
      ELSE IF str_is_whitespace(At(s, i)) THEN Tokens(s, i + 1)
      ELSE <<Slice(s, i, end)>> \o Tokens(s, end)
prim_str_fields(s) == Tokens(s, 0)

Padding(s, width, f) == [i \in 1..width - Len(s) |-> At(f, (i - 1) % Len(f))]
prim_str_pad_left(s, width, f) == IF Len(s) >= width \/ f = << >> THEN s ELSE Padding(s, width, f) \o s
prim_str_pad_right(s, width, f) == IF Len(s) >= width \/ f = << >> THEN s ELSE s \o Padding(s, width, f)
prim_str_strip_prefix(s, p) ==
  IF p = << >> \/ Len(p) > Len(s) \/ Slice(s, 0, Len(p)) # p THEN s ELSE Slice(s, Len(p), Len(s))
prim_str_strip_suffix(s, x) ==
  IF x = << >> \/ Len(x) > Len(s) \/ Slice(s, Len(s) - Len(x), Len(s)) # x THEN s ELSE Slice(s, 0, Len(s) - Len(x))

-----------------------------------------------------------------------------

Becomes(s) ==
  /\ Len(s) <= MaxText
  /\ obj' = [obj EXCEPT !.text = s] /\ spec' = [spec EXCEPT !.ops = @ + 1]

Next ==
  /\ spec.ops < MaxTextOps
  /\ \/ \E w \in Words, n \in Counts :
          \/ Becomes(prim_str_concat(obj.text, w)) \/ Becomes(prim_str_concat(w, obj.text))
          \/ Becomes(prim_str_pad_left(obj.text, n, w)) \/ Becomes(prim_str_pad_right(obj.text, n, w))
          \/ \E v \in Words : Becomes(prim_str_replacen(obj.text, w, v, n))
     \/ Becomes(prim_str_upcase(obj.text)) \/ Becomes(prim_str_reverse(obj.text))
     \/ \E n \in Counts : Becomes(prim_str_repeat(obj.text, n))

-----------------------------------------------------------------------------

\* What searching means: the places where the word stands.
Places(s, n) == {i \in 0..Len(s) - Len(n) : Slice(s, i, i + Len(n)) = n}
IsLeast(i, S) == IF S = {} THEN i = NoIndex ELSE i \in S /\ \A j \in S : i <= j
IsGreatest(i, S) == IF S = {} THEN i = NoIndex ELSE i \in S /\ \A j \in S : i >= j

\* Searching by chunks finds the first and the last place, whatever the length
\* of the text is to the chunk, and the other questions agree with it.
SearchExact ==
  \A n \in Words :
    LET s == obj.text
    IN  /\ IsLeast(prim_str_find(s, n), Places(s, n))
        /\ IsGreatest(prim_str_rfind(s, n), Places(s, n))
        /\ prim_str_contains(s, n) = (Places(s, n) # {})
        /\ prim_str_starts_with(s, n) = (0 \in Places(s, n))
        /\ prim_str_ends_with(s, n) = (Len(s) - Len(n) \in Places(s, n))
        /\ prim_str_less(s, n) => ~prim_str_less(n, s) /\ ~prim_str_equal(s, n)
        /\ prim_str_less(s, n) \/ prim_str_less(n, s) \/ prim_str_equal(s, n)

\* Splitting is undone by joining, at most as often as asked, and leaves no
\* delimiter; replacing fills exactly the buffer that was allocated and equals
\* joining the split; counting counts the splits.
SplitExact ==
  \A n \in Words : n # << >> /\ obj.text # << >> =>
    LET s == obj.text
        parts == prim_str_split(s, n)
    IN  /\ Joined(parts, n) = s
        /\ \A i \in DOMAIN parts : Places(parts[i], n) = {}
        /\ prim_str_count(s, n) = Len(parts) - 1
        /\ \A k \in Counts :
             LET some == prim_str_splitn(s, n, k)
             IN  /\ Joined(some, n) = s
                 /\ Len(some) <= (IF k < 1 THEN 1 ELSE k)
                 /\ Len(some) < Len(parts) => Len(some) = (IF k < 1 THEN 1 ELSE k)
        /\ \A w \in Words :
             /\ prim_str_replace(s, n, w) = Joined(parts, w)
             /\ Len(prim_str_replace(s, n, w)) = ReplacedLen(s, n, w, Len(s))
             /\ \A k \in Counts : k > 0 =>
                  /\ Len(prim_str_replacen(s, n, w, k)) = ReplacedLen(s, n, w, k)
                  /\ prim_str_replacen(s, n, w, k) = Joined(prim_str_splitn(s, n, k + 1), w)

\* Trimming, taking the fields, slicing and padding lose no byte but whitespace
\* and add none but the fill; the inverse of each gives the text back.
EdgesExact ==
  LET s == obj.text
      ink(t) == SelectSeq(t, LAMBDA c : ~str_is_whitespace(c))
      clean(t) == t = << >> \/ (~str_is_whitespace(t[1]) /\ ~str_is_whitespace(t[Len(t)]))
  IN  /\ clean(prim_str_trim(s)) /\ ink(prim_str_trim(s)) = ink(s)
      /\ prim_str_trim_right(prim_str_trim_left(s)) = prim_str_trim(s)
      /\ FlattenSeq(prim_str_fields(s)) = ink(s)
      /\ \A i \in DOMAIN prim_str_fields(s) : prim_str_fields(s)[i] # << >>
      /\ prim_str_downcase(prim_str_upcase(s)) = prim_str_downcase(s)
      /\ prim_str_reverse(prim_str_reverse(s)) = s
      /\ \A n \in Counts :
           /\ (prim_str_ref(s, n) = NoIndex) = (n \notin 0..prim_str_length(s) - 1)
           /\ prim_str_char_code(s, n) # NoIndex =>
                prim_code_to_char(prim_str_char_code(s, n)) = prim_str_slice(s, n, n + 1)
           /\ \A m \in Counts : n <= m => prim_str_slice(s, 0, n) \o prim_str_slice(s, n, m) = prim_str_slice(s, 0, m)
           /\ \A f \in Words \ {<< >>} :
                LET wide == IF n > Len(s) THEN n ELSE Len(s)
                IN  /\ Len(prim_str_pad_left(s, n, f)) = wide /\ Len(prim_str_pad_right(s, n, f)) = wide
                    /\ prim_str_ends_with(prim_str_pad_left(s, n, f), s)
                    /\ prim_str_starts_with(prim_str_pad_right(s, n, f), s)
      /\ \A w \in Words : /\ prim_str_strip_prefix(w \o s, w) = s /\ prim_str_strip_suffix(s \o w, w) = s
                          /\ ~prim_str_starts_with(s, w) => prim_str_strip_prefix(s, w) = s

StringsSound == SearchExact /\ SplitExact /\ EdgesExact
=============================================================================
