------------------------------ MODULE Refinements -----------------------------
(* Refinement types: a name with a base type and a predicate.  A predicate   *)
(* is answered by a compiled comparison, by a tree of comparisons taken from *)
(* the body of its lambda, or by the lambda; answers are remembered in a     *)
(* table that is not told of redefinitions.                                  *)
EXTENDS Integers, Sequences, FiniteSets, SequencesExt

CONSTANTS
  RefineNames,
  RefinePreds,          \* bodies of lambdas
  RefineBases,          \* some of "number", "string", "any"
  RefineValues,         \* [type |-> "number", halves |-> n] : a number is counted in halves
  SharedSlot,           \* values whose answers fall into one place of the table
  RefineAnds, RefineOrs,  \* the names the combinations get, in order
  MaxRefineOps,
  Nil

VARIABLES obj, spec

(* spec.fresh: remembered answers that rest on no definition replaced since;  *)
(* spec.order: the names registered since the last replacement, newest first. *)
Init ==
  /\ obj = [defs |-> [n \in RefineNames \cup ToSet(RefineAnds) \cup ToSet(RefineOrs) |-> Nil],
            list |-> << >>, cache |-> {}, ands |-> 0, ors |-> 0, ops |-> 0]
  /\ spec = [fresh |-> {}, order |-> << >>]

refine_lookup_by_name(n) == obj.defs[n]
Known(n) == obj.defs[n] # Nil

-----------------------------------------------------------------------------
(* Predicates.  The body of a lambda is a comparison of the parameter with a *)
(* number, a remainder, a combination of two, or something else of which     *)
(* only the values it holds for matter.                                      *)

IsNumber(v) == v.type = "number"
Whole(v) == v.halves % 2 = 0
Trunc(v) == IF v.halves >= 0 THEN v.halves \div 2 ELSE -((-v.halves) \div 2)
Compare(op, a, b) ==
  CASE op = "gt" -> a > b [] op = "ge" -> a >= b [] op = "lt" -> a < b
    [] op = "le" -> a <= b [] op = "eq" -> a = b [] op = "ne" -> a # b
Comparisons == {"gt", "ge", "lt", "le", "eq", "ne"}
\* The remainder has the sign of what is divided.
Rem(a, k) == IF a >= 0 THEN a % k ELSE -((-a) % k)

\* The lambda itself: true, false or an error.
RECURSIVE LambdaHolds(_, _)
LambdaHolds(p, v) ==
  LET truth(b) == IF b THEN "t" ELSE "f"
  IN  CASE p.op \in {"eq", "ne"} /\ ~IsNumber(v) -> truth(p.op = "ne")
        [] p.op \in Comparisons \ {"eq", "ne"} /\ ~IsNumber(v) -> "e"
        [] p.op \in Comparisons /\ IsNumber(v) -> truth(Compare(p.op, v.halves, 2 * p.n))
        [] p.op = "mod" -> IF IsNumber(v) THEN truth(Rem(v.halves, 2 * p.k) = 2 * p.r) ELSE "e"
        [] p.op = "not" -> LET r == LambdaHolds(p.sub, v)
                           IN  IF r = "e" THEN "e" ELSE truth(r = "f")
        [] p.op = "and" -> IF LambdaHolds(p.l, v) = "t" THEN LambdaHolds(p.r, v) ELSE LambdaHolds(p.l, v)
        [] p.op = "or" -> IF LambdaHolds(p.l, v) = "f" THEN LambdaHolds(p.r, v) ELSE LambdaHolds(p.l, v)
        [] p.op = "other" -> truth(v \in p.holds)

\* The tree, when every part of the body has a known form; a lower and an upper
\* bound become one range.
RECURSIVE extract_constraint(_)
extract_constraint(p) ==
  LET l == extract_constraint(p.l)
      r == extract_constraint(p.r)
  IN  CASE p.op = "other" -> Nil
        [] p.op = "not" -> LET c == extract_constraint(p.sub) IN IF c = Nil THEN Nil ELSE [op |-> "not", sub |-> c]
        [] p.op \in {"and", "or"} ->
             IF l = Nil \/ r = Nil THEN Nil
             ELSE IF p.op = "and" /\ l.op = "ge" /\ r.op = "le" THEN [op |-> "range", lo |-> l.n, hi |-> r.n]
             ELSE [op |-> p.op, l |-> l, r |-> r]
        [] OTHER -> p

rcon_eval_leaf(c, h) ==
  CASE c.op = "range" -> h >= 2 * c.lo /\ h <= 2 * c.hi
    [] c.op = "mod" -> Rem(Trunc([halves |-> h]), c.k) = c.r
    [] c.op \in Comparisons -> Compare(c.op, h, 2 * c.n)
RECURSIVE rcon_eval(_, _)
rcon_eval(c, v) ==
  CASE c.op = "and" -> rcon_eval(c.l, v) /\ rcon_eval(c.r, v)
    [] c.op = "or" -> rcon_eval(c.l, v) \/ rcon_eval(c.r, v)
    [] c.op = "not" -> ~rcon_eval(c.sub, v)
    [] OTHER -> IsNumber(v) /\ rcon_eval_leaf(c, v.halves)

IsLeaf(c) == c # Nil /\ c.op \notin {"and", "or", "not"}
\* Compiled forms are the leaves; other trees are walked; the rest is evaluated.
compiled_pred(c, v) == IsNumber(v) /\ rcon_eval_leaf(c, v.halves)
refine_eval_predicate(d, v) ==
  IF IsLeaf(d.constraint) /\ d.parents = << >> THEN compiled_pred(d.constraint, v)
  ELSE IF d.constraint # Nil THEN rcon_eval(d.constraint, v)
  ELSE LambdaHolds(d.lambda, v) = "t"

-----------------------------------------------------------------------------
(* Checking a value. *)

value_matches_type(v, base) == base = "any" \/ v.type = base

Slot(n, v) == IF v \in SharedSlot THEN <<"shared", "">> ELSE <<n, v>>
\* Without the name in the key.
pred_cache_lookup_anyname(cache, n, v) == {e \in cache : e.val = v}

pred_cache_lookup(cache, n, v) == {e \in cache : e.name = n /\ e.val = v}
pred_cache_store(cache, n, v, r) ==
  {e \in cache : IF v \in SharedSlot THEN e.val \notin SharedSlot ELSE e.name # n \/ e.val # v}
    \cup {[name |-> n, val |-> v, result |-> r]}

\* The answer and the table afterwards; a base type that does not fit is not remembered.
RECURSIVE refine_check_value(_, _, _)
refine_check_value(cache, n, v) ==
  LET d == obj.defs[n]
      hits == pred_cache_lookup(cache, n, v)
      first == refine_check_value(cache, d.parents[1], v)
      second == refine_check_value(first.cache, d.parents[2], v)
      r == IF d.parents = << >> THEN [ok |-> refine_eval_predicate(d, v), cache |-> cache]
           ELSE [ok |-> IF d.is_and THEN first.ok /\ second.ok ELSE first.ok \/ second.ok, cache |-> second.cache]
  IN  IF ~value_matches_type(v, d.base) THEN [ok |-> FALSE, cache |-> cache]
      ELSE IF hits # {} THEN [ok |-> (CHOOSE e \in hits : TRUE).result, cache |-> cache]
      ELSE [ok |-> r.ok, cache |-> pred_cache_store(r.cache, n, v, r.ok)]

\* The listed names in turn until one accepts the value.
RECURSIVE FindFrom(_, _, _)
FindFrom(cache, i, v) ==
  LET r == refine_check_value(cache, obj.list[i], v)
  IN  IF i > Len(obj.list) THEN [found |-> Nil, cache |-> cache]
      ELSE IF r.ok THEN [found |-> obj.list[i], cache |-> r.cache] ELSE FindFrom(r.cache, i + 1, v)

-----------------------------------------------------------------------------
(* Definitions. *)

\* Every name whose answers depend on the given one.
RECURSIVE DependsOn(_, _)
DependsOn(m, n) ==
  m = n \/ (Known(m) /\ \E i \in DOMAIN obj.defs[m].parents : DependsOn(obj.defs[m].parents[i], n))
Outdated(n) == {f \in spec.fresh : DependsOn(f[1], n)}

\* A definition is copied over the old one with its link to the rest of the list,
\* which is null: nothing follows it any more, if it was still reachable itself.
refine_register(n, d) ==
  LET i == SelectInSeq(obj.list, LAMBDA m : m = n)
  IN  /\ obj' = [obj EXCEPT !.defs[n] = d, !.ops = @ + 1,
                            !.list = IF ~Known(n) THEN <<n>> \o @
                                    ELSE IF i = 0 THEN @ ELSE SubSeq(@, 1, i)]
      /\ spec' = [spec EXCEPT !.fresh = @ \ Outdated(n),
                              !.order = IF Known(n) THEN << >> ELSE <<n>> \o @]

prim_refine_def(n, base, p) ==
  refine_register(n, [base |-> base, lambda |-> p, constraint |-> extract_constraint(p), parents |-> << >>, is_and |-> FALSE])

\* A combination: the first one's base and lambda, and a tree when both are leaves.
Combined(n1, n2, op) ==
  LET d1 == obj.defs[n1]
      d2 == obj.defs[n2]
  IN  [base |-> d1.base, lambda |-> d1.lambda, parents |-> <<n1, n2>>, is_and |-> op = "and",
       constraint |-> IF IsLeaf(d1.constraint) /\ IsLeaf(d2.constraint)
                      THEN [op |-> op, l |-> d1.constraint, r |-> d2.constraint] ELSE Nil]

CombineWith(d, op) ==
  LET i == IF op = "and" THEN obj.ands + 1 ELSE obj.ors + 1
      names == IF op = "and" THEN RefineAnds ELSE RefineOrs
      n == names[i]
  IN  /\ i <= Len(names)
      /\ obj' = [obj EXCEPT !.defs[n] = d, !.list = <<n>> \o @, !.ops = @ + 1,
                            !.ands = IF op = "and" THEN i ELSE @, !.ors = IF op = "or" THEN i ELSE @]
      /\ spec' = [spec EXCEPT !.order = <<n>> \o @]
prim_refine_intersect(n1, n2) == Known(n1) /\ Known(n2) /\ CombineWith(Combined(n1, n2, "and"), "and")
prim_refine_union(n1, n2) == Known(n1) /\ Known(n2) /\ CombineWith(Combined(n1, n2, "or"), "or")

-----------------------------------------------------------------------------
(* Questions; every answer may be remembered. *)

\* The answer rests on current definitions alone.
RECURSIVE Current(_, _)
Current(n, v) ==
  \/ ~value_matches_type(v, obj.defs[n].base)
  \/ <<n, v>> \in spec.fresh /\ pred_cache_lookup(obj.cache, n, v) # {}
  \/ /\ pred_cache_lookup(obj.cache, n, v) = {}
     /\ \A i \in DOMAIN obj.defs[n].parents : Current(obj.defs[n].parents[i], v)

Remember(cache) ==
  LET new == {<<e.name, e.val>> : e \in cache \ obj.cache}
  IN  /\ cache # obj.cache
      /\ obj' = [obj EXCEPT !.cache = cache, !.ops = @ + 1]
      /\ spec' = [spec EXCEPT !.fresh = (@ \cup {f \in new : Current(f[1], f[2])})
                                          \cap {<<e.name, e.val>> : e \in cache}]

prim_refine_check(v, n) == Known(n) /\ Remember(refine_check_value(obj.cache, n, v).cache)
prim_refine_assert(v, n) == IF refine_check_value(obj.cache, n, v).ok THEN v ELSE Nil
prim_refine_find(v) == Remember(FindFrom(obj.cache, 1, v).cache)
prim_refine_base(n) == obj.defs[n].base
prim_refine_subtype(n, type) == obj.defs[n].base = type \/ type = "any"
prim_refine_list == obj.list

Names == DOMAIN obj.defs
Next ==
  /\ obj.ops < MaxRefineOps
  /\ \/ \E n \in RefineNames, base \in RefineBases, p \in RefinePreds : prim_refine_def(n, base, p)
     \/ \E n1, n2 \in Names : prim_refine_intersect(n1, n2) \/ prim_refine_union(n1, n2)
     \/ \E v \in RefineValues : prim_refine_find(v) \/ \E n \in Names : prim_refine_check(v, n)

-----------------------------------------------------------------------------

\* What a refinement means now.
RECURSIVE Meaning(_, _)
Meaning(n, v) ==
  LET d == obj.defs[n]
  IN  /\ value_matches_type(v, d.base)
      /\ IF d.parents = << >> THEN LambdaHolds(d.lambda, v) = "t"
         ELSE IF d.is_and THEN Meaning(d.parents[1], v) /\ Meaning(d.parents[2], v)
         ELSE Meaning(d.parents[1], v) \/ Meaning(d.parents[2], v)

\* Whichever way it is found, the answer for a whole number is that of the
\* lambda, unless it was remembered before a definition under it was replaced;
\* an assertion agrees with the check, and what is accepted has the base type.
AnswersExact ==
  \A n \in {n \in Names : Known(n)}, v \in RefineValues :
    LET ok == refine_check_value(obj.cache, n, v).ok
    IN  /\ Current(n, v) /\ IsNumber(v) /\ Whole(v) => ok = Meaning(n, v)
        /\ ok = (prim_refine_assert(v, n) # Nil)
        /\ ok => \A t \in RefineBases : prim_refine_subtype(n, t) => value_matches_type(v, t)

\* The list has every name once, newest first, until a name is defined again.
\* Then it ends at that name and the older ones are no longer found, or, when
\* that name had been cut off before, it stays; either way it begins with the
\* names registered since, and a search answers with a name of the list.
ListExact ==
  /\ IsInjective(prim_refine_list)
  /\ \E k \in 0..Len(prim_refine_list) : SubSeq(prim_refine_list, 1, k) = spec.order
  /\ \A v \in RefineValues :
       LET f == FindFrom(obj.cache, 1, v).found
       IN  f # Nil => f \in ToSet(prim_refine_list) /\ value_matches_type(v, prim_refine_base(f))

RefinementsSound == AnswersExact /\ ListExact
=============================================================================
