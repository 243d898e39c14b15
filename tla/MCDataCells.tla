----------------------------- MODULE MCDataCells -----------------------------
(* Small tables, trees and batches, so that growth, splits, collapses and    *)
(* batch borders happen after a few operations.                              *)
EXTENDS DataCells

MapEntry(k, v) == [ctrl |-> "FULL", key |-> k, value |-> v]
MCMapHash == ("a" :> 0) @@ ("b" :> 0) @@ ("c" :> 0) @@ ("d" :> 1)
MCMapOperands == {<<MapEntry("a", 1), MapEntry("d", 2)>>, <<MapEntry("b", 1), MapEntry("c", 1)>>}

MCSetOrder == <<1, 2, 3, 4, 5>>
MCSetHash == [v \in 1..5 |-> [group |-> 0, bit |-> v % 2]]
MCSetOperands == {{2, 3, 5}}

\* 18 and 19 share a sort key; 20 is the integer that equals the number 2; 21
\* is nil, last by its sort key and first by cell_compare.
MCSortKey == [k \in 1..21 |-> IF k = 19 THEN 18 ELSE k]
MCTermOrder == [k \in 1..21 |-> IF k = 20 THEN 2 ELSE IF k = 21 THEN 0 ELSE k]

MCTrieKeys == {<<1>>, <<1, 2>>, <<1, 2, 1>>, <<1, 2, 2>>} \cup {<<b>> : b \in 2..6}
MCTriePreloads == {<< >>, << <<1, 2>>, <<2>>, <<3>>, <<4>>, <<5>>, <<6>> >>}

Slots(s) == [j \in DOMAIN s |-> IF s[j] = 0 THEN Hole ELSE <<s[j]>>]
MCIterSources ==
  << [kind |-> "list", slots |-> Slots(<<1, 3, 2, 4, 5>>)],
     [kind |-> "vector", slots |-> Slots(<<1, 2, 3>>)],
     [kind |-> "hashmap", slots |-> Slots(<<1, 0, 2, 3, 4, 0>>)],
     [kind |-> "slots", slots |-> Slots(<<0, 1, 2, 0, 0, 3>>)],
     [kind |-> "trie", slots |-> Slots(<<1, 2>>)],
     [kind |-> "heap", slots |-> Slots(<<1, 3, 2, 5, 4, 6>>)] >>
MCIterMates == {<<1, 2>>, <<2, 4>>, <<3, 1>>, <<5, 6>>}

MCWords == {<< >>, <<97>>, <<97, 97>>, <<97, 98, 97, 97>>, <<32>>, <<97, 32, 98>>, <<200>>}
MCCounts == {-1, 0, 1, 2, 5}

Name(n) == [name |-> n, variant |-> FALSE, subs |-> << >>]
Variant(n, fs) == [name |-> n, variant |-> TRUE, subs |-> fs]
MCSchemas == {[kind |-> "leaf", body |-> <<Name("x"), Name("x")>>],
              [kind |-> "node", body |-> <<Variant("A", <<"x">>), Variant("B", << >>)>>],
              [kind |-> "graph", body |-> <<Name("generic"), Name("x")>>]}
MCFieldLists == {<< >>, <<1>>, <<1, 2>>}

\* Patterns: every kind, with repeated variables and alternatives that bind
\* different ones.
Wild == [p |-> "wild"]
Var(x) == [p |-> "var", name |-> x]
NilPat == [p |-> "nil"]
Lit(n) == [p |-> "lit", value |-> [k |-> "num", n |-> n]]
PairPat(a, b) == [p |-> "pair", left |-> a, right |-> b]
AsPat(x, q) == [p |-> "as", name |-> x, sub |-> q]
OrPat(a, b) == [p |-> "or", alts |-> <<a, b>>]
ViewPat(q) == [p |-> "view", fn |-> "car", sub |-> q]
LeafPat(qs) == [p |-> "leaf", type |-> "T", subs |-> qs]
NodePat(t, qs) == [p |-> "node", type |-> "U", variant |-> t, subs |-> qs]
BasePats == {Wild, Var("x"), NilPat, Lit(1)}
MCPatterns ==
  BasePats
  \cup {PairPat(a, b) : a \in BasePats, b \in BasePats \cup {Var("y")}}
  \cup {AsPat("a", q) : q \in {Lit(1), PairPat(Var("x"), Var("a"))}}
  \cup {OrPat(a, b) :
          a \in {Lit(1), Var("x"), PairPat(Var("x"), Var("y")), PairPat(Var("x"), Var("x")), ViewPat(Var("x"))},
          b \in {NilPat, Var("x"), Var("y"), PairPat(Var("y"), Var("x")), PairPat(Var("x"), Var("y"))}}
  \cup {ViewPat(Var("x")), ViewPat(Lit(1)), LeafPat(<<Var("x"), Var("y")>>), LeafPat(<<Lit(1)>>),
        NodePat("A", << >>), NodePat("B", <<Var("x"), NilPat>>),
        NodePat("B", <<AsPat("x", Var("y")), OrPat(Lit(1), Lit(2))>>)}
Num(n) == [k |-> "num", n |-> n]
NilVal == [k |-> "nil"]
PairVal(a, b) == [k |-> "pair", car |-> a, cdr |-> b]
Atoms == {Num(1), Num(2), NilVal}
MCMatchValues ==
  Atoms \cup {PairVal(a, b) : a \in Atoms, b \in Atoms} \cup {PairVal(PairVal(Num(1), NilVal), Num(2))}
  \cup {[k |-> "leaf", type |-> "T", fields |-> fs] : fs \in {<<Num(1), NilVal>>, <<Num(2)>>}}
  \cup {[k |-> "node", type |-> "U", variant |-> "A", fields |-> << >>]}
  \cup {[k |-> "node", type |-> "U", variant |-> "B", fields |-> fs] : fs \in {<<Num(1), NilVal>>, <<Num(1), Num(2)>>}}
=============================================================================
