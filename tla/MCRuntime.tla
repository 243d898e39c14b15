------------------------------ MODULE MCRuntime ------------------------------
(* Two of everything, tables of one or two rows: full tables, repeated names  *)
(* and deaths between two steps are a few operations away.                    *)
EXTENDS Runtime

\* Stages: a pass-on, one whose handler fails, one that replaces its own stage.
Passing == <<"producer-consumer", "ok">>
Failing == <<"producer-consumer", "bad">>
Producing == <<"producer", "ok">>
Consuming == <<"consumer", "ok">>
Replacing == <<"consumer", "replace">>
MCPipelines == {<<Producing, Passing, Consuming>>, <<Producing, Failing, Consuming>>,
                <<Passing, Consuming, Replacing>>, <<Passing, Passing, Consuming>>}
MCStageKinds == {Consuming, Passing}
MCFlowSources == {<<1, 2, 4>>}

\* Refinements: a remainder, an interval, a disjunction with a negation, and a
\* body no constraint can be extracted from; 2, 2.5, -1 and a string.
Test(op, n) == [op |-> op, n |-> n, l |-> Nil, r |-> Nil]
Half(h) == [type |-> "number", halves |-> h]
MCRefinePreds ==
  {[op |-> "mod", k |-> 2, r |-> 0],
   [op |-> "and", l |-> Test("ge", 0), r |-> Test("le", 2)],
   [op |-> "or", l |-> Test("ne", 0), r |-> [op |-> "not", sub |-> Test("lt", 1)]],
   [op |-> "and", l |-> Test("gt", 0), r |-> [op |-> "other", holds |-> {Half(4)}]]}
MCRefineValues == {Half(-2), Half(4), Half(5), [type |-> "string", halves |-> 0]}
MCSharedSlot == {Half(4), Half(5)}
MCRefineAnds == <<"and0">>
MCRefineOrs == <<"or0">>

MCOpLists == {<<"o">>, <<"o", "p">>}
MCImplLists == {<< >>, <<<<"p", "g">>, <<"o", "h">>>>, <<<<"q", "g">>, <<"p", "f">>, <<"o", "f">>>>}

\* Values: lists with repeated and nested element types, an improper pair,
\* functions of two and of no arguments.
Val(is, in, arity) == [is |-> is, in |-> in, arity |-> arity]
Ty(k, in) == [mark |-> TRUE, kind |-> k, in |-> in]
Symbol(name) == [mark |-> FALSE, kind |-> name, in |-> << >>]
Cell(is) == Val(is, << >>, 0)
Cons(a, b) == Val("pair", <<a, b>>, 0)
Struct(tag) == Val("struct", <<Symbol(tag)>>, 0)
MCTypedValues ==
  {Cell("number"), Cell("string"), Cell("nil"), Cell("symbol"),
   Cons(Cell("number"), Cell("string")),
   Cons(Cell("number"), Cons(Cell("string"), Cons(Cell("number"), Cell("nil")))),
   Cons(Cons(Cell("number"), Cell("nil")), Cons(Cons(Cell("string"), Cell("nil")), Cell("nil"))),
   Cons(Struct("P"), Cons(Struct("Q"), Cell("nil"))), Cons(Cell("symbol"), Cell("nil")),
   Val("lambda", << >>, 2), Val("lambda", << >>, 0)}
TyInt == Ty("int", << >>)
TyStr == Ty("string", << >>)
IntOrStr == Ty("union", <<TyInt, TyStr>>)
MCTypePool ==
  {TyInt, Symbol("pair"), IntOrStr, Ty("union", <<Ty("any", << >>), TyInt>>), Ty("list", <<IntOrStr>>),
   Ty("func", <<TyInt, Ty("func", <<TyStr, TyInt>>)>>), Ty("struct", <<Symbol("P")>>)}
=============================================================================
