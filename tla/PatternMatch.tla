----------------------------- MODULE PatternMatch -----------------------------
(* match expressions: how a value is tried against the clauses, what the     *)
(* variables are bound to, and what the check for missing and unreachable    *)
(* clauses says beforehand.  A behaviour writes a match expression clause by *)
(* clause; the properties look at every value it could be given.             *)
(*                                                                           *)
(* Patterns and values are records told apart by their field p and k.  The   *)
(* bindings a match returns are a sequence of <<name, value>>.               *)
EXTENDS Integers, Sequences, FiniteSets, SequencesExt

CONSTANTS
  MatchPatterns,    \* the patterns a clause may have
  MatchValues,
  MatchGuards,      \* "none", "true", "false": what a clause's guard evaluates to
  MaxClauses

VARIABLES obj, spec

Failure == [ok |-> FALSE, binds |-> << >>]
Success(b) == [ok |-> TRUE, binds |-> b]

\* A transform of a view pattern: the first element of a pair.
Transformed(fn, v) == IF fn = "car" /\ v.k = "pair" THEN v.car ELSE [k |-> "error"]

-----------------------------------------------------------------------------
(* Or-patterns are tried only if their alternatives seem to bind the same    *)
(* variables.                                                                *)

RECURSIVE extract_pattern_variables(_)
extract_pattern_variables(p) ==
  LET all(ps) == FoldLeft(LAMBDA s, q : s \o extract_pattern_variables(q), << >>, ps)
  IN  CASE p.p = "var" -> <<p.name>>
        [] p.p = "as" -> <<p.name>> \o extract_pattern_variables(p.sub)
        [] p.p = "or" -> extract_pattern_variables(p.alts[1])
        [] p.p = "pair" -> all(<<p.left, p.right>>)
        [] p.p \in {"leaf", "node"} -> all(p.subs)
        [] p.p \in {"wild", "nil", "lit", "view"} -> << >>

variable_lists_equal(a, b) == Len(a) = Len(b) /\ ToSet(a) \subseteq ToSet(b)

check_or_pattern_consistency(alts) ==
  \A i \in 2..Len(alts) :
    variable_lists_equal(extract_pattern_variables(alts[1]), extract_pattern_variables(alts[i]))

-----------------------------------------------------------------------------
(* pattern_try_match *)

\* The bindings of two parts, in their order.
merge_bindings(a, b) == a \o b

RECURSIVE pattern_try_match(_, _)
\* The parts of a pair or a structure, each against its own pattern.
Parts(vs, ps) ==
  LET step(r, i) ==
        LET m == pattern_try_match(vs[i], ps[i])
        IN  IF r.ok /\ m.ok THEN Success(merge_bindings(r.binds, m.binds)) ELSE Failure
  IN  IF Len(vs) # Len(ps) THEN Failure
      ELSE FoldLeft(step, Success(<< >>), [i \in DOMAIN ps |-> i])

as_match(v, p) ==
  LET sub == pattern_try_match(v, p.sub)
  IN  IF sub.ok THEN Success(merge_bindings(<<<<p.name, v>>>>, sub.binds)) ELSE Failure

or_match(v, p) ==
  LET fit == {i \in DOMAIN p.alts : pattern_try_match(v, p.alts[i]).ok}
  IN  IF check_or_pattern_consistency(p.alts) /\ fit # {}
      THEN pattern_try_match(v, p.alts[CHOOSE i \in fit : \A j \in fit : i <= j])
      ELSE Failure

view_match(v, p) ==
  LET r == Transformed(p.fn, v)
  IN  IF r.k = "error" THEN Failure ELSE pattern_try_match(r, p.sub)

pair_match(v, p) ==
  IF v.k = "pair" THEN Parts(<<v.car, v.cdr>>, <<p.left, p.right>>) ELSE Failure

leaf_match(v, p) ==
  IF v.k = "leaf" /\ v.type = p.type THEN Parts(v.fields, p.subs) ELSE Failure

node_match(v, p) ==
  IF v.k = "node" /\ v.type = p.type /\ v.variant = p.variant
  THEN Parts(v.fields, p.subs) ELSE Failure

pattern_try_match(v, p) ==
  CASE p.p = "wild" -> Success(<< >>)
    [] p.p = "as" -> as_match(v, p)
    [] p.p = "or" -> or_match(v, p)
    [] p.p = "view" -> view_match(v, p)
    [] p.p = "nil" -> IF v.k = "nil" THEN Success(<< >>) ELSE Failure
    [] p.p = "lit" -> IF v = p.value THEN Success(<< >>) ELSE Failure
    [] p.p = "var" -> Success(<<<<p.name, v>>>>)
    [] p.p = "pair" -> pair_match(v, p)
    [] p.p = "leaf" -> leaf_match(v, p)
    [] p.p = "node" -> node_match(v, p)

\* The bindings are put in front of the environment one by one: of two for the
\* same name the last one is found.
extend_env_with_bindings(binds) ==
  [x \in {binds[i][1] : i \in DOMAIN binds} |->
     binds[CHOOSE i \in DOMAIN binds : binds[i][1] = x /\ \A j \in i+1..Len(binds) : binds[j][1] # x][2]]

-----------------------------------------------------------------------------
(* pattern_eval_match: the first clause whose pattern matches and whose      *)
(* guard, if it has one, is true; 0 stands for the :no-match error.          *)

pattern_eval_match(v) ==
  LET taken == {i \in DOMAIN obj.clauses :
                  /\ pattern_try_match(v, obj.clauses[i].pattern).ok
                  /\ obj.clauses[i].guard # "false"}
  IN  IF taken = {} THEN 0 ELSE CHOOSE i \in taken : \A j \in taken : i <= j

\* A pattern with a guard is a list, and so no catch-all.  The symbol nil is
\* taken for a variable here.
is_catch_all(c) == c.guard = "none" /\ c.pattern.p \in {"wild", "var", "nil"}

pattern_check_exhaustiveness ==
  LET catch == {i \in DOMAIN obj.clauses : is_catch_all(obj.clauses[i])}
      first == CHOOSE i \in catch : \A j \in catch : i <= j
  IN  CASE catch = {} -> [status |-> "partial", first_unreachable |-> 0]
        [] catch # {} /\ first < Len(obj.clauses) ->
             [status |-> "redundant", first_unreachable |-> first + 1]
        [] OTHER -> [status |-> "complete", first_unreachable |-> 0]

-----------------------------------------------------------------------------

Init == obj = [clauses |-> << >>] /\ spec = << >>

Next ==
  /\ Len(obj.clauses) < MaxClauses
  /\ \E p \in MatchPatterns, g \in MatchGuards :
       obj' = [clauses |-> Append(obj.clauses, [pattern |-> p, guard |-> g])]
  /\ UNCHANGED spec

-----------------------------------------------------------------------------
(* What a pattern means. *)

RECURSIVE Names(_)
Names(p) ==
  CASE p.p = "var" -> {p.name}
    [] p.p = "as" -> {p.name} \cup Names(p.sub)
    [] p.p = "or" -> UNION {Names(p.alts[i]) : i \in DOMAIN p.alts}
    [] p.p = "pair" -> Names(p.left) \cup Names(p.right)
    [] p.p \in {"leaf", "node"} -> UNION {Names(p.subs[i]) : i \in DOMAIN p.subs}
    [] p.p = "view" -> Names(p.sub)
    [] p.p \in {"wild", "nil", "lit"} -> {}

RECURSIVE Fits(_, _)
Fits(v, p) ==
  CASE p.p \in {"wild", "var"} -> TRUE
    [] p.p = "as" -> Fits(v, p.sub)
    [] p.p = "or" -> \E i \in DOMAIN p.alts : Fits(v, p.alts[i])
    [] p.p = "view" -> v.k = "pair" /\ Fits(v.car, p.sub)
    [] p.p = "nil" -> v.k = "nil"
    [] p.p = "lit" -> v = p.value
    [] p.p = "pair" -> v.k = "pair" /\ Fits(v.car, p.left) /\ Fits(v.cdr, p.right)
    [] p.p = "leaf" -> /\ v.k = "leaf" /\ v.type = p.type /\ Len(v.fields) = Len(p.subs)
                       /\ \A i \in DOMAIN p.subs : Fits(v.fields[i], p.subs[i])
    [] p.p = "node" -> /\ v.k = "node" /\ v.type = p.type /\ v.variant = p.variant
                       /\ Len(v.fields) = Len(p.subs)
                       /\ \A i \in DOMAIN p.subs : Fits(v.fields[i], p.subs[i])

RECURSIVE Ors(_)
Ors(p) ==
  CASE p.p = "or" -> {p} \cup UNION {Ors(p.alts[i]) : i \in DOMAIN p.alts}
    [] p.p \in {"as", "view"} -> Ors(p.sub)
    [] p.p = "pair" -> Ors(p.left) \cup Ors(p.right)
    [] p.p \in {"leaf", "node"} -> UNION {Ors(p.subs[i]) : i \in DOMAIN p.subs}
    [] p.p \in {"wild", "var", "nil", "lit"} -> {}

Differ(alts) == \E i, j \in DOMAIN alts : Names(alts[i]) # Names(alts[j])
Refused(p) == \E q \in Ors(p) : ~check_or_pattern_consistency(q.alts)
\* The check of an or-pattern misses the variables of a view, and counts a
\* variable that occurs twice.
Misjudged(p) == \E q \in Ors(p) : check_or_pattern_consistency(q.alts) = Differ(q.alts)

\* The value a pattern of constructors and variables was matched with.
RECURSIVE Plain(_)
Plain(p) == \/ p.p \in {"var", "lit", "nil"}
            \/ p.p = "pair" /\ Plain(p.left) /\ Plain(p.right) /\ Names(p.left) \cap Names(p.right) = {}
RECURSIVE Built(_, _)
Built(p, env) ==
  CASE p.p = "var" -> env[p.name]
    [] p.p = "lit" -> p.value
    [] p.p = "nil" -> [k |-> "nil"]
    [] p.p = "pair" -> [k |-> "pair", car |-> Built(p.left, env), cdr |-> Built(p.right, env)]

MatchSound ==
  \A i \in DOMAIN obj.clauses : \A v \in MatchValues :
    LET p == obj.clauses[i].pattern
        m == pattern_try_match(v, p)
        env == extend_env_with_bindings(m.binds)
    IN  /\ m.ok => Fits(v, p)
        /\ Fits(v, p) /\ ~m.ok => Refused(p)
        /\ m.ok /\ ~Misjudged(p) => DOMAIN env = Names(p)
        /\ m.ok /\ Plain(p) => Built(p, env) = v

\* What the check for completeness says is true of every value, unless a clause
\* for nil passes for a catch-all.
CheckSound ==
  LET check == pattern_check_exhaustiveness
  IN  (\A i \in DOMAIN obj.clauses : obj.clauses[i].pattern.p # "nil") => \A v \in MatchValues :
        /\ check.status = "complete" => pattern_eval_match(v) # 0
        /\ check.status = "redundant" => pattern_eval_match(v) \in 1 .. check.first_unreachable - 1

PatternsSound == MatchSound /\ CheckSound
=============================================================================
