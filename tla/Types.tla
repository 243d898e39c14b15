-------------------------------- MODULE Types --------------------------------
(* Type values, their comparison, the inference of a type from a value, and   *)
(* the declarations the validation primitives check bindings against          *)
(* (primitives.c, "Type System").                                             *)
EXTENDS Integers, Sequences, FiniteSets, SequencesExt, TLC

CONSTANTS
  AnnotatedNames,          \* the names declared and bound
  TypePool,                \* the cells declared as types
  TypedValues,             \* the values bound and passed
  MaxTypeOps

VARIABLES obj, spec

(* A type is a struct with a kind and the types in it; any other cell given   *)
(* for a type (type-of answers symbols) is one without the mark.  A value has *)
(* what it is, for a pair its two parts, for a struct its tag, for a function *)
(* its arity.                                                                 *)
Type(kind, in) == [mark |-> TRUE, kind |-> kind, in |-> in]
Plain(name) == [mark |-> FALSE, kind |-> name, in |-> << >>]
Value(is, in, arity) == [is |-> is, in |-> in, arity |-> arity]
IntType == Type("int", << >>)
AnyType == Type("any", << >>)
Unset == Plain("unset")

\* registry: the declarations, the last one first; bound: the global bindings.
Init ==
  /\ obj = [registry |-> << >>, bound |-> [n \in AnnotatedNames |-> Value("unbound", << >>, 0)], ops |-> 0]
  /\ spec = [declared |-> [n \in AnnotatedNames |-> Unset], again |-> {}]

-----------------------------------------------------------------------------
(* Types. *)

Basic == {"int", "bool", "string", "any", "nil", "symbol", "pair", "function", "error"}

RECURSIVE types_equal(_, _)
types_equal(t1, t2) ==
  IF ~t1.mark \/ ~t2.mark THEN t1 = t2
  ELSE /\ t1.kind = t2.kind
       /\ \/ t1.kind \in Basic \cup {"graph"}
          \/ /\ t1.kind \in {"func", "list", "pair-type", "union", "struct"}
             /\ \A i \in DOMAIN t1.in : types_equal(t1.in[i], t2.in[i])

\* A union above is entered, a union below is not.
RECURSIVE is_subtype(_, _)
is_subtype(t1, t2) ==
  IF t2.mark /\ t2.kind = "any" THEN TRUE
  ELSE IF t2.mark /\ t2.kind = "union" THEN is_subtype(t1, t2.in[1]) \/ is_subtype(t1, t2.in[2])
  ELSE types_equal(t1, t2)

\* Several codomains make a curried function.
RECURSIVE prim_type_func(_)
prim_type_func(types) ==
  Type("func", <<types[1], IF Len(types) = 2 THEN types[2] ELSE prim_type_func(Tail(types))>>)
prim_type_list(element) == Type("list", <<element>>)
prim_type_pair(car, cdr) == Type("pair-type", <<car, cdr>>)
prim_type_union(left, right) == Type("union", <<left, right>>)

Part(type, kind, i) == IF type.mark /\ type.kind = kind THEN type.in[i] ELSE Unset
prim_type_domain(type) == Part(type, "func", 1)
prim_type_codomain(type) == Part(type, "func", 2)
prim_type_element(type) == Part(type, "list", 1)

\* The shallow type: four kinds have a type, the others the name of the kind.
prim_typeof(v) ==
  CASE v.is = "number" -> IntType
    [] v.is \in {"bool", "string", "nil"} -> Type(v.is, << >>)
    [] v.is = "lambda" -> Plain("function")
    [] OTHER -> Plain(v.is)

RECURSIVE value_matches_type(_, _)
value_matches_type(v, type) ==
  IF ~type.mark THEN TRUE
  ELSE CASE type.kind = "int" -> v.is = "number"
         [] type.kind \in {"bool", "string", "nil", "pair", "error"} -> v.is = type.kind
         [] type.kind = "func" -> v.is = "lambda"
         [] type.kind = "list" -> v.is \in {"nil", "pair"}
         [] type.kind = "union" -> value_matches_type(v, type.in[1]) \/ value_matches_type(v, type.in[2])
         [] OTHER -> TRUE

\* The value or an error.
prim_type_assert(v, type) == is_subtype(prim_typeof(v), type)

-----------------------------------------------------------------------------
(* Inference. *)

RECURSIVE Elements(_), is_proper_list(_)
is_proper_list(v) == IF v.is = "pair" THEN is_proper_list(v.in[2]) ELSE v.is = "nil"
Elements(v) == IF v.is = "pair" THEN <<v.in[1]>> \o Elements(v.in[2]) ELSE << >>

\* A further type joins unless it equals all there is so far.
Join(sofar, type) == IF types_equal(sofar, type) THEN sofar ELSE prim_type_union(sofar, type)

RECURSIVE infer_value_type(_)
infer_list_element_type(v) ==
  FoldLeft(LAMBDA sofar, e : Join(sofar, infer_value_type(e)), infer_value_type(v.in[1]), Tail(Elements(v)))

infer_value_type(v) ==
  CASE v.is = "number" -> IntType
    [] v.is \in {"bool", "string", "nil", "symbol", "error", "struct", "graph"} -> Type(v.is, v.in)
    [] v.is = "pair" -> IF is_proper_list(v) THEN prim_type_list(infer_list_element_type(v))
                        ELSE prim_type_pair(infer_value_type(v.in[1]), infer_value_type(v.in[2]))
    [] v.is = "lambda" -> IF v.arity = 0 THEN AnyType ELSE prim_type_func([i \in 1..v.arity + 1 |-> AnyType])
    [] OTHER -> AnyType

\* The signatures of primitives, by name.
Sig(types) == prim_type_func(types)
Bool == Type("bool", << >>)
Str == Type("string", << >>)
prim_type_prim_sig ==
  [n \in {"+", "-", "*", "/", "%", "^", "min", "max"} |-> Sig(<<IntType, IntType, IntType>>)] @@
  [n \in {"<", ">", "<=", ">="} |-> Sig(<<IntType, IntType, Bool>>)] @@
  [n \in {"equal?", "not-equal?", "deep-equal?"} |-> Sig(<<AnyType, AnyType, Bool>>)] @@
  [n \in {"and", "or"} |-> Sig(<<Bool, Bool, Bool>>)] @@
  [n \in {"cons", "error"} |-> Sig(<<AnyType, AnyType, AnyType>>)] @@
  [n \in {"car", "cdr", "type-of", "struct-create", "trace"} |-> Sig(<<AnyType, AnyType>>)] @@
  [n \in {"error?", "null?"} |-> Sig(<<AnyType, Bool>>)] @@
  [n \in {"sqrt", "abs", "sin", "cos", "tan", "log", "exp"} |-> Sig(<<IntType, IntType>>)] @@
  ("not" :> Sig(<<Bool, Bool>>)) @@ ("string-length" :> Sig(<<Str, IntType>>)) @@
  ("string-append" :> Sig(<<Str, Str, Str>>)) @@ ("string-equal?" :> Sig(<<Str, Str, Bool>>)) @@
  ("string-slice" :> Sig(<<Str, IntType, IntType, Str>>))

\* What the table of primitives says of them; struct-create takes any number.
primitives ==
  [n \in {"not", "car", "cdr", "type-of", "trace", "error?", "null?", "string-length",
          "sqrt", "abs", "sin", "cos", "tan", "log", "exp"} |-> 1] @@
  ("struct-create" :> -1) @@ ("string-slice" :> 3) @@ [n \in DOMAIN prim_type_prim_sig \ {"and", "or"} |-> 2]

-----------------------------------------------------------------------------
(* Declarations. *)

\* The new declaration replaces the old one by standing before it.
prim_type_declare(n, type) ==
  /\ obj' = [obj EXCEPT !.registry = <<<<n, type>>>> \o @, !.ops = @ + 1]
  /\ spec' = [declared |-> [spec.declared EXCEPT ![n] = type],
              again |-> IF spec.declared[n] = Unset THEN spec.again ELSE spec.again \cup {n}]

prim_type_query(n) ==
  LET i == SelectInSeq(obj.registry, LAMBDA d : d[1] = n) IN IF i = 0 THEN Unset ELSE obj.registry[i][2]

\* A name that is declared but not bound is an error.
prim_type_validate(n) ==
  prim_type_query(n) # Unset => /\ obj.bound[n].is # "unbound"
                                /\ value_matches_type(obj.bound[n], prim_type_query(n))

\* Every declaration ever made is looked at; unbound names are passed over.
prim_type_validate_all ==
  Reverse(SelectSeq(obj.registry, LAMBDA d : obj.bound[d[1]].is # "unbound" /\ ~value_matches_type(obj.bound[d[1]], d[2])))

\* The arguments are matched with the domains as long as there are both.
RECURSIVE Applies(_, _)
Applies(type, values) ==
  (values # << >> /\ type.mark /\ type.kind = "func")
    => value_matches_type(values[1], type.in[1]) /\ Applies(type.in[2], Tail(values))
prim_type_check_apply(n, values) == Applies(prim_type_query(n), values)

\* A global definition.
Bind(n, v) == obj' = [obj EXCEPT !.bound[n] = v, !.ops = @ + 1] /\ UNCHANGED spec

Next ==
  /\ obj.ops < MaxTypeOps
  /\ \E n \in AnnotatedNames : \/ \E type \in TypePool : prim_type_declare(n, type)
                               \/ \E v \in TypedValues : Bind(n, v)

-----------------------------------------------------------------------------

Declared(n) == spec.declared[n] # Unset
IsBound(n) == obj.bound[n].is # "unbound"
Here == {obj.bound[n] : n \in {m \in AnnotatedNames : IsBound(m)}}
Mentioned == {spec.declared[n] : n \in AnnotatedNames} \cup {infer_value_type(v) : v \in Here}

\* The declaration in force is the last one; what validate-all passes, validate
\* passes too, and what it does not is a mismatch with the declaration in force
\* or with one that was replaced.
ValidationExact ==
  /\ \A n \in AnnotatedNames : prim_type_query(n) = spec.declared[n]
  /\ prim_type_validate_all = << >> => \A n \in AnnotatedNames : IsBound(n) => prim_type_validate(n)
  /\ \A i \in DOMAIN prim_type_validate_all :
       LET d == prim_type_validate_all[i]
       IN  ~prim_type_validate(d[1]) \/ (d[1] \in spec.again /\ d[2] # spec.declared[d[1]])

\* The type inferred for a value is one the value matches and never weaker than
\* its shallow type; the element type of a list is above the types of all
\* elements, in whatever order they come.
InferenceSound ==
  \A v \in Here :
    LET type == infer_value_type(v)
    IN  /\ value_matches_type(v, type)
        /\ prim_type_assert(v, type) \/ ~prim_typeof(v).mark
        /\ prim_type_element(type) # Unset =>
             \A i \in DOMAIN Elements(v) : is_subtype(infer_value_type(Elements(v)[i]), prim_type_element(type))
        /\ v.is = "lambda" /\ v.arity > 0 => prim_type_domain(type) = AnyType /\ prim_type_codomain(type).mark

\* Types that compare as one are above and below the same types and have the
\* same values, a value of a type is one of every type above it, and being below
\* is transitive; it is reflexive only for types that are not unions, since a
\* union below is not taken apart.  An assertion that passes is a match.
SubtypesSound ==
  \A t, u \in Mentioned :
    /\ is_subtype(t, t) <=> ~(t.mark /\ t.kind = "union" /\ ~is_subtype(t, t.in[1]) /\ ~is_subtype(t, t.in[2]))
    /\ types_equal(t, u) => types_equal(u, t) /\ \A w \in Mentioned : is_subtype(w, t) <=> is_subtype(w, u)
    /\ is_subtype(t, u) => /\ \A v \in TypedValues : value_matches_type(v, t) => value_matches_type(v, u)
                           /\ \A w \in Mentioned : is_subtype(u, w) => is_subtype(t, w)
    /\ \A v \in TypedValues : prim_type_assert(v, t) => value_matches_type(v, t)

\* A call whose arguments match the domains one by one passes the check, also
\* with arguments left over; one of the values a declared function type does not
\* allow at its place never does.
RECURSIVE Domains(_)
Domains(type) == IF prim_type_domain(type) = Unset THEN << >> ELSE <<prim_type_domain(type)>> \o Domains(prim_type_codomain(type))
ApplicationExact ==
  \A n \in AnnotatedNames, x, y \in Here :
    LET ds == Domains(spec.declared[n])
    IN  prim_type_check_apply(n, <<x, y>>)
          <=> \A i \in 1..(IF Len(ds) < 2 THEN Len(ds) ELSE 2) : value_matches_type(<<x, y>>[i], ds[i])

\* A signature has as many arrows as the primitive has arguments.  The table
\* never changes: it is looked at once.
SignaturesExact == obj.ops = 0 =>
  \A n \in DOMAIN prim_type_prim_sig \cap DOMAIN primitives :
    primitives[n] # -1 => Len(Domains(prim_type_prim_sig[n])) = primitives[n]

TypesSound == ValidationExact /\ InferenceSound /\ SubtypesSound /\ ApplicationExact /\ SignaturesExact
=============================================================================
