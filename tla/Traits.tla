-------------------------------- MODULE Traits --------------------------------
(* Traits: operations a type promises, implementations of them for a type,   *)
(* and defaults.  Built-in types are served from a flat table by type and    *)
(* trait number; every definition is also kept in tables by name, which      *)
(* serve the types of programs and whatever the flat table does not know.    *)
EXTENDS Integers, Sequences, FiniteSets, SequencesExt

CONSTANTS
  BuiltinTypes, ProgramTypes,
  TraitNames,
  OpLists,              \* what a trait is defined with
  ImplLists,            \* <<operation, function>> in order: implementations and defaults
  FDT_MAX_TRAITS, FDT_MAX_OPS,
  MaxTraitOps,
  Nil

VARIABLES obj, spec

TypeNames == BuiltinTypes \cup ProgramTypes

(* ids: the number of a trait; metas: what the flat table knows of a number;  *)
(* fdt: the rows; defs, impls: the tables by name.                            *)
(* spec: the implementation last given, and whether it was given while the    *)
(* flat table could not find the trait.                                       *)
Init ==
  /\ obj = [ids |-> [t \in TraitNames |-> Nil], next |-> 0,
            metas |-> [i \in 0..FDT_MAX_TRAITS - 1 |-> [ops |-> << >>, defaults |-> << >>]],
            fdt |-> [k \in TypeNames \X (0..FDT_MAX_TRAITS - 1) |-> << >>],
            defs |-> [t \in TraitNames |-> Nil], impls |-> [k \in TypeNames \X TraitNames |-> Nil], ops |-> 0]
  /\ spec = [impls |-> [k \in TypeNames \X TraitNames |-> Nil], early |-> {}]

Known(k) == obj.impls[k] # Nil
\* Number 0 is stored as a null pointer: its trait is never found by name.
Found(t) == obj.ids[t] # Nil /\ obj.ids[t] # 0
trait_type_name_to_celltype(type) == type \in BuiltinTypes
InTable(type, t) == trait_type_name_to_celltype(type) /\ Found(t)

\* The first pair with the operation.
InList(list, op) == LET i == SelectInSeq(list, LAMBDA p : p[1] = op) IN IF i = 0 THEN Nil ELSE list[i][2]
FirstN(s, n) == SubSeq(s, 1, IF Len(s) < n THEN Len(s) ELSE n)
\* The last pair with the operation; the flat table keeps defaults of declared operations only.
DefaultOf(meta, op) ==
  LET hits == {i \in DOMAIN meta.defaults : meta.defaults[i][1] = op}
  IN  IF ~Contains(meta.ops, op) \/ hits = {} THEN Nil
      ELSE meta.defaults[CHOOSE i \in hits : \A j \in hits : i >= j][2]

-----------------------------------------------------------------------------

\* A trait defined again keeps its number and with it the rows of the table,
\* except the one with number 0, which gets a new number.
prim_trait_define(t, ops, defaults) ==
  LET id == IF Found(t) THEN obj.ids[t] ELSE obj.next
      meta == [ops |-> FirstN(ops, FDT_MAX_OPS), defaults |-> defaults]
  IN  /\ obj' = IF id >= FDT_MAX_TRAITS THEN [obj EXCEPT !.ops = @ + 1]
                ELSE [obj EXCEPT !.ids[t] = id, !.next = IF Found(t) THEN @ ELSE @ + 1, !.metas[id] = meta,
                                 !.defs[t] = [ops |-> ops, defaults |-> defaults], !.ops = @ + 1]
      /\ UNCHANGED spec

\* The row is emptied first: nothing of an earlier implementation stays.
prim_trait_implement(type, t, list) ==
  LET row == <<type, obj.ids[t]>>
  IN  /\ obj' = [obj EXCEPT !.impls[<<type, t>>] = list, !.ops = @ + 1,
                            !.fdt = IF InTable(type, t) THEN [@ EXCEPT ![row] = FirstN(list, FDT_MAX_OPS)] ELSE @]
      /\ spec' = [impls |-> [spec.impls EXCEPT ![<<type, t>>] = list],
                  early |-> IF Found(t) THEN spec.early \ {<<type, t>>} ELSE spec.early \cup {<<type, t>>}]

Next ==
  /\ obj.ops < MaxTraitOps
  /\ \E t \in TraitNames, list \in ImplLists :
       \/ \E ops \in OpLists : prim_trait_define(t, ops, list)
       \/ \E type \in TypeNames : prim_trait_implement(type, t, list)

-----------------------------------------------------------------------------
(* Questions.  A function, or an error. *)

prim_trait_check(type, t) ==
  (InTable(type, t) /\ obj.fdt[<<type, obj.ids[t]>>] # << >>) \/ Known(<<type, t>>)
prim_trait_ops(t) == IF obj.defs[t] = Nil THEN << >> ELSE obj.defs[t].ops
prim_trait_defaults(t) == IF obj.defs[t] = Nil THEN << >> ELSE obj.defs[t].defaults

\* By name: the implementation, then the defaults.
SlowDispatch(type, t, op) ==
  LET own == IF Known(<<type, t>>) THEN InList(obj.impls[<<type, t>>], op) ELSE Nil
      default == InList(prim_trait_defaults(t), op)
  IN  IF own # Nil THEN own ELSE IF default # Nil THEN default
      ELSE IF Known(<<type, t>>) THEN "trait-op-not-found" ELSE "trait-not-implemented"

\* From the table: the row, the defaults, and only then slow, the answer by name.
FastDispatch(type, t, op, slow) ==
  LET row == obj.fdt[<<type, obj.ids[t]>>]
      default == DefaultOf(obj.metas[obj.ids[t]], op)
  IN  IF InList(row, op) # Nil THEN InList(row, op)
      ELSE IF default # Nil THEN default
      ELSE IF row # << >> THEN "trait-op-not-found"
      ELSE slow

prim_trait_dispatch(type, t, op) ==
  IF InTable(type, t) THEN FastDispatch(type, t, op, SlowDispatch(type, t, op)) ELSE SlowDispatch(type, t, op)
\* The same with the type read from the value instead of given by name.
prim_trait_dispatch_fast(type, t, op) ==
  IF Found(t) THEN FastDispatch(type, t, op, prim_trait_dispatch(type, t, op)) ELSE prim_trait_dispatch(type, t, op)

trait_type_satisfies(type, t) ==
  IF InTable(type, t)
  THEN obj.fdt[<<type, obj.ids[t]>>] # << >>
       \/ \A op \in ToSet(obj.metas[obj.ids[t]].ops) : DefaultOf(obj.metas[obj.ids[t]], op) # Nil
  ELSE \/ Known(<<type, t>>)
       \/ obj.defs[t] # Nil /\ \A op \in ToSet(prim_trait_ops(t)) : InList(prim_trait_defaults(t), op) # Nil

-----------------------------------------------------------------------------

AllOps == UNION {ToSet(ops) : ops \in OpLists} \cup {p[1] : p \in UNION {ToSet(l) : l \in ImplLists}}
IsError(f) == f \in {"trait-op-not-found", "trait-not-implemented"}
Fits(list) == Len(list) <= FDT_MAX_OPS
Declared(t) == /\ Fits(prim_trait_ops(t)) /\ \A p \in ToSet(prim_trait_defaults(t)) : Contains(prim_trait_ops(t), p[1])
               /\ \A i, j \in DOMAIN prim_trait_defaults(t) : prim_trait_defaults(t)[i][1] = prim_trait_defaults(t)[j][1] => i = j

\* What dispatch promises: the last implementation, else the default.
Promised(type, t, op) ==
  LET list == spec.impls[<<type, t>>]
      own == IF list = Nil THEN Nil ELSE InList(list, op)
  IN  IF own # Nil THEN own ELSE InList(prim_trait_defaults(t), op)

\* Both tables answer alike: a type gets the operation it was last given, or the
\* default, whichever of definition and implementation came first and whatever
\* was defined again.  Exempt are, for a built-in type, more operations than a
\* row holds, defaults of operations the trait does not have, and an
\* implementation given before the table knew its trait, which a default hides.
DispatchExact ==
  \A type \in TypeNames, t \in TraitNames, op \in AllOps :
    LET k == <<type, t>>
        answer == prim_trait_dispatch(type, t, op)
        regular == InTable(type, t) => Declared(t) /\ (spec.impls[k] # Nil => Fits(spec.impls[k]))
        hidden == InTable(type, t) /\ k \in spec.early /\ InList(prim_trait_defaults(t), op) # Nil
    IN  /\ regular /\ ~hidden =>
             IF Promised(type, t, op) = Nil THEN IsError(answer) ELSE answer = Promised(type, t, op)
        /\ regular /\ hidden => answer = InList(prim_trait_defaults(t), op)
        /\ type \in BuiltinTypes => prim_trait_dispatch_fast(type, t, op) = answer

\* A type that satisfies a trait by defaults answers every operation, one that
\* was implemented is known as such and satisfies the trait unless it came early.
SatisfactionExact ==
  \A type \in TypeNames, t \in TraitNames :
    LET k == <<type, t>>
        given == spec.impls[k] # Nil
    IN  /\ prim_trait_check(type, t) = given
        /\ given /\ spec.impls[k] # << >> /\ (InTable(type, t) => k \notin spec.early) => trait_type_satisfies(type, t)
        /\ obj.defs[t] # Nil /\ trait_type_satisfies(type, t) /\ ~given =>
             \A op \in ToSet(FirstN(prim_trait_ops(t), FDT_MAX_OPS)) : ~IsError(prim_trait_dispatch(type, t, op))

\* A number belongs to one trait.
NumbersApart == \A t, u \in TraitNames : t # u /\ obj.ids[t] # Nil => obj.ids[t] # obj.ids[u]

TraitsSound == DispatchExact /\ SatisfactionExact /\ NumbersApart
=============================================================================
