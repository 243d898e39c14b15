------------------------------ MODULE Structures ------------------------------
(* Types and their values: the type registry of an evaluation context, the   *)
(* structures created from its schemas, and the copies of a context that the *)
(* schedulers of a run work with.  A registry is an immutable list; a copy   *)
(* shares it, without a reference of its own.                                *)
EXTENDS Integers, Sequences, FiniteSets, SequencesExt

CONSTANTS
  TypeTags, Schemas,     \* the types and what they can be defined as
  VariantTags,
  FieldLists, NewValues, \* the values given to a new structure, and to a field
  TypeWorkers,           \* schedulers besides scheduler 0
  MaxDefinitions, MaxStructs, MaxUpdates,
  Nil

VARIABLES obj, spec

Contexts == {"main", "sched0"} \cup TypeWorkers
\* The contexts of one thread.
Thread(c) == IF c \in TypeWorkers THEN c ELSE "sched0"

(* reg: the list of a context, newest first, and the cell at its head;       *)
(* refs: the references to a head; structs: the values made so far.          *)
(* spec: what the types of a context are; for every value the schema it was   *)
(* made from and the values given; whether a head was freed under a copy.    *)
Init ==
  /\ obj = [reg |-> [c \in Contexts |-> << >>], head |-> [c \in Contexts |-> 0],
            refs |-> << >>, run |-> FALSE, runs |-> 0, structs |-> << >>, updates |-> 0]
  /\ spec = [types |-> [c \in Contexts |-> [t \in TypeTags |-> Nil]], made |-> << >>, rebuilt |-> FALSE]

InUse(c) == IF obj.run THEN c # "main" ELSE c = "main"
\* A list whose head was freed is not followed any further: anything may come out of it.
Intact(c) == obj.head[c] # 0 => obj.refs[obj.head[c]] > 0

-----------------------------------------------------------------------------
(* The registry. *)

eval_lookup_type(c, tag) ==
  LET i == SelectInSeq(obj.reg[c], LAMBDA b : b.tag = tag) IN IF i = 0 THEN Nil ELSE obj.reg[c][i].schema

\* The definitions after the old one are left out with it.
Rebuilt_front(c, tag) ==
  Reverse(SubSeq(obj.reg[c], 1, SelectInSeq(obj.reg[c], LAMBDA b : b.tag = tag) - 1))

\* Redefining turns the rest of the list around.
Rebuilt(c, tag) == Reverse(SelectSeq(obj.reg[c], LAMBDA b : b.tag # tag))

\* Over an existing definition the list is rebuilt and its old head released;
\* that frees a head nobody else counts, if its thread made it.
eval_register_type(c, tag, schema) ==
  LET again == eval_lookup_type(c, tag) # Nil
      head == obj.head[c]
      rest == IF again THEN Rebuilt(c, tag) ELSE obj.reg[c]
      new == Len(obj.refs) + 1
      old == IF head = 0 THEN obj.refs
             ELSE IF ~again THEN [obj.refs EXCEPT ![head] = @ + 1]
             ELSE IF obj.reg[c][1].thread = Thread(c) THEN [obj.refs EXCEPT ![head] = @ - 1] ELSE obj.refs
  IN  /\ InUse(c) /\ Intact(c)
      /\ Len(obj.refs) < MaxDefinitions
      /\ obj' = [obj EXCEPT !.reg[c] = <<[tag |-> tag, schema |-> schema, thread |-> Thread(c)]>> \o rest,
                            !.head[c] = new, !.refs = Append(old, 1)]
      /\ spec' = [spec EXCEPT !.types[c][tag] = schema,
                              !.rebuilt = @ \/ (again /\ \E d \in Contexts \ {c} : obj.head[d] = head)]

\* The definitions: a leaf with its fields, a node with its variants, a graph
\* with its kind in front of its fields; body is what follows the word that says
\* which.
GraphTypes == {"generic", "cfg", "dfg", "call", "dep"}
prim_struct_define_leaf(c, tag, schema) ==
  schema.kind = "leaf" /\ (\A i \in DOMAIN schema.body : ~schema.body[i].variant) /\ eval_register_type(c, tag, schema)
prim_struct_define_node(c, tag, schema) ==
  schema.kind = "node" /\ (\A i \in DOMAIN schema.body : schema.body[i].variant) /\ eval_register_type(c, tag, schema)
prim_graph_define(c, tag, schema) ==
  schema.kind = "graph" /\ schema.body[1].name \in GraphTypes /\ eval_register_type(c, tag, schema)

-----------------------------------------------------------------------------
(* Values.  A name is what stands in front of a value in the field list: a   *)
(* symbol, or, when the schema was not that of a leaf, a whole variant.      *)

Fields(names, values) == [i \in DOMAIN names |-> <<names[i], values[i]>>]
Make(v, def, values) ==
  /\ Len(obj.structs) < MaxStructs + obj.updates
  /\ obj' = [obj EXCEPT !.structs = Append(@, v)]
  /\ spec' = [spec EXCEPT !.made = Append(@, [schema |-> def, values |-> values, flattened |-> FALSE])]

\* Whatever kind of schema it is, the values are matched with what follows.
prim_struct_create(c, tag, values) ==
  LET schema == eval_lookup_type(c, tag)
  IN  /\ InUse(c) /\ Intact(c)
      /\ schema # Nil
      /\ Len(schema.body) = Len(values)
      /\ Make([kind |-> "leaf", type |-> tag, variant |-> Nil, fields |-> Fields(schema.body, values)], schema, values)

\* Only a schema of variants has one with the tag.
prim_struct_create_node(c, tag, variant, values) ==
  LET schema == eval_lookup_type(c, tag)
      i == SelectInSeq(schema.body, LAMBDA b : b.variant /\ b.name = variant)
      symbols == [j \in DOMAIN schema.body[i].subs |-> [name |-> schema.body[i].subs[j], variant |-> FALSE, subs |-> << >>]]
  IN  /\ InUse(c) /\ Intact(c)
      /\ schema # Nil
      /\ i # 0
      /\ Len(symbols) = Len(values)
      /\ Make([kind |-> "node", type |-> tag, variant |-> variant, fields |-> Fields(symbols, values)], schema, values)

cell_struct_get_field(v, f) ==
  LET i == SelectInSeq(v.fields, LAMBDA p : ~p[1].variant /\ p[1].name = f) IN IF i = 0 THEN Nil ELSE v.fields[i][2]

prim_struct_get_node(v, f) == IF v.kind = "node" THEN cell_struct_get_field(v, f) ELSE Nil
prim_struct_type_check(v, tag) == v.type = tag
prim_struct_is_node(v, tag, variant) == v.kind = "node" /\ v.type = tag /\ v.variant = variant

\* The copy is always a leaf; fields of the same name are all replaced.
prim_struct_update_field(i, f, x) ==
  LET v == obj.structs[i]
      hit(p) == ~p[1].variant /\ p[1].name = f
      def == spec.made[i]
  IN  /\ obj.updates < MaxUpdates
      /\ cell_struct_get_field(v, f) # Nil
      /\ obj' = [obj EXCEPT !.structs =
                   Append(@, [kind |-> "leaf", type |-> v.type, variant |-> Nil,
                              fields |-> [j \in DOMAIN v.fields |-> IF hit(v.fields[j]) THEN <<v.fields[j][1], x>>
                                                                    ELSE v.fields[j]]]),
                            !.updates = @ + 1]
      /\ spec' = [spec EXCEPT !.made =
                    Append(@, [schema |-> def.schema, flattened |-> def.flattened \/ v.kind = "node",
                               values |-> [j \in DOMAIN def.values |-> IF hit(v.fields[j]) THEN x ELSE def.values[j]]])]

-----------------------------------------------------------------------------
(* A run of the schedulers: every context is a copy of the main one, which   *)
(* is put back at the end.                                                   *)

StartRun ==
  /\ ~obj.run /\ obj.runs = 0
  /\ obj' = [obj EXCEPT !.run = TRUE, !.runs = @ + 1,
                        !.reg = [c \in Contexts |-> obj.reg["main"]], !.head = [c \in Contexts |-> obj.head["main"]]]
  /\ spec' = [spec EXCEPT !.types = [c \in Contexts |-> @["main"]]]

EndRun ==
  /\ obj.run
  /\ obj' = [obj EXCEPT !.run = FALSE]
  /\ UNCHANGED spec

Next ==
  \/ StartRun \/ EndRun
  \/ \E c \in Contexts, tag \in TypeTags :
       \/ \E schema \in Schemas : \/ prim_struct_define_leaf(c, tag, schema)
                                 \/ prim_struct_define_node(c, tag, schema)
                                 \/ prim_graph_define(c, tag, schema)
       \/ \E values \in FieldLists : \/ prim_struct_create(c, tag, values)
                                     \/ \E v \in VariantTags : prim_struct_create_node(c, tag, v, values)
  \/ \E i \in DOMAIN obj.structs, f \in {"x", "y"}, x \in NewValues : prim_struct_update_field(i, f, x)

-----------------------------------------------------------------------------

\* A context knows the definitions made in it and those the main context had
\* when the run began, nothing made on another scheduler; a head is freed under
\* a context only by a redefinition on a thread whose copy shares it.
RegistryExact ==
  \A c \in Contexts : InUse(c) =>
    /\ Intact(c) => \A t \in TypeTags : eval_lookup_type(c, t) = spec.types[c][t]
    /\ ~Intact(c) => spec.rebuilt

NamesOf(schema, variant) ==
  IF schema.kind = "node" THEN schema.body[SelectInSeq(schema.body, LAMBDA b : b.name = variant)].subs
  ELSE [i \in DOMAIN schema.body |-> schema.body[i].name]

\* A value made from a schema of its kind answers every field with the value
\* last put there, whatever was redefined since, the first of two fields with
\* one name; a value with a variant keeps type and variant, unless a field was
\* updated, which makes it a leaf.
ValuesExact ==
  \A i \in DOMAIN obj.structs :
    LET v == obj.structs[i]
        m == spec.made[i]
        names == NamesOf(m.schema, v.variant)
        first(f) == CHOOSE j \in DOMAIN names : names[j] = f /\ \A k \in 1..j-1 : names[k] # f
    IN  /\ prim_struct_type_check(v, v.type)
        /\ m.schema.kind = v.kind => \A f \in ToSet(names) : cell_struct_get_field(v, f) = m.values[first(f)]
        /\ (v.kind = "node") = (\E t \in TypeTags, w \in VariantTags : prim_struct_is_node(v, t, w))
        /\ v.kind = "leaf" /\ m.schema.kind = "node" /\ ~m.flattened =>
             \A f \in {"x", "y"} : cell_struct_get_field(v, f) = Nil

StructuresSound == RegistryExact /\ ValuesExact
=============================================================================
