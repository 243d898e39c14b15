-------------------------------- MODULE Modules -------------------------------
(* The module system: a registry of the files that were loaded, what each    *)
(* defined and exports, and the three places a global name is looked up in:  *)
(* the list ctx->env, the table of all globals, and a module's own bindings. *)
(* What a file contains is chosen as it is read, so a file may change, fail  *)
(* half way, or be loaded again.                                             *)
EXTENDS Integers, Sequences, FiniteSets, SequencesExt

CONSTANTS
  ModuleNames,      \* files
  SymbolNames,
  Aliases,
  MaxForms,         \* expressions evaluated in all,
  MaxModuleDefs,    \* definitions among them
  Nil

VARIABLES obj, spec

Repl == "<repl>"

(* registry: the entries; index: the module a symbol is attributed to;       *)
(* frames: the files being loaded, innermost last, each with the parent to   *)
(* restore; synced: ctx->env is still the list global_env points to.         *)
(* spec: every definition with its module; the names a module hid; the       *)
(* loads that are known to have run to the end, and whether any ever failed. *)
Init ==
  /\ obj = [registry |-> [m \in ModuleNames |-> Nil], index |-> [s \in SymbolNames |-> Nil],
            alias |-> [a \in Aliases |-> Nil], current |-> Nil, frames |-> << >>,
            env |-> << >>, table |-> [s \in SymbolNames |-> 0], synced |-> TRUE, forms |-> 0, answer |-> Nil]
  /\ spec = [defs |-> << >>, ended |-> {}, failed |-> FALSE, loads |-> {}]

NewEntry == [state |-> "unloaded", symbols |-> << >>, exports |-> Nil,
             local |-> [s \in SymbolNames |-> 0], deps |-> << >>, cached |-> FALSE]
Known(m) == obj.registry[m] # Nil
Counted(o) == [o EXCEPT !.forms = @ + 1]

-----------------------------------------------------------------------------
(* The registry. *)

module_registry_add(reg, m) == IF reg[m] # Nil THEN reg ELSE [reg EXCEPT ![m] = NewEntry]

\* A symbol goes to the index only when its module has it for the first time.
module_registry_add_symbol(o, m, s) ==
  IF m = Repl \/ Contains(o.registry[m].symbols, s) THEN o
  ELSE [o EXCEPT !.registry[m].symbols = <<s>> \o @, !.index[s] = m]

module_registry_find_symbol(s) == obj.index[s]
module_registry_list_symbols(m) == obj.registry[m].symbols
module_registry_is_exported(o, m, s) ==
  o.registry[m] # Nil /\ (o.registry[m].exports = Nil \/ s \in o.registry[m].exports)
module_registry_define(o, m, s, v) == [o EXCEPT !.registry[m].local[s] = v]
module_registry_lookup(m, s) == IF Known(m) THEN obj.registry[m].local[s] ELSE 0
module_registry_get_exports(m) ==
  IF obj.registry[m].exports # Nil THEN obj.registry[m].exports ELSE ToSet(obj.registry[m].symbols)

module_registry_add_dependency(reg, m, d) ==
  IF m = d \/ Contains(reg[m].deps, d) THEN reg ELSE [reg EXCEPT ![m].deps = <<d>> \o @]

\* The search stops at the first cycle; what it has visited it does not enter again.
RECURSIVE detect_cycles_dfs(_, _, _), Descend(_, _, _)
detect_cycles_dfs(m, visited, stack) == Descend(obj.registry[m].deps, visited \cup {m}, <<m>> \o stack)
Descend(deps, visited, stack) ==
  IF deps = << >> THEN [found |-> FALSE, visited |-> visited, cycle |-> << >>]
  ELSE IF Contains(stack, deps[1]) THEN [found |-> TRUE, visited |-> visited, cycle |-> Reverse(stack)]
  ELSE LET r == IF deps[1] \in visited THEN [found |-> FALSE, visited |-> visited, cycle |-> << >>]
                ELSE detect_cycles_dfs(deps[1], visited, stack)
       IN  IF r.found THEN r ELSE Descend(Tail(deps), r.visited, stack)
module_registry_detect_cycles(m) == detect_cycles_dfs(m, {}, << >>)

-----------------------------------------------------------------------------
(* Names. *)

eval_lookup_env(env, s) == LET i == SelectInSeq(env, LAMBDA b : b.name = s) IN IF i = 0 THEN 0 ELSE env[i].value

\* While the list is the global one the table answers alone.
eval_lookup(s) ==
  LET bound == eval_lookup_env(obj.env, s)
  IN  IF obj.synced THEN obj.table[s] ELSE IF bound # 0 THEN bound ELSE obj.table[s]

\* alias.s : the alias decides, and what the module does not have is looked up as any name.
Qualified(a, s) ==
  LET m == obj.alias[a]
  IN  IF m = Nil THEN 0
      ELSE IF ~module_registry_is_exported(obj, m, s) THEN 0 ELSE module_registry_lookup(m, s)

Here == IF obj.current = Nil THEN Repl ELSE obj.current
NewValue == Len(spec.defs) + 1

\* The list gets what is exported, the table everything.
eval_define(s) ==
  LET v == NewValue
      o == IF Here = Repl THEN obj
           ELSE module_registry_define(module_registry_add_symbol(obj, Here, s), Here, s, v)
      public == Here = Repl \/ module_registry_is_exported(o, Here, s)
  IN  /\ obj' = Counted([o EXCEPT !.env = IF public THEN <<[name |-> s, value |-> v, of |-> Here]>> \o @ ELSE @,
                                  !.synced = TRUE, !.table[s] = v])
      /\ spec' = [spec EXCEPT !.defs = Append(@, [name |-> s, of |-> Here, public |-> public])]

-----------------------------------------------------------------------------
(* Loading.  A load that fails returns its error to the file that asked for  *)
(* it, which fails too unless it looks at the answer itself (guarded).       *)

\* An error leaves the innermost file; its parent is the loading one again.
Fail_keeps_current(o) ==
  LET n == Len(o.frames)
      f == o.frames[n]
  IN  [o EXCEPT !.registry[f.file].state = "unloaded", !.frames = SubSeq(@, 1, n - 1)]

Fail(o) ==
  LET n == Len(o.frames)
      f == o.frames[n]
  IN  [o EXCEPT !.registry[f.file].state = "unloaded", !.frames = SubSeq(@, 1, n - 1), !.current = f.parent]

RECURSIVE Unwind(_)
Unwind(o) ==
  LET n == Len(o.frames)
  IN  IF n = 0 THEN [o EXCEPT !.answer = "error"]
      ELSE IF o.frames[n].guarded THEN [Fail(o) EXCEPT !.answer = "error"]
      ELSE Unwind(Fail(o))

\* The error of a form: a guarded one is an answer, any other ends the file.
Raise(o, guarded) == IF guarded \/ o.frames = << >> THEN [o EXCEPT !.answer = "error"] ELSE Unwind(o)

\* A cached answer comes before anything is recorded about the file that asked.
prim_load(m, guarded) ==
  LET e == obj.registry[m]
      added == module_registry_add(obj.registry, m)
      parent == obj.current
  IN  IF Known(m) /\ e.state = "loaded" /\ e.cached
      THEN obj' = Counted([obj EXCEPT !.answer = "cached"]) /\ UNCHANGED spec
      ELSE IF Known(m) /\ e.state = "loading"
      THEN obj' = Raise(Counted(obj), guarded) /\ spec' = [spec EXCEPT !.failed = @ \/ (~guarded /\ obj.frames # << >>)]
      ELSE /\ obj' = Counted([obj EXCEPT
                !.registry = [(IF parent # Nil THEN module_registry_add_dependency(added, parent, m) ELSE added)
                                EXCEPT ![m].state = "loading"],
                !.current = m,
                !.frames = Append(@, [file |-> m, parent |-> parent, guarded |-> guarded])])
           /\ spec' = [spec EXCEPT !.ended = @ \ {m},
                                   !.loads = IF parent = Nil THEN @ ELSE @ \cup {<<parent, m>>}]

\* The form after the last one.
EndOfFile ==
  LET n == Len(obj.frames)
      f == obj.frames[n]
  IN  /\ n > 0
      /\ obj' = [obj EXCEPT !.registry[f.file].state = "loaded", !.registry[f.file].cached = TRUE,
                            !.current = f.parent, !.frames = SubSeq(@, 1, n - 1), !.answer = "value"]
      /\ spec' = [spec EXCEPT !.ended = @ \cup {f.file}]

\* A file that does not exist, an expression that is an error.
FormFails(guarded) ==
  /\ obj' = Raise(Counted(obj), guarded)
  /\ spec' = [spec EXCEPT !.failed = @ \/ (~guarded /\ obj.frames # << >>)]

-----------------------------------------------------------------------------
(* Exports and imports. *)

prim_module_exports(m, names) ==
  /\ Known(m)
  /\ obj' = Counted([obj EXCEPT !.registry[m].exports = names])
  /\ UNCHANGED spec

\* Inside a file the declaration is about that file, whatever name it gives.
\* Bindings are taken out of the list by name, whoever made them.
prim_module_define(named, names) ==
  LET m == IF obj.current # Nil THEN obj.current ELSE named
      hidden(b) == obj.registry[m].local[b.name] # 0 /\ b.name \notin names
  IN  /\ obj' = Counted(IF ~Known(m) THEN obj
                        ELSE IF \A s \in SymbolNames : obj.registry[m].local[s] = 0
                        THEN [obj EXCEPT !.registry[m].exports = names]
                        ELSE [obj EXCEPT !.registry[m].exports = names, !.synced = (obj.env = << >>),
                                         !.env = SelectSeq(@, LAMBDA b : ~hidden(b))])
      /\ UNCHANGED spec

\* The names are bound one after the other up to the first that is not exported.
Selected(m, names) ==
  LET stop == SelectInSeq(names, LAMBDA s : ~module_registry_is_exported(obj, m, s))
      taken == IF stop = 0 THEN names ELSE SubSeq(names, 1, stop - 1)
      bound == SelectSeq(taken, LAMBDA s : module_registry_lookup(m, s) # 0)
  IN  [env |-> Reverse([i \in DOMAIN bound |-> [name |-> bound[i], value |-> module_registry_lookup(m, bound[i]), of |-> m]]),
       failed |-> stop # 0]

\* The module is already loaded (otherwise this is a load and then this).
prim_module_import_validated(m, a, names, guarded) ==
  LET r == Selected(m, names)
      o == [obj EXCEPT !.alias[a] = m, !.env = r.env \o @, !.synced = @ /\ r.env = << >>]
  IN  /\ Known(m) /\ obj.registry[m].state = "loaded" /\ obj.registry[m].cached
      /\ obj' = IF r.failed THEN Raise(Counted(o), guarded) ELSE Counted(o)
      /\ spec' = [spec EXCEPT !.failed = @ \/ (r.failed /\ ~guarded /\ obj.frames # << >>)]

Form ==
  /\ obj.forms < MaxForms
  /\ \/ \E s \in SymbolNames : Len(spec.defs) < MaxModuleDefs /\ eval_define(s)
     \/ \E m \in ModuleNames, guarded \in BOOLEAN : prim_load(m, guarded)
     \/ \E guarded \in BOOLEAN : FormFails(guarded)
     \/ \E m \in ModuleNames, names \in SUBSET SymbolNames : \/ prim_module_exports(m, names)
                                                           \/ prim_module_define(m, names)
     \/ \E m \in ModuleNames, a \in Aliases, guarded \in BOOLEAN, s, t \in SymbolNames :
          prim_module_import_validated(m, a, <<s, t>>, guarded)

Next == Form \/ EndOfFile

-----------------------------------------------------------------------------

Files == {obj.frames[i].file : i \in DOMAIN obj.frames}
LastIn(m, s) == {i \in DOMAIN spec.defs : spec.defs[i].of = m /\ spec.defs[i].name = s}
Latest(S) == IF S = {} THEN 0 ELSE CHOOSE i \in S : \A j \in S : j <= i

\* A file is being loaded exactly while it is among the open ones, each once;
\* definitions go to the innermost; what counts as loaded ran to its last
\* form, however many loads around it or inside it failed.
LoadingExact ==
  /\ Cardinality(Files) = Len(obj.frames)
  /\ obj.current = (IF obj.frames = << >> THEN Nil ELSE obj.frames[Len(obj.frames)].file)
  /\ \A m \in ModuleNames : Known(m) =>
       /\ (obj.registry[m].state = "loading") = (m \in Files)
       /\ (obj.registry[m].state = "loaded") = (m \in spec.ended)

\* A module's bindings are the last definitions its own files made, its
\* symbols the names of those; a symbol is attributed to a module that has it.
AttributionExact ==
  /\ \A m \in ModuleNames, s \in SymbolNames : Known(m) =>
       /\ module_registry_lookup(m, s) = Latest(LastIn(m, s))
       /\ Contains(module_registry_list_symbols(m), s) = (LastIn(m, s) # {})
  /\ \A s \in SymbolNames : (module_registry_find_symbol(s) = Nil) = (\A m \in ModuleNames : LastIn(m, s) = {})
  /\ \A s \in SymbolNames : module_registry_find_symbol(s) # Nil => LastIn(module_registry_find_symbol(s), s) # {}

\* A name never means a value given to another name; right after a definition
\* it means the latest one, whoever made it and whether or not it is exported;
\* a qualified name never leaves its module and never shows what is hidden.
NamesExact ==
  /\ \A s \in SymbolNames :
       /\ eval_lookup(s) # 0 => spec.defs[eval_lookup(s)].name = s
       /\ obj.synced => eval_lookup(s) = Latest({i \in DOMAIN spec.defs : spec.defs[i].name = s})
       /\ (eval_lookup(s) = 0) = (\A i \in DOMAIN spec.defs : spec.defs[i].name # s)
  /\ \A a \in Aliases, s \in SymbolNames : Qualified(a, s) # 0 =>
       /\ spec.defs[Qualified(a, s)].of = obj.alias[a] /\ spec.defs[Qualified(a, s)].name = s
       /\ s \in module_registry_get_exports(obj.alias[a])

\* The dependencies are loads that were asked for; the search finds a cycle
\* exactly when one can be reached; without a failed load there is none.
Reach(m) ==
  LET step(S) == S \cup UNION {ToSet(obj.registry[k].deps) : k \in S}
      grow[i \in 0..Cardinality(ModuleNames)] == IF i = 0 THEN {m} ELSE step(grow[i - 1])
  IN  grow[Cardinality(ModuleNames)]
OnCycle(k) == \E d \in ToSet(obj.registry[k].deps) : k \in Reach(d)
CyclesExact ==
  \A m \in ModuleNames : Known(m) =>
    /\ \A d \in ToSet(obj.registry[m].deps) : <<m, d>> \in spec.loads
    /\ module_registry_detect_cycles(m).found = (\E k \in Reach(m) : OnCycle(k))
    /\ OnCycle(m) => spec.failed

ModulesSound == LoadingExact /\ AttributionExact /\ NamesExact /\ CyclesExact
=============================================================================
