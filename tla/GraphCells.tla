------------------------------ MODULE GraphCells ------------------------------
(* Graph cells and the primitives that search them.  Nodes and edges are     *)
(* lists to which everything is added at the front; an edge may lead to a    *)
(* node that was never added.  The searches keep their own lists of visited  *)
(* nodes and a list of nodes to do, which is used as a stack whatever the    *)
(* mode is called.  spec is the set of nodes and of edges.                   *)
EXTENDS Integers, Sequences, FiniteSets, SequencesExt

CONSTANTS GraphSize, MaxGraphNodes, MaxGraphEdges, Nil

VARIABLES obj, spec

GraphNodes == 1..GraphSize

Init ==
  /\ obj = [nodes |-> << >>, edges |-> << >>]
  /\ spec = [nodes |-> {}, edges |-> {}]

Put(s, x) == <<x>> \o s

\* The targets of n's edges, newest edge first.
Targets(n) ==
  LET own == SelectSeq(obj.edges, LAMBDA e : e[1] = n) IN [i \in DOMAIN own |-> own[i][2]]

-----------------------------------------------------------------------------
(* prim_graph_traverse *)

\* The adjacency list keeps the successors of a node oldest edge first.
Adjacent(n) == Reverse(Targets(n))

RECURSIVE Walk(_, _)
Walk(todo, seen) ==
  IF todo = << >> THEN seen
  ELSE LET n == Head(todo)
           next == Append(seen, n)
           push(st, m) == IF m \in ToSet(next) THEN st ELSE Put(st, m)
       IN  IF n \in ToSet(seen) THEN Walk(Tail(todo), seen)
           ELSE Walk(FoldLeft(push, Tail(todo), Adjacent(n)), next)

\* The results of a visitor that returns its argument; :bfs and :dfs alike.
prim_graph_traverse(start) == IF start \in ToSet(obj.nodes) THEN Walk(<<start>>, << >>) ELSE << >>

-----------------------------------------------------------------------------
(* prim_graph_reachable, prim_graph_successors, prim_graph_predecessors *)

RECURSIVE Search(_, _, _)
Search(todo, visited, to) ==
  IF todo = << >> THEN FALSE
  ELSE LET n == Head(todo)
       IN  CASE n = to -> TRUE
             [] n # to /\ n \in visited -> Search(Tail(todo), visited, to)
             [] OTHER -> Search(FoldLeft(Put, Tail(todo), Targets(n)), visited \cup {n}, to)

prim_graph_reachable(from, to) == Search(<<from>>, {}, to)

prim_graph_successors(n) == Reverse(Targets(n))
prim_graph_predecessors(n) ==
  LET into == SelectSeq(obj.edges, LAMBDA e : e[2] = n) IN Reverse([i \in DOMAIN into |-> into[i][1]])

-----------------------------------------------------------------------------
(* prim_graph_path: as above, and for each node it puts on the stack the     *)
(* node it came from; of several the newest entry counts.                    *)

\* A parent is recorded for every target, also one that was expanded before.
RECURSIVE Explore_reparent(_, _, _, _)
Explore_reparent(todo, visited, parent, to) ==
  IF todo = << >> THEN <<FALSE, parent>>
  ELSE LET n == Head(todo)
       IN  CASE n = to -> <<TRUE, parent>>
             [] n # to /\ n \in visited -> Explore_reparent(Tail(todo), visited, parent, to)
             [] OTHER -> Explore_reparent(FoldLeft(Put, Tail(todo), Targets(n)), visited \cup {n},
                           [m \in GraphNodes |-> IF m \in ToSet(Targets(n)) THEN n ELSE parent[m]], to)

RECURSIVE Explore(_, _, _, _)
Explore(todo, visited, parent, to) ==
  IF todo = << >> THEN <<FALSE, parent>>
  ELSE LET n == Head(todo)
           fresh == SelectSeq(Targets(n), LAMBDA m : m \notin visited \cup {n})
       IN  CASE n = to -> <<TRUE, parent>>
             [] n # to /\ n \in visited -> Explore(Tail(todo), visited, parent, to)
             [] OTHER -> Explore(FoldLeft(Put, Tail(todo), fresh), visited \cup {n},
                           [m \in GraphNodes |-> IF m \in ToSet(fresh) THEN n ELSE parent[m]], to)

\* The way back from to; an unbounded loop in the code, cut after more steps
\* than there are nodes.
RECURSIVE Trace(_, _, _)
Trace(path, parent, from) ==
  LET n == Head(path)
  IN  CASE n = from -> path
        [] n # from /\ (parent[n] = Nil \/ Len(path) > Cardinality(GraphNodes)) -> << >>
        [] OTHER -> Trace(Put(path, parent[n]), parent, from)

prim_graph_path(from, to) ==
  LET r == Explore(<<from>>, {}, [n \in GraphNodes |-> Nil], to)
  IN  IF r[1] THEN Trace(<<to>>, r[2], from) ELSE << >>

-----------------------------------------------------------------------------
(* prim_graph_cycles: a depth-first search with three colours.  A node's     *)
(* edges are looked at from the first one again whenever the search returns  *)
(* to it, so an edge back to a grey node may be reported several times.      *)

RECURSIVE Paint(_, _, _, _)
Paint(stack, grey, black, cycles) ==
  IF stack = << >> THEN [black |-> black, cycles |-> cycles]
  ELSE LET n == Head(stack)
           targets == Targets(n)
           white == {i \in DOMAIN targets : targets[i] \notin grey \cup black}
           first == IF white = {} THEN Len(targets) + 1 ELSE CHOOSE i \in white : \A j \in white : i <= j
           back == SelectSeq(SubSeq(targets, 1, first - 1), LAMBDA m : m \in grey)
           found == FoldLeft(LAMBDA cs, m : Put(cs, <<n, m>>), cycles, back)
       IN  IF white = {} THEN Paint(Tail(stack), grey \ {n}, black \cup {n}, found)
           ELSE Paint(Put(stack, targets[first]), grey \cup {targets[first]}, black, found)

prim_graph_cycles ==
  LET visit(r, n) == IF n \in r.black THEN r ELSE Paint(<<n>>, {n}, r.black, r.cycles)
  IN  FoldLeft(visit, [black |-> {}, cycles |-> << >>], obj.nodes).cycles

-----------------------------------------------------------------------------
(* The operations return a new graph; a behaviour goes on with the last one. *)

cell_graph_add_node(n) ==
  /\ Len(obj.nodes) < MaxGraphNodes
  /\ obj' = [obj EXCEPT !.nodes = Put(@, n)]
  /\ spec' = [spec EXCEPT !.nodes = @ \cup {n}]

cell_graph_add_edge(n, m) ==
  /\ Len(obj.edges) < MaxGraphEdges
  /\ obj' = [obj EXCEPT !.edges = Put(@, <<n, m>>)]
  /\ spec' = [spec EXCEPT !.edges = @ \cup {<<n, m>>}]

\* Nodes are interchangeable and do not mix with edges, so they come first and
\* in one order.
Next ==
  \/ obj.edges = << >> /\ \E n \in 1 .. Cardinality(spec.nodes) + 1 : cell_graph_add_node(n)
  \/ \E n, m \in GraphNodes : cell_graph_add_edge(n, m)

-----------------------------------------------------------------------------
(* What a search should say, from the set of edges alone. *)

Closed(S) == \A e \in spec.edges : e[1] \in S => e[2] \in S
From(n) == {m \in GraphNodes : \A S \in SUBSET GraphNodes : n \in S /\ Closed(S) => m \in S}
OnCycle == {e \in spec.edges : e[1] \in From(e[2])}

Simple(s) == Cardinality(ToSet(s)) = Len(s)

TraverseSound ==
  \A n \in GraphNodes :
    LET seen == prim_graph_traverse(n)
    IN  /\ ToSet(seen) = (IF n \in spec.nodes THEN From(n) ELSE {})
        /\ Simple(seen)
        /\ \A i \in 2..Len(seen) : \E j \in 1..i-1 : <<seen[j], seen[i]>> \in spec.edges

PathSound ==
  \A n, m \in GraphNodes :
    LET path == prim_graph_path(n, m)
    IN  /\ prim_graph_reachable(n, m) <=> m \in From(n)
        /\ path # << >> <=> m \in From(n)
        /\ path # << >> => /\ path[1] = n /\ Last(path) = m /\ Simple(path)
                           /\ \A i \in 1..Len(path)-1 : <<path[i], path[i+1]>> \in spec.edges

\* A cycle is reported exactly if one can be reached from the added nodes, as
\* an edge that closes one.
CyclesSound ==
  LET cycles == ToSet(prim_graph_cycles)
      visible == UNION {From(n) : n \in spec.nodes}
  IN  /\ cycles \subseteq OnCycle
      /\ cycles = {} <=> \A e \in OnCycle : e[1] \notin visible

NeighboursSound ==
  \A n \in GraphNodes :
    /\ ToSet(prim_graph_successors(n)) = {m \in GraphNodes : <<n, m>> \in spec.edges}
    /\ ToSet(prim_graph_predecessors(n)) = {m \in GraphNodes : <<m, n>> \in spec.edges}

SearchesSound == TraverseSound /\ PathSound /\ CyclesSound /\ NeighboursSound
=============================================================================
