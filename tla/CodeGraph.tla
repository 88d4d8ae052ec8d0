----------------------------- MODULE CodeGraph -----------------------------
(***************************************************************************)
(* The order of a CodeDB (build/codedb_graph.zig): validation of the       *)
(* declared modules, then repeatedly the ready module with the least name. *)
(* A node has a name, a natural number that stands for its rank among all  *)
(* names (0 is no valid name), and a sequence of dependencies.             *)
(***************************************************************************)
EXTENDS Integers, SequencesExt

Nodes == [name : Nat, dependencies : Seq(Nat)]

Emitted == -1

FirstError(errors) ==
  LET bad == {i \in DOMAIN errors : errors[i] # "none"}
  IN  IF bad = {} THEN "none" ELSE errors[CHOOSE i \in bad : \A j \in bad : i <= j]

\* What is wrong with the name of node i.
NameError(nodes, i) ==
  IF nodes[i].name = 0 THEN "InvalidArtifactName"
  ELSE IF \E j \in 1 .. i-1 : nodes[j].name = nodes[i].name THEN "DuplicateArtifactName"
  ELSE "none"

\* What is wrong with dependency d of node i.
DependencyError(nodes, i, d) ==
  LET deps == nodes[i].dependencies
  IN  IF \E e \in 1 .. d-1 : deps[e] = deps[d] THEN "DuplicateArtifactDependency"
      ELSE IF \A n \in DOMAIN nodes : nodes[n].name # deps[d] THEN "MissingArtifactDependency"
      ELSE "none"

DependencyErrors(nodes, i) ==
  FirstError([d \in DOMAIN nodes[i].dependencies |-> DependencyError(nodes, i, d)])

ValidationError(nodes) ==
  IF nodes = <<>> THEN "EmptyCodeDB"
  ELSE FirstError([i \in DOMAIN nodes |-> NameError(nodes, i)]
                    \o [i \in DOMAIN nodes |-> DependencyErrors(nodes, i)])

\* Faulty variant: the first declared.
FirstDeclared(nodes, S) == CHOOSE i \in S : \A j \in S : i <= j

LeastNamed(nodes, S) == CHOOSE i \in S : \A j \in S : nodes[i].name <= nodes[j].name

\* Node i is emitted: those that depend on it wait for one less.
Emit(nodes, pending, i) ==
  [j \in DOMAIN nodes |->
     IF j = i THEN Emitted
     ELSE IF pending[j] # Emitted /\ nodes[i].name \in ToSet(nodes[j].dependencies)
       THEN pending[j] - 1
     ELSE pending[j]]

\* The slots that are filled, and what the other nodes wait for.
Filled(nodes) ==
  LET Fill[n \in 0 .. Len(nodes)] ==
        IF n = 0
          THEN [order |-> <<>>, pending |-> [i \in DOMAIN nodes |-> Len(nodes[i].dependencies)]]
          ELSE LET s == Fill[n-1]
                   ready == {i \in DOMAIN nodes : s.pending[i] = 0}
                   index == LeastNamed(nodes, ready)
               IN  IF ready = {} THEN s
                   ELSE [order |-> Append(s.order, index),
                         pending |-> Emit(nodes, s.pending, index)]
  IN  Fill[Len(nodes)]

\* The least dependency of node i that was not emitted.
PendingDependency(nodes, pending, i) ==
  LeastNamed(nodes, {j \in DOMAIN nodes : /\ pending[j] # Emitted
                                          /\ nodes[j].name \in ToSet(nodes[i].dependencies)})

\* A blocked node may merely depend on a cycle: follow dependencies into it.
CycleEdge(nodes, pending) ==
  LET Follow[n \in 0 .. Len(nodes)] ==
        IF n = 0 THEN LeastNamed(nodes, {i \in DOMAIN nodes : pending[i] # Emitted})
                 ELSE PendingDependency(nodes, pending, Follow[n-1])
      index == Follow[Len(nodes)]
  IN  <<nodes[index].name, nodes[PendingDependency(nodes, pending, index)].name>>

Order(nodes) ==
  LET invalid == ValidationError(nodes)
      filled == Filled(nodes)
  IN  IF invalid # "none" THEN [error |-> invalid, order |-> <<>>, cycle |-> <<>>]
      ELSE IF Len(filled.order) < Len(nodes)
        THEN [error |-> "ArtifactDependencyCycle", order |-> <<>>,
              cycle |-> CycleEdge(nodes, filled.pending)]
      ELSE [error |-> "none", order |-> filled.order, cycle |-> <<>>]

---------------------------------------------------------------------------
(* Reference *)

Names(nodes) == {nodes[i].name : i \in DOMAIN nodes}
Edges(nodes) == {<<nodes[i].name, d>> : i \in DOMAIN nodes, d \in Names(nodes)} \cap
                UNION {{<<nodes[i].name, d>> : d \in ToSet(nodes[i].dependencies)} : i \in DOMAIN nodes}

\* What is reachable from a by at least one edge.
Below(nodes, a) ==
  LET Grow[n \in 0 .. Len(nodes)] ==
        IF n = 0 THEN {e[2] : e \in {f \in Edges(nodes) : f[1] = a}}
                 ELSE Grow[n-1] \cup {e[2] : e \in {f \in Edges(nodes) : f[1] \in Grow[n-1]}}
  IN  Grow[Len(nodes)]

Cyclic(nodes) == \E a \in Names(nodes) : a \in Below(nodes, a)

\* The topological orders of the names.
Linearizations(nodes) ==
  {s \in [DOMAIN nodes -> Names(nodes)] :
     \A i, j \in DOMAIN nodes : /\ i # j => s[i] # s[j]
                                /\ <<s[i], s[j]>> \in Edges(nodes) => j < i}

\* s comes before t in the dictionary.
Before(s, t) ==
  \E i \in DOMAIN s : s[i] < t[i] /\ \A j \in 1 .. i-1 : s[j] = t[j]

NamesOf(nodes, order) == [i \in DOMAIN order |-> nodes[order[i]].name]
=============================================================================
