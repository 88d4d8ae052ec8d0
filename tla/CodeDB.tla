------------------------------- MODULE CodeDB -------------------------------
(***************************************************************************)
(* A CodeDB from its declaration to a running isolate: the build orders    *)
(* the modules (build/codedb_graph.zig), the compiler resolves the         *)
(* manifest (compileGraph of src/codedb.zig), and an isolate loads         *)
(* entrypoints with their dependencies (loadCodeDB of src/sandbox.zig).    *)
(*                                                                         *)
(* The isolate is seen from the loader: admission is one flag (an outer    *)
(* execution is under way or not; Isolate has the details), an execution   *)
(* may be refused in preflight, end in an exception, or be terminated      *)
(* after its last initializer.                                             *)
(***************************************************************************)
EXTENDS CodeGraph, FiniteSets

CONSTANTS
  Declarations,  \* the sequences of nodes that are built
  Manifests,     \* instantiations of the manifest; each has its identity
  MaxNodes,      \* the longest declaration
  Unbound,       \* no manifest
  Entrypoints,   \* the sets of names that may be entrypoints
  Corrupt        \* the sets of names whose image may be refused

ASSUME CodeDBAssumption ==
  Unbound \notin Manifests /\ MaxNodes \in Nat /\ Declarations \subseteq Seq(Nodes)

VARIABLES
  nodes,        \* the declared modules
  entrypoints,  \* names of the declared entrypoints
  corrupt,      \* names whose image is not admitted
  entries,      \* the compiled manifest; empty before the build
  identity,     \* codedb_identity
  loaded,       \* the indices with codedb_loaded set
  poisoned,     \* codedb_poisoned
  load,         \* the load under way
  ran,          \* history: the initializers that were started
  failed,       \* history: an execution of the loader failed
  result        \* what the last call to load returned

declared == <<nodes, entrypoints, corrupt>>
loader == <<identity, loaded, poisoned, load, ran, failed>>
vars == <<declared, entries, loader, result>>

Idle == [stage |-> "idle", images |-> {}, index |-> 0]

Init ==
  /\ nodes \in Declarations /\ entrypoints \in Entrypoints /\ corrupt \in Corrupt
  /\ entries = <<>>
  /\ identity = Unbound /\ loaded = {} /\ poisoned = FALSE
  /\ load = Idle /\ ran = <<>> /\ failed = FALSE
  /\ result = "none"

---------------------------------------------------------------------------
(* Build *)

\* compileGraph: dependencies by index; each must precede its dependent.
Compiled(order) ==
  [k \in DOMAIN order |->
     [name |-> nodes[order[k]].name,
      entrypoint |-> nodes[order[k]].name \in entrypoints,
      dependencies |-> {j \in 1 .. k-1 : nodes[order[j]].name
                                            \in ToSet(nodes[order[k]].dependencies)}]]

Resolved(compiled, order) ==
  \A k \in DOMAIN order :
    Cardinality(compiled[k].dependencies) = Len(nodes[order[k]].dependencies)

Build ==
  /\ entries = <<>> /\ result = "none"
  /\ LET built == Order(nodes)
         compiled == Compiled(built.order)
     IN  IF built.error = "none" /\ Resolved(compiled, built.order)
           THEN entries' = compiled /\ result' = "built"
           ELSE result' = built.error /\ UNCHANGED entries
  /\ UNCHANGED <<declared, loader>>

---------------------------------------------------------------------------
(* loadCodeDB *)

\* Faulty variant: one pass in the order of the manifest.
NeededForward(requested) ==
  LET Mark[k \in 0 .. requested] ==
        IF k = 0 THEN {requested}
        ELSE Mark[k-1] \cup IF k \in Mark[k-1] THEN entries[k].dependencies ELSE {}
  IN  Mark[requested]

\* The closure of an entrypoint, by one reverse pass.
Needed(requested) ==
  LET Mark[k \in 0 .. requested] ==
        IF k = 0 THEN {requested}
        ELSE LET i == requested + 1 - k
             IN  Mark[k-1] \cup IF i \in Mark[k-1] THEN entries[i].dependencies ELSE {}
  IN  Mark[requested]

\* Images that are not loaded yet.
Images(requested) == Needed(requested) \ loaded

\* How a request ends before anything runs: an error, "false", or "run".
Answer(m, name) ==
  LET found == {i \in DOMAIN entries : entries[i].name = name}
      requested == CHOOSE i \in found : TRUE
  IN  IF found = {} THEN "UnknownArtifact"
      ELSE IF ~entries[requested].entrypoint THEN "NotEntrypoint"
      ELSE IF load # Idle THEN "IsolateThreadBusy"
      ELSE IF identity \notin {Unbound, m} THEN "CodeDBManifestMismatch"
      ELSE IF poisoned THEN "CodeDBPoisoned"
      ELSE IF requested \in loaded THEN "false"
      ELSE IF \E i \in Images(requested) : entries[i].name \in corrupt THEN "InvalidArtifact"
      ELSE "run"

\* The request is answered at once; one that would run may lack memory.
Refuse(m, name) ==
  /\ entries # <<>>
  /\ result' = IF Answer(m, name) = "run" THEN "OutOfMemory" ELSE Answer(m, name)
  /\ UNCHANGED <<declared, entries, loader>>

\* The isolate is bound, and one outer execution is to run every image.
Begin(m, name) ==
  /\ entries # <<>> /\ Answer(m, name) = "run"
  /\ identity' = m
  /\ \E i \in DOMAIN entries :
       /\ entries[i].name = name
       /\ load' = [stage |-> "preflight", images |-> Images(i), index |-> 0]
  /\ UNCHANGED <<declared, entries, loaded, poisoned, ran, failed, result>>

\* Faulty variant: only an initializer that fails poisons the loader.
PoisonsIfRaised(stage) == poisoned \/ stage = "running"

\* Every failure of the execution poisons the loader.
Poisons(stage) == TRUE

Fail ==
  /\ load # Idle
  /\ poisoned' = Poisons(load.stage)
  /\ load' = Idle /\ failed' = TRUE
  /\ result' = IF load.stage = "running" THEN "RubyException" ELSE "Terminated"
  /\ UNCHANGED <<declared, entries, identity, loaded, ran>>

Preflight ==
  /\ load.stage = "preflight"
  /\ load' = [load EXCEPT !.stage = "between"]
  /\ UNCHANGED <<declared, entries, identity, loaded, poisoned, ran, failed, result>>

\* The initializers run in the order of the manifest.
StartInitializer ==
  /\ load.stage = "between"
  /\ \E next \in load.images :
       /\ \A i \in load.images : next <= i
       /\ load' = [stage |-> "running", images |-> load.images \ {next}, index |-> next]
       /\ ran' = Append(ran, next)
  /\ UNCHANGED <<declared, entries, identity, loaded, poisoned, failed, result>>

EndInitializer ==
  /\ load.stage = "running"
  /\ loaded' = loaded \cup {load.index}
  /\ load' = [load EXCEPT !.stage = "between", !.index = 0]
  /\ UNCHANGED <<declared, entries, identity, poisoned, ran, failed, result>>

\* No termination was pending at the outer return.
Succeed ==
  /\ load.stage = "between" /\ load.images = {}
  /\ load' = Idle
  /\ result' = "true"
  /\ UNCHANGED <<declared, entries, identity, loaded, poisoned, ran, failed>>

Next ==
  \/ Build
  \/ \E m \in Manifests, name \in 0 .. MaxNodes + 1 : Refuse(m, name) \/ Begin(m, name)
  \/ Preflight \/ StartInitializer \/ EndInitializer \/ Succeed \/ Fail

Spec == Init /\ [][Next]_vars

---------------------------------------------------------------------------

\* The build's order is the least of all topological orders by names, whatever
\* the order of declaration; it is refused exactly for a graph that has none,
\* and the edge it then reports lies on a cycle (build/codedb_graph.zig, order
\* and cycleEdge).
OrderSound ==
  result = "none" /\ ValidationError(nodes) = "none" =>  \* before the build
    LET built == Order(nodes)
        names == NamesOf(nodes, built.order)
    IN  IF Cyclic(nodes)
          THEN /\ built.error = "ArtifactDependencyCycle"
               /\ built.cycle \in Edges(nodes) /\ built.cycle[1] \in Below(nodes, built.cycle[2])
          ELSE /\ built.error = "none"
               /\ names \in Linearizations(nodes)
               /\ \A s \in Linearizations(nodes) : s = names \/ Before(names, s)

\* When an initializer starts, all it depends on, directly or not, has been
\* initialized, in this load or an earlier one (src/sandbox.zig, loadCodeDB).
LoadsInOrder ==
  load.stage = "running" =>
    /\ entries[load.index].dependencies \subseteq loaded
    /\ Below(nodes, entries[load.index].name) \subseteq {entries[i].name : i \in loaded}

\* No initializer is started twice; between loads either every one that was
\* started finished, or the loader is poisoned, and it is poisoned by every
\* execution that failed, that of a policy after the last initializer included.
LoadedOrPoisoned ==
  /\ \A i, j \in DOMAIN ran : ran[i] = ran[j] => i = j
  /\ load = Idle =>
       /\ failed => poisoned
       /\ ~poisoned => ToSet(ran) = loaded
=============================================================================
