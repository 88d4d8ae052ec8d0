---------------------------- MODULE Materialize ----------------------------
(***************************************************************************)
(* mrz_artifact_materialize of src/shim.c: a normalized StateCapsule graph *)
(* becomes Ruby objects.  Every shell is allocated before an edge is       *)
(* resolved, so that cycles and aliases are lookups in a table; a private  *)
(* table is the only root of the unfinished graph; any failure leaves the  *)
(* arena and mrb->exc as if nothing had been built.                        *)
(*                                                                         *)
(* A graph is [nodes, root].  A reference is <<tag, payload>>: "constant"  *)
(* (nil, false, true), "integer" (one that fits a word), "symbol", "boxed" *)
(* (a float or a wide integer, which needs an object), "node", or anything *)
(* else.  In the heap an immediate value is the reference itself.          *)
(***************************************************************************)
EXTENDS SafeCall

CONSTANTS Graphs  \* bound: the graphs imported

\* The references a graph contains.
References(g) == {g.root} \cup UNION {ToSet(g.nodes[n].edges) : n \in DOMAIN g.nodes}

\* Nodes and edges are sequences, a flag is a Boolean, and an immediate value is
\* no object.
ASSUME GraphAssumption ==
  \A g \in Graphs :
    /\ g.nodes \in Seq(ToSet(g.nodes))
    /\ \A n \in DOMAIN g.nodes : /\ g.nodes[n].edges \in Seq(ToSet(g.nodes[n].edges))
                                 /\ g.nodes[n].default \in BOOLEAN
    /\ References(g) \cap Values = {}

---------------------------------------------------------------------------
(* mrz_artifact_graph_valid *)

RefValid(g, ref) ==
  \/ ref[1] \in {"constant", "integer", "symbol", "boxed"}
  \/ ref[1] = "node" /\ ref[2] \in DOMAIN g.nodes

HashKeyValid(g, ref) ==
  \/ ref[1] \in {"integer", "symbol", "boxed"}
  \/ ref[1] = "node" /\ g.nodes[ref[2]].kind = "string" /\ g.nodes[ref[2]].frozen

Defaults(node) == IF node.default THEN 1 ELSE 0
PairEdges(node) == IF node.kind = "hash" THEN Len(node.edges) - Defaults(node) ELSE 0

NodeValid(node) ==
  \/ node.kind = "string" /\ ~node.default /\ node.edges = <<>>
  \/ node.kind = "array" /\ ~node.default /\ node.bytes = 0
  \/ node.kind = "hash" /\ node.bytes = 0 /\ PairEdges(node) >= 0 /\ PairEdges(node) % 2 = 0

GraphValid(g) ==
  /\ RefValid(g, g.root)
  /\ \A n \in DOMAIN g.nodes :
       /\ NodeValid(g.nodes[n])
       /\ \A e \in DOMAIN g.nodes[n].edges :
            /\ RefValid(g, g.nodes[n].edges[e])
            /\ e <= PairEdges(g.nodes[n]) /\ e % 2 = 1 => HashKeyValid(g, g.nodes[n].edges[e])

---------------------------------------------------------------------------
(* The import in progress *)

ImportFrame(g) ==
  [kind |-> "import", graph |-> g, entry |-> Len(arena), stale |-> exc, table |-> Nil,
   phase |-> "table", node |-> 1, edge |-> 1, vals |-> <<>>]

InImport == escaped = FALSE /\ Top.kind = "import"
Phase(ph) == InImport /\ Top.phase = ph

Table == cells[Top.table].parts
Node == Top.graph.nodes[Top.node]
NodeObject == Table[Top.node]

\* Faulty variant: the arena as it was before the import.
TableForgotten == ArenaRestored(Top.entry)

\* mrz_artifact_trim_arena: the table is the only temporary root.
Trimmed == Append(ArenaRestored(Top.entry), Top.table)

\* Faulty variant: aliases of a node become copies of the one before it.
PreviousNode(id) == Table[IF id = 1 THEN 1 ELSE id - 1]

NodeValue(id) == Table[id]

\* mrz_artifact_decode_ref gives v; a symbol is interned, a number boxed.
Decoded(ref, v) ==
  \/ ref[1] = "node" /\ v = NodeValue(ref[2]) /\ UNCHANGED heapVars
  \/ /\ ref[1] = "boxed"
     /\ Allocate(v, [Empty EXCEPT !.kind = "boxed", !.bytes = ref[2]])
     /\ UNCHANGED <<exc, registered, stored, view>>
  \/ ref[1] \notin {"node", "boxed"} /\ v = ref /\ UNCHANGED heapVars

\* What hash and eql? tell apart.
KeyOf(v) == IF v \in Objects THEN <<cells[v].kind, cells[v].bytes>> ELSE v

KeysOf(o) == {KeyOf(cells[o].parts[i]) : i \in {j \in DOMAIN cells[o].parts : j % 2 = 1}}

---------------------------------------------------------------------------
(* Outcomes *)

Reported(ok, own, refused, due) ==
  last' = [ok |-> ok, own |-> own, refused |-> refused, due |-> due]

\* The graph is refused before anything happens.
Import(g) ==
  /\ InZig /\ Top.after[1] = "read" /\ Len(frames) < MaxFrames /\ Len(arena) < MaxCallArena
  /\ IF GraphValid(g)
       THEN frames' = Append(frames, ImportFrame(g)) /\ UNCHANGED last
       ELSE Reported(FALSE, Nil, TRUE, exc) /\ UNCHANGED frames
  /\ UNCHANGED <<heapVars, escaped>>

\* Everything is rolled back and the exception is consumed.
Fails(own, refused) ==
  /\ arena' = ArenaRestored(Top.entry)
  /\ exc' = Nil
  /\ frames' = Front(frames)
  /\ Reported(FALSE, own, refused, Nil)
  /\ UNCHANGED <<capacity, registered, stored, view, escaped>>

\* Faulty variant: no frame around mrb_protect_error.
PostludeUncaught ==
  /\ escaped' = TRUE
  /\ UNCHANGED <<arena, capacity, exc, frames, last, registered, stored, view>>

PostludeCaught == Fails(NoMem, FALSE)

\* mrb_protect_error is refused the arena slot of its result, be it a value or
\* an exception; the outer frame catches that.
PostludeRefused(result) ==
  /\ result \in Objects \cup {NoMem} /\ GrowthRefused(ArenaRestored(Top.entry))
  /\ PostludeCaught

\* mrb_protect_error returns without a raise.  An exception that was pending
\* before the import is taken for its own.
Completes(value) ==
  \/ /\ Top.stale = Nil
     /\ IF value \in Objects THEN Protect(ArenaRestored(Top.entry), value)
        ELSE arena' = ArenaRestored(Top.entry) /\ UNCHANGED capacity
     /\ frames' = Front(frames)
     /\ Reported(TRUE, Nil, FALSE, Nil)
     /\ UNCHANGED <<exc, registered, stored, view, escaped>>
  \/ Top.stale # Nil /\ Fails(Top.stale, FALSE)
  \/ PostludeRefused(value)

\* A hash that did not grow: duplicate keys.
Invalid == IF Top.stale # Nil THEN Fails(Top.stale, FALSE) ELSE Fails(Nil, TRUE)

---------------------------------------------------------------------------
(* Steps of mrz_artifact_materialize_body *)

Continue(f) == frames' = [frames EXCEPT ![Len(frames)] = f]

\* A graph without nodes needs no table.
ScalarRoot ==
  /\ Phase("table") /\ Top.graph.nodes = <<>>
  /\ Continue([Top EXCEPT !.phase = "root"])
  /\ UNCHANGED <<heapVars, last, escaped>>

NewTable ==
  /\ Phase("table") /\ Top.graph.nodes # <<>>
  /\ \E o \in Objects : /\ Allocate(o, [Empty EXCEPT !.kind = "table"])
                        /\ Continue([Top EXCEPT !.phase = "shell", !.table = o])
  /\ UNCHANGED <<exc, registered, stored, view, last, escaped>>

\* A string is complete, and frozen, at once.
NewShell ==
  /\ Phase("shell") /\ Top.vals = <<>>
  /\ \E o \in Objects :
       /\ Allocate(o, [Empty EXCEPT !.kind = Node.kind, !.bytes = Node.bytes,
                                    !.frozen = Node.kind = "string" /\ Node.frozen])
       /\ Continue([Top EXCEPT !.vals = <<o>>])
  /\ UNCHANGED <<exc, registered, stored, view, last, escaped>>

KeepShell ==
  /\ Phase("shell") /\ Top.vals # <<>>
  /\ cells' = [cells EXCEPT ![Top.table].parts = Append(@, Top.vals[1])]
  /\ arena' = Trimmed
  /\ LET all == Top.node = Len(Top.graph.nodes)
     IN  Continue([Top EXCEPT !.vals = <<>>, !.node = IF all THEN 1 ELSE @ + 1,
                              !.phase = IF all THEN "edges" ELSE @])
  /\ UNCHANGED <<alive, capacity, exc, registered, stored, view, last, escaped>>

Group == IF Top.edge <= PairEdges(Node) THEN 2 ELSE 1

DecodeEdge ==
  /\ Phase("edges") /\ Top.edge <= Len(Node.edges) /\ Len(Top.vals) < Group
  /\ \E v \in Objects \cup {Node.edges[Top.edge + Len(Top.vals)]} :
       /\ Decoded(Node.edges[Top.edge + Len(Top.vals)], v)
       /\ Continue([Top EXCEPT !.vals = Append(@, v)])
  /\ UNCHANGED <<last, escaped>>

\* The values decoded for an element, a pair or a default are linked.
LinkEdge ==
  /\ Phase("edges") /\ Top.edge <= Len(Node.edges) /\ Len(Top.vals) = Group
  /\ IF Group = 2 /\ KeyOf(Top.vals[1]) \in KeysOf(NodeObject)
       THEN Invalid /\ UNCHANGED <<alive, cells>>
       ELSE /\ cells' = [cells EXCEPT
                 ![NodeObject].parts = @ \o Top.vals,
                 ![NodeObject].default = Node.kind = "hash" /\ Group = 1]
            /\ arena' = Trimmed
            /\ Continue([Top EXCEPT !.vals = <<>>, !.edge = @ + Group])
            /\ UNCHANGED <<alive, capacity, exc, registered, stored, view, last, escaped>>

\* A container is frozen when it is complete.
NextNode ==
  /\ Phase("edges") /\ Top.edge > Len(Node.edges)
  /\ cells' = [cells EXCEPT ![NodeObject].frozen = Node.frozen]
  /\ LET all == Top.node = Len(Top.graph.nodes)
     IN  Continue([Top EXCEPT !.edge = 1, !.node = IF all THEN 1 ELSE @ + 1,
                              !.phase = IF all THEN "root" ELSE @])
  /\ UNCHANGED <<alive, arena, capacity, exc, registered, stored, view, last, escaped>>

DecodeRoot ==
  /\ Phase("root") /\ Top.vals = <<>>
  /\ \E v \in Objects \cup {Top.graph.root} :
       /\ Decoded(Top.graph.root, v)
       /\ Continue([Top EXCEPT !.vals = <<v>>])
  /\ UNCHANGED <<last, escaped>>

Return ==
  /\ Phase("root") /\ Top.vals # <<>>
  /\ Completes(Top.vals[1])
  /\ UNCHANGED <<alive, cells>>

\* Any step may find no memory, or raise something else.
ImportRaises ==
  /\ InImport
  /\ \/ (Fails(NoMem, FALSE) \/ PostludeRefused(NoMem)) /\ UNCHANGED alive
     \/ \E o \in Fresh : (Fails(o, FALSE) \/ PostludeRefused(o)) /\ alive' = alive \cup {o}
  /\ UNCHANGED cells

CollectInImport == InImport /\ CollectGarbage({}) /\ UNCHANGED callVars

ImportNext ==
  \/ ScalarRoot \/ NewTable \/ NewShell \/ KeepShell \/ DecodeEdge \/ LinkEdge
  \/ NextNode \/ DecodeRoot \/ Return \/ ImportRaises \/ CollectInImport

---------------------------------------------------------------------------

\* In these cells the value v is what the graph says: its nodes with their
\* kinds, bytes, flags and edges, each node one object.
Represents(g, v, in) ==
  \E object \in [DOMAIN g.nodes -> Objects] :
    LET Image(ref, w) == CASE ref[1] = "node"  -> w = object[ref[2]]
                           [] ref[1] = "boxed" -> /\ w \in Objects /\ in[w].kind = "boxed"
                                                  /\ in[w].bytes = ref[2]
                           [] OTHER -> w = ref
    IN  /\ \A m, n \in DOMAIN g.nodes : m # n => object[m] # object[n]
        /\ Image(g.root, v)
        /\ \A n \in DOMAIN g.nodes :
             LET c == in[object[n]]
             IN  /\ c.kind = g.nodes[n].kind /\ c.bytes = g.nodes[n].bytes
                 /\ c.frozen = g.nodes[n].frozen /\ c.default = g.nodes[n].default
                 /\ DOMAIN c.parts = DOMAIN g.nodes[n].edges
                 /\ \A i \in DOMAIN c.parts : Image(g.nodes[n].edges[i], c.parts[i])
=============================================================================
