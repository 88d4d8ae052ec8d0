------------------------------ MODULE MCSafeVm ------------------------------
(***************************************************************************)
(* An instance of SafeVm for TLC.                                          *)
(***************************************************************************)
EXTENDS SafeVm

MCCallbackOperations ==
  {SetException, GetArgsKw}

\* Nodes of a graph.
Str(bytes, frozen) ==
  [kind |-> "string", bytes |-> bytes, frozen |-> frozen, default |-> FALSE, edges |-> <<>>]
Arr(frozen, edges) ==
  [kind |-> "array", bytes |-> 0, frozen |-> frozen, default |-> FALSE, edges |-> edges]
Hsh(frozen, default, edges) ==
  [kind |-> "hash", bytes |-> 0, frozen |-> frozen, default |-> default, edges |-> edges]

N(n) == <<"node", n>>
B(n) == <<"boxed", n>>
Sym(n) == <<"symbol", n>>
One == <<"integer", 1>>
Null == <<"constant", 0>>

Graph(root, nodes) == [root |-> root, nodes |-> nodes]

MCGraphs ==
  { \* scalars, and an array that contains itself
    Graph(Sym(1), <<>>), Graph(B(1), <<>>), Graph(N(1), <<Arr(TRUE, <<N(1), One>>)>>),
    \* a string with two names
    Graph(N(1), <<Arr(FALSE, <<N(2), N(2)>>), Str(1, FALSE)>>),
    \* a hash with a frozen string for a key and itself as its default
    Graph(N(2), <<Str(1, TRUE), Hsh(TRUE, TRUE, <<N(1), B(2), N(2)>>)>>),
    \* keys of two kinds; equal keys; equal strings for keys
    Graph(N(1), <<Hsh(FALSE, FALSE, <<Sym(1), One, B(1), Sym(1), One, Null>>)>>),
    Graph(N(1), <<Hsh(FALSE, FALSE, <<B(1), One, B(1), One>>)>>),
    Graph(N(1), <<Hsh(FALSE, FALSE, <<N(2), One, N(3), One>>), Str(1, TRUE), Str(1, TRUE)>>),
    \* a dangling node, a key that is a constant or not frozen, half a pair
    Graph(N(2), <<Arr(FALSE, <<>>)>>),
    Graph(N(1), <<Hsh(FALSE, FALSE, <<Null, One>>)>>),
    Graph(N(1), <<Hsh(FALSE, FALSE, <<N(2), One>>), Str(1, FALSE)>>),
    Graph(N(1), <<Hsh(FALSE, FALSE, <<Sym(1)>>)>>) }

Symmetry == Permutations(Objects) \cup Permutations(Handles)
=============================================================================
