------------------------------ MODULE MCCodeDB ------------------------------
(***************************************************************************)
(* An instance of CodeDB for TLC.                                          *)
(***************************************************************************)
EXTENDS CodeDB

Node(name, deps) == [name |-> name, dependencies |-> deps]

\* Every dependency graph of three modules, in every order of declaration.
Graphs3 ==
  {<<Node(p[1], SetToSeq(d[1])), Node(p[2], SetToSeq(d[2])), Node(p[3], SetToSeq(d[3]))>> :
     p \in {q \in [1 .. 3 -> 1 .. 3] : \A i, j \in 1 .. 3 : q[i] = q[j] => i = j},
     d \in [1 .. 3 -> SUBSET (1 .. 3)]}

\* Graphs that are refused before they are ordered, and larger ones.
MCDeclarations ==
  Graphs3 \cup
  { <<>>, <<Node(0, <<>>)>>, <<Node(1, <<>>), Node(1, <<>>)>>,
    <<Node(1, <<2, 2>>), Node(2, <<>>)>>, <<Node(1, <<3>>)>>,
    \* a diamond, and a node that merely depends on a cycle
    <<Node(4, <<2, 3>>), Node(3, <<1>>), Node(1, <<>>), Node(2, <<1>>)>>,
    <<Node(1, <<4>>), Node(4, <<3>>), Node(3, <<2>>), Node(2, <<3>>)>> }

MCEntrypoints == {{1, 2, 3}, {3, 4}}
MCCorrupt == {{}, {2}}
=============================================================================
