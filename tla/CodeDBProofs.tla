---------------------------- MODULE CodeDBProofs ----------------------------
(***************************************************************************)
(* The three properties of CodeDB, for every set of declarations,          *)
(* manifests, entrypoints and refused images.                              *)
(*                                                                         *)
(* LoadedOrPoisoned is decided by when the loaded flags and the poison are *)
(* written, not by the graph.  It speaks of the times between loads; the   *)
(* invariant LoaderInv says what holds within one: the images still to run *)
(* were never started, and what was started is what is loaded, and the     *)
(* initializer that runs.                                                  *)
(*                                                                         *)
(* OrderSound is a statement about Order alone.  The functions that fill   *)
(* the slots, follow a cycle, and find what is reachable are recursive:    *)
(* each is shown to exist (IteratesExist) and met step by step, and what   *)
(* holds of every step is found by UpTo, induction up to a bound, which    *)
(* rests on LeastElement.  SlotInv says what a partial order of slots is:  *)
(* each node the least that was ready when it was emitted, and each other  *)
(* waiting for the dependencies that were not.  Where no node is ready,    *)
(* the walk of CycleEdge is longer than there are nodes (WalkReturns).     *)
(*                                                                         *)
(* LoadsInOrder follows from ManifestInv, what the compiler resolved, and  *)
(* ClosureInv, that neither what is loaded nor what is being loaded needs  *)
(* anything else, and that initializers run least index first.             *)
(***************************************************************************)
EXTENDS CodeDB, SequenceTheorems, FiniteSetTheorems, TLAPS

---------------------------------------------------------------------------
(* LoadedOrPoisoned *)

\* The initializer that is running.
Running == IF load.stage = "running" THEN {load.index} ELSE {}

LoaderInv ==
  /\ \E S : ran \in Seq(S)
  /\ \A i, j \in DOMAIN ran : ran[i] = ran[j] => i = j
  /\ load # Idle => load.stage \in {"preflight", "between", "running"} /\ ~poisoned
  /\ failed => poisoned
  /\ ~poisoned => ToSet(ran) = loaded \cup Running
  /\ load.images \cap ToSet(ran) = {}

\* What a history that grows by one element contains.
LEMMA HistoryGrows ==
  ASSUME NEW S, NEW s \in Seq(S), NEW e, e \notin ToSet(s),
         \A i, j \in DOMAIN s : s[i] = s[j] => i = j
  PROVE  /\ \E T : Append(s, e) \in Seq(T)
         /\ ToSet(Append(s, e)) = ToSet(s) \cup {e}
         /\ \A i, j \in DOMAIN Append(s, e) :
              Append(s, e)[i] = Append(s, e)[j] => i = j
<1> DEFINE T == S \cup {e}
           a == Append(s, e)
<1>1. s \in Seq(T) /\ e \in T
  OBVIOUS
<1>2. /\ a \in Seq(T) /\ Len(s) \in Nat /\ DOMAIN s = 1 .. Len(s)
      /\ Len(a) = Len(s) + 1 /\ DOMAIN a = 1 .. Len(s) + 1
      /\ a[Len(s) + 1] = e /\ \A i \in 1 .. Len(s) : a[i] = s[i]
  BY <1>1
<1>3. \A i \in DOMAIN a : i \in DOMAIN s \/ i = Len(s) + 1
  BY <1>2
<1>4. \A i \in DOMAIN s : i \in DOMAIN a /\ a[i] = s[i] /\ a[i] # e
  BY <1>2 DEF ToSet
<1>5. Len(s) + 1 \in DOMAIN a
  BY <1>2
<1>6. ToSet(a) = ToSet(s) \cup {e}
  BY <1>2, <1>3, <1>4, <1>5 DEF ToSet
<1>7. \A i, j \in DOMAIN a : a[i] = a[j] => i = j
  BY <1>2, <1>3, <1>4
<1> QED BY <1>2, <1>6, <1>7

\* A request that is to run met an idle loader that is not poisoned.
LEMMA RunIsAdmitted ==
  ASSUME NEW m, NEW name, Answer(m, name) = "run"
  PROVE  load = Idle /\ ~poisoned
BY DEF Answer

\* Every step keeps the invariant.
LEMMA LoaderStep ==
  ASSUME LoaderInv, [Next]_vars
  PROVE  LoaderInv'
<1> USE DEF LoaderInv, Running
<1>1. CASE Build
  BY <1>1 DEF Build, loader
<1>2. ASSUME NEW m, NEW name, Refuse(m, name)
      PROVE  LoaderInv'
  BY <1>2 DEF Refuse, loader
<1>3. ASSUME NEW m, NEW name, Begin(m, name)
      PROVE  LoaderInv'
  <2>1. load = Idle /\ ~poisoned
    BY <1>3, RunIsAdmitted DEF Begin
  <2>2. ToSet(ran) = loaded
    BY <2>1 DEF Idle
  <2>3. /\ load'.stage = "preflight" /\ load'.images \cap loaded = {}
        /\ UNCHANGED <<loaded, poisoned, ran, failed>>
    BY <1>3 DEF Begin, Images
  <2> QED BY <2>1, <2>2, <2>3
<1>4. CASE Preflight
  BY <1>4 DEF Preflight, Idle
<1>5. CASE StartInitializer
  <2>1. PICK next \in load.images :
          /\ load' = [stage |-> "running", images |-> load.images \ {next}, index |-> next]
          /\ ran' = Append(ran, next)
    BY <1>5 DEF StartInitializer
  <2>2. /\ load.stage = "between" /\ load # Idle
        /\ UNCHANGED <<loaded, poisoned, failed>>
    BY <1>5 DEF StartInitializer, Idle
  <2>3. next \notin ToSet(ran)
    BY <2>1
  <2>4. /\ \E T : ran' \in Seq(T)
        /\ ToSet(ran') = ToSet(ran) \cup {next}
        /\ \A i, j \in DOMAIN ran' : ran'[i] = ran'[j] => i = j
    BY <2>1, <2>3, HistoryGrows
  <2>5. ToSet(ran)' = ToSet(ran')
    BY DEF ToSet
  <2>6. load'.stage = "running" /\ load'.index = next /\ load'.images = load.images \ {next}
    BY <2>1
  <2> QED BY <2>2, <2>4, <2>5, <2>6
<1>6. CASE EndInitializer
  BY <1>6 DEF EndInitializer, Idle
<1>7. CASE Succeed
  BY <1>7 DEF Succeed, Idle
<1>8. CASE Fail
  BY <1>8 DEF Fail, Poisons, Idle
<1>9. CASE UNCHANGED vars
  BY <1>9 DEF vars, loader
<1> QED BY <1>1, <1>2, <1>3, <1>4, <1>5, <1>6, <1>7, <1>8, <1>9 DEF Next

\* The invariant holds in every reachable state.
LEMMA LoaderInvariant == Spec => []LoaderInv
<1>1. Init => LoaderInv
  BY DEF Init, LoaderInv, Running, Idle, ToSet
<1>2. LoaderInv /\ [Next]_vars => LoaderInv'
  BY LoaderStep
<1> QED BY <1>1, <1>2, PTL DEF Spec

\* Whatever is declared and requested, in whatever order and with failures at
\* any step, loadCodeDB (src/sandbox.zig) starts no initializer twice, and
\* between loads either all that was started is loaded or the loader is
\* poisoned.
THEOREM LoadedOrPoisonedHolds == Spec => []LoadedOrPoisoned
<1>1. LoaderInv => LoadedOrPoisoned
  BY DEF LoaderInv, LoadedOrPoisoned, Running, Idle
<1> QED BY <1>1, LoaderInvariant, PTL

---------------------------------------------------------------------------
(* Induction and recursion up to a bound *)

\* A nonempty set of naturals up to a bound has a least element.
LEMMA LeastElement ==
  ASSUME NEW N \in Nat, NEW B \in SUBSET (0 .. N), B # {}
  PROVE  \E m \in B : \A k \in B : m <= k
<1> DEFINE T == {1 .. n : n \in B}
<1>1. IsWellFoundedOn(StrictSubsetOrdering(1 .. N), SUBSET (1 .. N))
  <2> DEFINE S == 1 .. N
  <2>1. IsFiniteSet(S)
    BY FS_Interval
  <2> HIDE DEF S
  <2>2. IsWellFoundedOn(StrictSubsetOrdering(S), SUBSET S)
    BY <2>1, FS_StrictSubsetOrderingWellFounded, FS_FiniteSubsetsOfFinite
  <2> QED BY <2>2 DEF S
<1>2. T \subseteq SUBSET (1 .. N) /\ T # {}
  <2>1. \A n \in B : 1 .. n \subseteq 1 .. N
    OBVIOUS
  <2> QED BY <2>1
<1> HIDE DEF T
<1>3. PICK s \in T : \A r \in T : ~(<<r, s>> \in StrictSubsetOrdering(1 .. N))
  BY <1>1, <1>2, WFMin
<1> USE DEF T
<1>4. PICK m \in B : s = 1 .. m
  BY <1>3
<1>5. ASSUME NEW k \in B, ~(m <= k)
      PROVE  FALSE
  <2>1. /\ 1 .. k \in T /\ 1 .. k \subseteq 1 .. m /\ 1 .. m \subseteq 1 .. N
        /\ m \in 1 .. m /\ m \notin 1 .. k
    BY <1>5
  <2>2. <<1 .. k, 1 .. m>> \in StrictSubsetOrdering(1 .. N)
    BY <2>1 DEF StrictSubsetOrdering
  <2> QED BY <1>3, <1>4, <2>1, <2>2
<1> QED BY <1>5

\* Induction up to a bound, for a set: the least exception would have one before it.
LEMMA UpTo ==
  ASSUME NEW N \in Nat, NEW G, 0 \in G, \A n \in 1 .. N : n - 1 \in G => n \in G
  PROVE  \A n \in 0 .. N : n \in G
<1> DEFINE B == {n \in 0 .. N : n \notin G}
<1> SUFFICES ASSUME B # {} PROVE FALSE
  OBVIOUS
<1>1. PICK m \in B : \A k \in B : m <= k
  <2>1. B \in SUBSET (0 .. N)
    OBVIOUS
  <2> HIDE DEF B
  <2> QED BY <2>1, LeastElement
<1>2. m \in 1 .. N /\ m - 1 \notin B
  BY <1>1
<1> QED BY <1>1, <1>2

\* A function defined by recursion, with a table g for the step.
Iterates(f, N, z, g) == f = [n \in 0 .. N |-> IF n = 0 THEN z ELSE g[n][f[n-1]]]

LEMMA IteratesExist ==
  ASSUME NEW N \in Nat, NEW S, NEW z \in S, NEW g, \A n \in 1 .. N : \A s \in S : g[n][s] \in S
  PROVE  \E f \in [0 .. N -> S] : Iterates(f, N, z, g)
<1> DEFINE G == {m \in 0 .. N : \E f \in [0 .. m -> S] : Iterates(f, m, z, g)}
<1>1. 0 \in G
  <2> DEFINE f == [n \in 0 .. 0 |-> z]
  <2>1. f \in [0 .. 0 -> S] /\ f = [n \in 0 .. 0 |-> IF n = 0 THEN z ELSE g[n][f[n-1]]]
    OBVIOUS
  <2>2. f \in [0 .. 0 -> S] /\ Iterates(f, 0, z, g)
    BY <2>1 DEF Iterates
  <2> HIDE DEF f
  <2> QED BY <2>2
<1>2. ASSUME NEW m \in 1 .. N, m - 1 \in G
      PROVE  m \in G
  <2>1. PICK f \in [0 .. m - 1 -> S] : Iterates(f, m - 1, z, g)
    BY <1>2
  <2>2. \A n \in 0 .. m - 1 : f[n] = IF n = 0 THEN z ELSE g[n][f[n-1]]
    BY <2>1 DEF Iterates
  <2> DEFINE y == g[m][f[m-1]]
             h == [n \in 0 .. m |-> IF n = m THEN y ELSE f[n]]
  <2>3. y \in S
    BY <2>1
  <2> HIDE DEF y
  <2>4. /\ h \in [0 .. m -> S] /\ h[m] = y /\ \A k \in 0 .. m - 1 : h[k] = f[k]
        /\ h = [n \in 0 .. m |-> h[n]]
    BY <2>1, <2>3
  <2> HIDE DEF h
  <2>5. \A n \in 0 .. m : h[n] = IF n = 0 THEN z ELSE g[n][h[n-1]]
    <3> SUFFICES ASSUME NEW n \in 0 .. m
                 PROVE  h[n] = IF n = 0 THEN z ELSE g[n][h[n-1]]
      OBVIOUS
    <3>1. CASE n = m
      <4>1. m - 1 \in 0 .. m - 1 /\ n # 0
        BY <3>1
      <4> QED BY <2>4, <3>1, <4>1 DEF y
    <3>2. CASE n # m
      <4>1. n \in 0 .. m - 1 /\ (n # 0 => n - 1 \in 0 .. m - 1)
        BY <3>2
      <4> QED BY <2>2, <2>4, <4>1
    <3> QED BY <3>1, <3>2
  <2>6. Iterates(h, m, z, g)
    BY <2>4, <2>5 DEF Iterates
  <2> QED BY <2>4, <2>6
<1>3. N \in G
  <2> HIDE DEF G
  <2> QED BY <1>1, <1>2, UpTo
<1> QED BY <1>3

---------------------------------------------------------------------------
(* Validation *)

LEMMA FirstErrorNone ==
  ASSUME NEW errors, NEW n \in Nat, DOMAIN errors = 1 .. n, FirstError(errors) = "none"
  PROVE  \A i \in 1 .. n : errors[i] = "none"
<1> DEFINE bad == {i \in 1 .. n : errors[i] # "none"}
<1> SUFFICES ASSUME bad # {} PROVE FALSE
  OBVIOUS
<1>1. \E i \in bad : \A j \in bad : i <= j
  <2>1. bad \in SUBSET (0 .. n)
    OBVIOUS
  <2> HIDE DEF bad
  <2> QED BY <2>1, LeastElement
<1>2. (CHOOSE i \in bad : \A j \in bad : i <= j) \in bad
  <2> HIDE DEF bad
  <2> QED BY <1>1
<1> QED BY <1>2 DEF FirstError

\* Names are distinct, and so are the dependencies of a node, all of which are
\* names of nodes.
Valid(decl) ==
  /\ decl \in Seq(Nodes) /\ decl # <<>>
  /\ \A i, j \in DOMAIN decl : decl[i].name = decl[j].name => i = j
  /\ \A i \in DOMAIN decl :
       /\ \A d, e \in DOMAIN decl[i].dependencies :
            decl[i].dependencies[d] = decl[i].dependencies[e] => d = e
       /\ ToSet(decl[i].dependencies) \subseteq Names(decl)

LEMMA NodeFacts ==
  ASSUME NEW decl \in Seq(Nodes)
  PROVE  /\ Len(decl) \in Nat /\ DOMAIN decl = 1 .. Len(decl)
         /\ \A i \in DOMAIN decl :
              LET deps == decl[i].dependencies IN
              /\ decl[i].name \in Nat /\ deps \in Seq(Nat)
              /\ Len(deps) \in Nat /\ DOMAIN deps = 1 .. Len(deps)
              /\ ToSet(deps) \subseteq Nat
<1>1. Len(decl) \in Nat /\ DOMAIN decl = 1 .. Len(decl)
  OBVIOUS
<1>2. \A i \in DOMAIN decl : decl[i] \in Nodes
  OBVIOUS
<1>3. \A v \in Nodes : v.name \in Nat /\ v.dependencies \in Seq(Nat)
  BY DEF Nodes
<1>4. \A s \in Seq(Nat) : Len(s) \in Nat /\ DOMAIN s = 1 .. Len(s) /\ ToSet(s) \subseteq Nat
  BY DEF ToSet
<1> QED BY <1>1, <1>2, <1>3, <1>4

\* Two that are equal are found when the later one is checked.
LEMMA EarlierEqual ==
  ASSUME NEW n \in Nat, NEW f, \A i \in 1 .. n : \A j \in 1 .. i - 1 : f[j] # f[i],
         NEW i \in 1 .. n, NEW j \in 1 .. n, f[i] = f[j]
  PROVE  i = j
<1>1. CASE i < j
  <2>1. i \in 1 .. j - 1
    BY <1>1
  <2> QED BY <2>1
<1>2. CASE j < i
  <2>1. j \in 1 .. i - 1
    BY <1>2
  <2> QED BY <2>1
<1> QED BY <1>1, <1>2

LEMMA DependenciesValid ==
  ASSUME NEW decl \in Seq(Nodes), NEW i \in DOMAIN decl, DependencyErrors(decl, i) = "none"
  PROVE  /\ \A d, e \in DOMAIN decl[i].dependencies :
              decl[i].dependencies[d] = decl[i].dependencies[e] => d = e
         /\ ToSet(decl[i].dependencies) \subseteq Names(decl)
<1> DEFINE deps == decl[i].dependencies
           n == Len(deps)
           errors == [d \in DOMAIN deps |-> DependencyError(decl, i, d)]
<1>1. n \in Nat /\ DOMAIN deps = 1 .. n
  BY NodeFacts
<1>2. FirstError(errors) = "none" /\ DOMAIN errors = 1 .. n
  BY <1>1 DEF DependencyErrors
<1>3. \A d \in 1 .. n : errors[d] = DependencyError(decl, i, d)
  BY <1>1
<1> HIDE DEF errors, n
<1>4. \A d \in 1 .. n : DependencyError(decl, i, d) = "none"
  BY <1>1, <1>2, <1>3, FirstErrorNone
<1>5. \A d \in 1 .. n : /\ \A e \in 1 .. d - 1 : deps[e] # deps[d]
                        /\ \E m \in DOMAIN decl : decl[m].name = deps[d]
  BY <1>4 DEF DependencyError
<1> HIDE DEF deps
<1>6. \A d, e \in 1 .. n : deps[d] = deps[e] => d = e
  BY <1>1, <1>5, EarlierEqual
<1>7. ToSet(deps) \subseteq Names(decl)
  BY <1>1, <1>5 DEF ToSet, Names
<1> QED BY <1>1, <1>6, <1>7 DEF deps

LEMMA JoinedFunctions ==
  ASSUME NEW n \in Nat, NEW S, NEW f \in [1 .. n -> S], NEW g \in [1 .. n -> S]
  PROVE  /\ DOMAIN (f \o g) = 1 .. n + n
         /\ \A i \in 1 .. n : (f \o g)[i] = f[i] /\ (f \o g)[n + i] = g[i]
<1> DEFINE r == f \o g
<1>1. f \in Seq(S) /\ g \in Seq(S) /\ Len(f) = n /\ Len(g) = n
  OBVIOUS
<1>2. /\ r \in Seq(S) /\ Len(r) = n + n
      /\ \A i \in 1 .. Len(r) : r[i] = IF i <= n THEN f[i] ELSE g[i - n]
  BY <1>1, ConcatProperties
<1> HIDE DEF r
<1>3. DOMAIN r = 1 .. n + n
  BY <1>2
<1>4. ASSUME NEW i \in 1 .. n
      PROVE  r[i] = f[i] /\ r[n + i] = g[i]
  <2>1. i \in 1 .. Len(r) /\ i <= n /\ n + i \in 1 .. Len(r) /\ ~(n + i <= n) /\ n + i - n = i
    BY <1>2
  <2> QED BY <1>2, <2>1
<1> QED BY <1>3, <1>4 DEF r

LEMMA Validated ==
  ASSUME NEW decl \in Seq(Nodes), ValidationError(decl) = "none"
  PROVE  Valid(decl)
<1> DEFINE n == Len(decl)
           named == [i \in DOMAIN decl |-> NameError(decl, i)]
           depending == [i \in DOMAIN decl |-> DependencyErrors(decl, i)]
           all == named \o depending
<1>1. n \in Nat /\ DOMAIN decl = 1 .. n
  BY NodeFacts
<1>2. decl # <<>> /\ FirstError(all) = "none"
  BY DEF ValidationError
<1>3. /\ \A i \in 1 .. n : named[i] = NameError(decl, i)
      /\ \A i \in 1 .. n : depending[i] = DependencyErrors(decl, i)
  BY <1>1
<1>4. /\ DOMAIN all = 1 .. n + n
      /\ \A i \in 1 .. n : all[i] = named[i] /\ all[n + i] = depending[i]
  <2> DEFINE S == {named[i] : i \in 1 .. n} \cup {depending[i] : i \in 1 .. n}
  <2>1. DOMAIN named = 1 .. n /\ named = [i \in 1 .. n |-> named[i]]
        /\ DOMAIN depending = 1 .. n /\ depending = [i \in 1 .. n |-> depending[i]]
    BY <1>1
  <2> HIDE DEF named, depending, n
  <2>2. named \in [1 .. n -> S] /\ depending \in [1 .. n -> S]
    BY <2>1
  <2> HIDE DEF S
  <2> QED BY <1>1, <2>2, JoinedFunctions
<1> HIDE DEF named, depending
<1> HIDE DEF all, n
<1>5. \A i \in 1 .. n + n : all[i] = "none"
  <2>1. n + n \in Nat
    BY <1>1
  <2> QED BY <1>2, <1>4, <2>1, FirstErrorNone
<1>6. \A i \in 1 .. n : NameError(decl, i) = "none" /\ DependencyErrors(decl, i) = "none"
  <2> SUFFICES ASSUME NEW i \in 1 .. n
               PROVE  NameError(decl, i) = "none" /\ DependencyErrors(decl, i) = "none"
    OBVIOUS
  <2>1. i \in 1 .. n + n /\ n + i \in 1 .. n + n
    BY <1>1
  <2> QED BY <1>3, <1>4, <1>5, <2>1
<1>7. \A i, j \in 1 .. n : decl[i].name = decl[j].name => i = j
  <2> DEFINE f == [i \in 1 .. n |-> decl[i].name]
  <2>1. \A i \in 1 .. n : \A j \in 1 .. i - 1 : decl[j].name # decl[i].name
    BY <1>6 DEF NameError
  <2>2. \A i \in 1 .. n : f[i] = decl[i].name
    OBVIOUS
  <2>3. \A i \in 1 .. n : \A j \in 1 .. i - 1 : j \in 1 .. n
    BY <1>1
  <2> HIDE DEF f
  <2>4. \A i \in 1 .. n : \A j \in 1 .. i - 1 : f[j] # f[i]
    BY <2>1, <2>2, <2>3
  <2> QED BY <1>1, <2>2, <2>4, EarlierEqual
<1> QED BY <1>1, <1>2, <1>6, <1>7, DependenciesValid DEF Valid

---------------------------------------------------------------------------
(* The slots of the order *)

Stages(decl) == [order : Seq(DOMAIN decl), pending : [DOMAIN decl -> Int]]

Start(decl) ==
  [order |-> <<>>, pending |-> [i \in DOMAIN decl |-> Len(decl[i].dependencies)]]

Ready(decl, s) == {i \in DOMAIN decl : s.pending[i] = 0}

Slot(decl, s) ==
  IF Ready(decl, s) = {} THEN s
  ELSE [order |-> Append(s.order, LeastNamed(decl, Ready(decl, s))),
        pending |-> Emit(decl, s.pending, LeastNamed(decl, Ready(decl, s)))]

LEMMA LeastNamedFacts ==
  ASSUME NEW decl \in Seq(Nodes), NEW S, S \subseteq DOMAIN decl, S # {}
  PROVE  /\ LeastNamed(decl, S) \in S
         /\ \A j \in S : decl[LeastNamed(decl, S)].name <= decl[j].name
<1>1. \E i \in S : \A j \in S : decl[i].name <= decl[j].name
  <2>1. PICK a \in S : TRUE
    OBVIOUS
  <2> DEFINE N == decl[a].name
             B == {m \in 0 .. N : \E i \in S : decl[i].name = m}
  <2>2. \A i \in S : decl[i].name \in Nat
    BY NodeFacts
  <2>3. PICK m \in B : \A k \in B : m <= k
    <3>1. N \in Nat /\ B \in SUBSET (0 .. N) /\ N \in B
      BY <2>1, <2>2
    <3> HIDE DEF B, N
    <3> QED BY <3>1, LeastElement
  <2>4. PICK i \in S : decl[i].name = m
    BY <2>3
  <2>5. \A j \in S : decl[i].name <= decl[j].name
    BY <2>1, <2>2, <2>3, <2>4
  <2> QED BY <2>5
<1> QED BY <1>1 DEF LeastNamed

LEMMA StartTyped ==
  ASSUME NEW decl \in Seq(Nodes)
  PROVE  Start(decl) \in Stages(decl)
<1>1. \A i \in DOMAIN decl : Len(decl[i].dependencies) \in Int
  BY NodeFacts
<1> QED BY <1>1 DEF Start, Stages

LEMMA SlotTyped ==
  ASSUME NEW decl \in Seq(Nodes), NEW s \in Stages(decl)
  PROVE  Slot(decl, s) \in Stages(decl)
<1> DEFINE o == s.order
           p == s.pending
           R == Ready(decl, s)
           i == LeastNamed(decl, R)
<1>1. o \in Seq(DOMAIN decl) /\ p \in [DOMAIN decl -> Int]
  BY DEF Stages
<1>2. CASE R = {}
  BY <1>2 DEF Slot
<1>3. CASE R # {}
  <2>1. i \in DOMAIN decl
    <3>1. R \subseteq DOMAIN decl
      BY DEF Ready
    <3> HIDE DEF R
    <3>2. i \in R
      BY <1>3, <3>1, LeastNamedFacts
    <3> QED BY <3>1, <3>2
  <2>2. Slot(decl, s) = [order |-> Append(o, i), pending |-> Emit(decl, p, i)]
    BY <1>3 DEF Slot
  <2> HIDE DEF o, p, i
  <2>3. Append(o, i) \in Seq(DOMAIN decl)
    BY <1>1, <2>1
  <2>4. Emit(decl, p, i) \in [DOMAIN decl -> Int]
    BY <1>1 DEF Emit, Emitted
  <2> QED BY <2>2, <2>3, <2>4 DEF Stages
<1> QED BY <1>2, <1>3

\* Filled, slot by slot.
LEMMA FilledStepwise ==
  ASSUME NEW decl \in Seq(Nodes)
  PROVE  \E f \in [0 .. Len(decl) -> Stages(decl)] :
           /\ Filled(decl) = f[Len(decl)] /\ f[0] = Start(decl)
           /\ \A n \in 1 .. Len(decl) : f[n] = Slot(decl, f[n-1])
<1> DEFINE N == Len(decl)
           S == Stages(decl)
           z == Start(decl)
           g == [n \in 1 .. N |-> [s \in S |-> Slot(decl, s)]]
           Fills(f) == f = [n \in 0 .. N |-> IF n = 0 THEN z ELSE Slot(decl, f[n-1])]
           F == CHOOSE f : Fills(f)
<1>1. N \in Nat /\ z \in S
  BY NodeFacts, StartTyped
<1>2. \A n \in 1 .. N : \A s \in S : g[n][s] = Slot(decl, s) /\ g[n][s] \in S
  BY SlotTyped
<1>3. Filled(decl) = F[N]
  BY DEF Filled, Slot, Ready, Start
<1> HIDE DEF N, S, z, g
<1>4. PICK f \in [0 .. N -> S] : Iterates(f, N, z, g)
  BY <1>1, <1>2, IteratesExist
<1>5. f = [n \in 0 .. N |-> IF n = 0 THEN z ELSE g[n][f[n-1]]]
  BY <1>4 DEF Iterates
<1>6. \A n \in 0 .. N : f[n] = IF n = 0 THEN z ELSE Slot(decl, f[n-1])
  <2> SUFFICES ASSUME NEW n \in 0 .. N, n # 0
               PROVE  f[n] = Slot(decl, f[n-1])
    BY <1>1, <1>5
  <2>1. n - 1 \in 0 .. N /\ n \in 1 .. N
    BY <1>1
  <2> QED BY <1>2, <1>4, <1>5, <2>1
<1>7. Fills(f)
  BY <1>4, <1>6
<1>8. Fills(F)
  BY <1>7
<1> HIDE DEF F
<1>9. \A n \in 0 .. N : F[n] = IF n = 0 THEN z ELSE Slot(decl, F[n-1])
  BY <1>8
<1>10. \A n \in 0 .. N : F[n] \in S
  <2> DEFINE G == {n \in 0 .. N : F[n] \in S}
  <2>1. 0 \in G
    BY <1>1, <1>9
  <2>2. \A n \in 1 .. N : n - 1 \in G => n \in G
    BY <1>1, <1>9, SlotTyped DEF S
  <2> HIDE DEF G
  <2>3. \A n \in 0 .. N : n \in G
    BY <1>1, <2>1, <2>2, UpTo
  <2> QED BY <2>3 DEF G
<1>11. F \in [0 .. N -> S]
  <2>1. DOMAIN F = 0 .. N /\ F = [n \in 0 .. N |-> F[n]]
    BY <1>8
  <2> QED BY <1>10, <2>1
<1>12. F[0] = z /\ \A n \in 1 .. N : F[n] = Slot(decl, F[n-1])
  BY <1>1, <1>9
<1> QED BY <1>3, <1>11, <1>12 DEF N, S, z

\* What node i still waits for, when these were emitted.
WaitsFor(decl, emitted, i) ==
  ToSet(decl[i].dependencies) \ {decl[j].name : j \in emitted}

\* Node i was the least of those that could be emitted after these.
LeastNext(decl, emitted, i) ==
  /\ WaitsFor(decl, emitted, i) = {}
  /\ \A j \in DOMAIN decl \ emitted :
       WaitsFor(decl, emitted, j) = {} => decl[i].name <= decl[j].name

SlotInv(decl, s) ==
  /\ s \in Stages(decl)
  /\ \A j, k \in DOMAIN s.order : s.order[j] = s.order[k] => j = k
  /\ \A i \in DOMAIN decl :
       s.pending[i] = IF i \in ToSet(s.order) THEN Emitted
                      ELSE Cardinality(WaitsFor(decl, ToSet(s.order), i))
  /\ \A k \in DOMAIN s.order :
       LeastNext(decl, {s.order[j] : j \in 1 .. k - 1}, s.order[k])

\* The elements of a sequence without duplicates are as many as it is long.
LEMMA DistinctElements ==
  ASSUME NEW S, NEW s \in Seq(S), \A i, j \in DOMAIN s : s[i] = s[j] => i = j
  PROVE  IsFiniteSet(ToSet(s)) /\ Cardinality(ToSet(s)) = Len(s)
<1> DEFINE n == Len(s)
           T == ToSet(s)
<1>1. n \in Nat /\ DOMAIN s = 1 .. n /\ T = {s[i] : i \in 1 .. n}
  BY DEF ToSet
<1>2. s \in Bijection(1 .. n, T)
  <2>1. s \in [1 .. n -> T]
    BY <1>1
  <2>2. \A t \in T : \E i \in 1 .. n : s[i] = t
    BY <1>1
  <2> HIDE DEF n, T
  <2> QED BY <1>1, <2>1, <2>2 DEF Bijection, Injection, Surjection, IsInjective
<1> HIDE DEF n, T
<1>3. ExistsBijection(1 .. n, T)
  BY <1>2 DEF ExistsBijection
<1>4. IsFiniteSet(T) /\ Cardinality(T) = n
  BY <1>1, <1>3, FS_NatBijection, FS_CountingElements
<1> QED BY <1>4 DEF n, T

LEMMA WaitsFinite ==
  ASSUME NEW decl, Valid(decl), NEW emitted, NEW i \in DOMAIN decl
  PROVE  /\ IsFiniteSet(WaitsFor(decl, emitted, i))
         /\ Cardinality(WaitsFor(decl, emitted, i)) \in Nat
         /\ Cardinality(WaitsFor(decl, emitted, i)) = 0 <=> WaitsFor(decl, emitted, i) = {}
         /\ Cardinality(WaitsFor(decl, {}, i)) = Len(decl[i].dependencies)
<1> DEFINE deps == decl[i].dependencies
           w == WaitsFor(decl, emitted, i)
<1>1. deps \in Seq(Nat) /\ \A d, e \in DOMAIN deps : deps[d] = deps[e] => d = e
  BY NodeFacts DEF Valid
<1>2. w \subseteq ToSet(deps) /\ WaitsFor(decl, {}, i) = ToSet(deps)
  BY DEF WaitsFor
<1> HIDE DEF deps, w
<1>3. IsFiniteSet(ToSet(deps)) /\ Cardinality(ToSet(deps)) = Len(deps)
  BY <1>1, DistinctElements
<1>4. IsFiniteSet(w)
  BY <1>2, <1>3, FS_Subset
<1>5. Cardinality(w) \in Nat /\ (Cardinality(w) = 0 <=> w = {})
  BY <1>4, FS_CardinalityType, FS_EmptySet
<1> QED BY <1>2, <1>3, <1>4, <1>5 DEF w, deps

LEMMA StartSlots ==
  ASSUME NEW decl, Valid(decl)
  PROVE  SlotInv(decl, Start(decl))
<1> DEFINE s == Start(decl)
<1>1. s \in Stages(decl)
  BY StartTyped DEF Valid
<1>2. s.order = <<>> /\ \A i \in DOMAIN decl : s.pending[i] = Len(decl[i].dependencies)
  BY DEF Start
<1> HIDE DEF s
<1>3. DOMAIN s.order = {} /\ ToSet(s.order) = {}
  BY <1>2 DEF ToSet
<1>4. \A i \in DOMAIN decl : s.pending[i] = Cardinality(WaitsFor(decl, {}, i))
  BY <1>2, WaitsFinite
<1>5. SlotInv(decl, s)
  BY <1>1, <1>3, <1>4 DEF SlotInv
<1> QED BY <1>5 DEF s

\* The node of a slot is ready, and the least.
LEMMA ReadyNodes ==
  ASSUME NEW decl, Valid(decl), NEW s, SlotInv(decl, s)
  PROVE  /\ Ready(decl, s) = {i \in DOMAIN decl \ ToSet(s.order) :
                                 WaitsFor(decl, ToSet(s.order), i) = {}}
         /\ Ready(decl, s) # {} =>
              LET i == LeastNamed(decl, Ready(decl, s)) IN
              /\ i \in Ready(decl, s)
              /\ LeastNext(decl, ToSet(s.order), i)
<1> DEFINE E == ToSet(s.order)
           R == Ready(decl, s)
           i == LeastNamed(decl, R)
<1>1. R = {j \in DOMAIN decl \ E : WaitsFor(decl, E, j) = {}}
  <2> SUFFICES ASSUME NEW j \in DOMAIN decl
               PROVE  s.pending[j] = 0 <=> j \notin E /\ WaitsFor(decl, E, j) = {}
    BY DEF Ready
  <2>1. s.pending[j] = IF j \in E THEN Emitted ELSE Cardinality(WaitsFor(decl, E, j))
    BY DEF SlotInv
  <2> QED BY <2>1, WaitsFinite DEF Emitted
<1>2. CASE R # {}
  <2>1. R \subseteq DOMAIN decl /\ decl \in Seq(Nodes)
    BY <1>1 DEF Valid
  <2> HIDE DEF R, E
  <2>2. i \in R /\ \A j \in R : decl[i].name <= decl[j].name
    BY <1>2, <2>1, LeastNamedFacts
  <2> HIDE DEF i
  <2>3. LeastNext(decl, E, i)
    BY <1>1, <2>2 DEF LeastNext
  <2> QED BY <1>1, <2>2, <2>3 DEF R, E, i
<1> QED BY <1>1, <1>2

LEMMA NextSlot ==
  ASSUME NEW decl, Valid(decl), NEW s, SlotInv(decl, s)
  PROVE  SlotInv(decl, Slot(decl, s))
<1> DEFINE o == s.order
           p == s.pending
           R == Ready(decl, s)
           i == LeastNamed(decl, R)
           t == Slot(decl, s)
           q == Append(o, i)
           E == ToSet(o)
<1>1. CASE R = {}
  BY <1>1 DEF Slot
<1>2. CASE R # {}
  <2>1. i \in R /\ R = {j \in DOMAIN decl \ E : WaitsFor(decl, E, j) = {}} /\ LeastNext(decl, E, i)
    BY <1>2, ReadyNodes
  <2>2. t \in Stages(decl) /\ o \in Seq(DOMAIN decl) /\ p \in [DOMAIN decl -> Int]
    BY SlotTyped DEF SlotInv, Valid, Stages
  <2>3. t.order = q /\ t.pending = Emit(decl, p, i)
    BY <1>2 DEF Slot
  <2>4. /\ \A j \in DOMAIN decl : p[j] = IF j \in E THEN Emitted ELSE Cardinality(WaitsFor(decl, E, j))
        /\ \A j, k \in DOMAIN o : o[j] = o[k] => j = k
        /\ \A k \in DOMAIN o : LeastNext(decl, {o[j] : j \in 1 .. k - 1}, o[k])
    BY DEF SlotInv
  <2> HIDE DEF t, i, R
  <2>5. i \in DOMAIN decl /\ i \notin E
    BY <2>1
  <2> HIDE DEF o, p
  <2>6. /\ Len(o) \in Nat /\ DOMAIN o = 1 .. Len(o) /\ q \in Seq(DOMAIN decl)
        /\ DOMAIN q = 1 .. Len(o) + 1 /\ q[Len(o) + 1] = i /\ \A j \in 1 .. Len(o) : q[j] = o[j]
    BY <2>2, <2>5
  <2>7. /\ E = {o[j] : j \in 1 .. Len(o)} /\ ToSet(q) = E \cup {i}
        /\ \A j \in DOMAIN q : j \in 1 .. Len(o) \/ j = Len(o) + 1
    <3>1. \A j \in DOMAIN q : j \in 1 .. Len(o) \/ j = Len(o) + 1
      BY <2>6
    <3>2. E = {o[j] : j \in 1 .. Len(o)} /\ \A j \in 1 .. Len(o) : j \in DOMAIN q
      BY <2>6 DEF ToSet
    <3>3. Len(o) + 1 \in DOMAIN q
      BY <2>6
    <3>4. ToSet(q) = E \cup {i}
      BY <2>6, <3>1, <3>2, <3>3 DEF ToSet
    <3> QED BY <3>1, <3>2, <3>4
  <2> HIDE DEF q
  <2>8. \A j, k \in DOMAIN q : q[j] = q[k] => j = k
    BY <2>4, <2>5, <2>6, <2>7
  <2>9. ASSUME NEW j \in DOMAIN decl
        PROVE  Emit(decl, p, i)[j] = IF j \in ToSet(q) THEN Emitted
                                     ELSE Cardinality(WaitsFor(decl, ToSet(q), j))
    <3> DEFINE w == WaitsFor(decl, E, j)
               x == decl[i].name
               deps == ToSet(decl[j].dependencies)
    <3>1. Emit(decl, p, i)[j] = IF j = i THEN Emitted
                                ELSE IF p[j] # Emitted /\ x \in deps THEN p[j] - 1 ELSE p[j]
      BY DEF Emit
    <3>2. CASE j \in ToSet(q)
      BY <2>4, <2>7, <3>1, <3>2
    <3>3. CASE j \notin ToSet(q)
      <4>1. j # i /\ j \notin E /\ p[j] = Cardinality(w)
        BY <2>4, <2>7, <3>3
      <4>2. WaitsFor(decl, ToSet(q), j) = w \ {x}
        BY <2>7 DEF WaitsFor
      <4>3. x \in deps <=> x \in w
        <5>1. \A k \in E : decl[k].name # x
          <6>1. \A k \in E : k \in DOMAIN decl /\ k # i
            BY <2>2, <2>5, <2>6, <2>7
          <6> QED BY <2>5, <6>1 DEF Valid
        <5> QED BY <5>1 DEF WaitsFor
      <4>4. IsFiniteSet(w) /\ Cardinality(w) \in Nat
        BY WaitsFinite
      <4> HIDE DEF w, x, deps
      <4>5. Cardinality(w \ {x}) = IF x \in w THEN Cardinality(w) - 1 ELSE Cardinality(w)
        BY <4>4, FS_RemoveElement
      <4> QED BY <3>1, <3>3, <4>1, <4>2, <4>3, <4>4, <4>5 DEF Emitted
    <3> QED BY <3>2, <3>3
  <2>10. ASSUME NEW k \in DOMAIN q
         PROVE  LeastNext(decl, {q[j] : j \in 1 .. k - 1}, q[k])
    <3>1. CASE k \in 1 .. Len(o)
      <4>1. \A j \in 1 .. k - 1 : j \in 1 .. Len(o)
        BY <2>6, <3>1
      <4>2. {q[j] : j \in 1 .. k - 1} = {o[j] : j \in 1 .. k - 1}
        BY <2>6, <4>1
      <4> QED BY <2>4, <2>6, <3>1, <4>2
    <3>2. CASE k = Len(o) + 1
      <4>1. k - 1 = Len(o)
        BY <2>6, <3>2
      <4>2. {q[j] : j \in 1 .. k - 1} = E
        BY <2>6, <2>7, <4>1
      <4> QED BY <2>1, <2>6, <3>2, <4>2
    <3> QED BY <2>7, <3>1, <3>2
  <2>11. SlotInv(decl, t)
    BY <2>2, <2>3, <2>8, <2>9, <2>10 DEF SlotInv
  <2> QED BY <2>11 DEF t
<1> QED BY <1>1, <1>2

\* What the slots are when the build has filled them.
LEMMA FilledSlots ==
  ASSUME NEW decl, Valid(decl)
  PROVE  LET s == Filled(decl) IN
         SlotInv(decl, s) /\ (Len(s.order) = Len(decl) \/ Ready(decl, s) = {})
<1> DEFINE N == Len(decl)
<1>1. decl \in Seq(Nodes) /\ N \in Nat
  BY NodeFacts DEF Valid
<1>2. PICK f \in [0 .. N -> Stages(decl)] :
        /\ Filled(decl) = f[N] /\ f[0] = Start(decl)
        /\ \A n \in 1 .. N : f[n] = Slot(decl, f[n-1])
  BY <1>1, FilledStepwise
<1> HIDE DEF N
<1> DEFINE G == {n \in 0 .. N : /\ SlotInv(decl, f[n])
                                /\ Len(f[n].order) = n \/ Ready(decl, f[n]) = {}}
<1>3. 0 \in G
  <2>1. Len(Start(decl).order) = 0
    BY DEF Start
  <2> QED BY <1>1, <1>2, <2>1, StartSlots
<1>4. ASSUME NEW n \in 1 .. N, n - 1 \in G
      PROVE  n \in G
  <2> DEFINE s == f[n-1]
             t == f[n]
             R == Ready(decl, s)
  <2>1. SlotInv(decl, s) /\ (Len(s.order) = n - 1 \/ R = {})
    BY <1>4
  <2>2. t = Slot(decl, s)
    BY <1>2
  <2> HIDE DEF s, t, R
  <2>3. SlotInv(decl, t)
    BY <2>1, <2>2, NextSlot
  <2>4. CASE R = {}
    <3>1. t = s
      BY <2>2, <2>4 DEF Slot, R
    <3> QED BY <1>1, <2>3, <2>4, <3>1 DEF s, t, R
  <2>5. CASE R # {}
    <3> DEFINE i == LeastNamed(decl, R)
               o == s.order
    <3>1. t.order = Append(o, i)
      BY <2>2, <2>5 DEF Slot, R
    <3>2. o \in Seq(DOMAIN decl) /\ Len(o) = n - 1
      BY <2>1, <2>5 DEF SlotInv, Stages
    <3> HIDE DEF i, o
    <3>3. Len(t.order) = n
      BY <3>1, <3>2
    <3> QED BY <1>1, <2>3, <3>3 DEF t
  <2> QED BY <2>4, <2>5
<1>5. N \in G
  <2>1. \A n \in 1 .. N : n - 1 \in G => n \in G
    BY <1>4
  <2> HIDE DEF G
  <2>2. \A n \in 0 .. N : n \in G
    BY <1>1, <1>3, <2>1, UpTo
  <2> QED BY <1>1, <2>2
<1> QED BY <1>2, <1>5 DEF N

\* No node is emitted twice, so that filled slots hold all of them.
LEMMA SlotsFit ==
  ASSUME NEW decl, Valid(decl), NEW s, SlotInv(decl, s)
  PROVE  /\ s.order \in Seq(DOMAIN decl) /\ Len(s.order) \in Nat
         /\ DOMAIN s.order = 1 .. Len(s.order) /\ Len(s.order) <= Len(decl)
         /\ Len(s.order) = Len(decl) => ToSet(s.order) = DOMAIN decl
<1> DEFINE o == s.order
           n == Len(decl)
<1>1. o \in Seq(DOMAIN decl) /\ \A j, k \in DOMAIN o : o[j] = o[k] => j = k
  BY DEF SlotInv, Stages
<1>2. n \in Nat /\ DOMAIN decl = 1 .. n
  BY NodeFacts DEF Valid
<1> HIDE DEF o, n
<1>3. Cardinality(ToSet(o)) = Len(o)
  BY <1>1, DistinctElements
<1>4. IsFiniteSet(1 .. n) /\ Cardinality(1 .. n) = n
  BY <1>2, FS_Interval
<1>5. ToSet(o) \in SUBSET (1 .. n) /\ Len(o) \in Nat /\ DOMAIN o = 1 .. Len(o)
  BY <1>1, <1>2 DEF ToSet
<1>6. Cardinality(ToSet(o)) <= n /\ (n = Cardinality(ToSet(o)) => 1 .. n = ToSet(o))
  BY <1>4, <1>5, FS_Subset
<1> QED BY <1>1, <1>2, <1>3, <1>5, <1>6 DEF o, n

LEMMA OrderCases ==
  ASSUME NEW decl, Valid(decl), ValidationError(decl) = "none"
  PROVE  LET s == Filled(decl)
             built == Order(decl)
         IN  IF Len(s.order) = Len(decl)
               THEN built.error = "none" /\ built.order = s.order
               ELSE /\ built.error = "ArtifactDependencyCycle"
                    /\ built.cycle = CycleEdge(decl, s.pending)
<1> DEFINE s == Filled(decl)
<1>1. Len(s.order) \in Nat /\ Len(s.order) <= Len(decl) /\ Len(decl) \in Nat
  BY FilledSlots, SlotsFit, NodeFacts DEF Valid
<1> HIDE DEF s
<1>2. Order(decl) = IF Len(s.order) < Len(decl)
                      THEN [error |-> "ArtifactDependencyCycle", order |-> <<>>,
                            cycle |-> CycleEdge(decl, s.pending)]
                      ELSE [error |-> "none", order |-> s.order, cycle |-> <<>>]
  BY DEF Order, s
<1>3. CASE Len(s.order) = Len(decl)
  BY <1>1, <1>2, <1>3 DEF s
<1>4. CASE Len(s.order) # Len(decl)
  BY <1>1, <1>2, <1>4 DEF s
<1> QED BY <1>3, <1>4

---------------------------------------------------------------------------
(* Edges and reachability *)

\* The edges of a node are its dependencies.
LEMMA EdgeFacts ==
  ASSUME NEW decl, Valid(decl)
  PROVE  /\ \A i \in DOMAIN decl : \A d :
              <<decl[i].name, d>> \in Edges(decl) <=> d \in ToSet(decl[i].dependencies)
         /\ \A e \in Edges(decl) : /\ e = <<e[1], e[2]>> /\ e[1] \in Names(decl)
                                   /\ e[2] \in Names(decl)
<1>1. \A e \in Edges(decl) :
        \E i \in DOMAIN decl : \E d \in ToSet(decl[i].dependencies) :
          e = <<decl[i].name, d>> /\ d \in Names(decl)
  BY DEF Edges, Valid
<1>2. \A i \in DOMAIN decl : \A d \in ToSet(decl[i].dependencies) :
        <<decl[i].name, d>> \in Edges(decl)
  BY DEF Edges, Valid
<1>3. \A i, j \in DOMAIN decl : decl[i].name = decl[j].name => i = j
  BY DEF Valid
<1>4. ASSUME NEW i \in DOMAIN decl, NEW d, <<decl[i].name, d>> \in Edges(decl)
      PROVE  d \in ToSet(decl[i].dependencies)
  BY <1>1, <1>3, <1>4
<1>5. \A e \in Edges(decl) : e = <<e[1], e[2]>> /\ e[1] \in Names(decl) /\ e[2] \in Names(decl)
  BY <1>1 DEF Names
<1> QED BY <1>2, <1>4, <1>5

Successors(decl, S) == {e[2] : e \in {f \in Edges(decl) : f[1] \in S}}

\* Below, step by step.
LEMMA BelowStepwise ==
  ASSUME NEW decl, Valid(decl), NEW a
  PROVE  \E f : /\ Below(decl, a) = f[Len(decl)] /\ f[0] = Successors(decl, {a})
                /\ \A n \in 1 .. Len(decl) : f[n] = f[n-1] \cup Successors(decl, f[n-1])
<1> DEFINE N == Len(decl)
           S == SUBSET Names(decl)
           z == {e[2] : e \in {x \in Edges(decl) : x[1] = a}}
           Step(T) == T \cup {e[2] : e \in {x \in Edges(decl) : x[1] \in T}}
           g == [n \in 1 .. N |-> [T \in S |-> Step(T)]]
           Grows(f) == f = [n \in 0 .. N |-> IF n = 0 THEN z ELSE Step(f[n-1])]
           F == CHOOSE f : Grows(f)
<1>1. N \in Nat
  BY NodeFacts DEF Valid
<1>2. z \in S /\ \A T \in S : Step(T) \in S
  BY EdgeFacts
<1>3. Below(decl, a) = F[N]
  BY DEF Below
<1>4. z = Successors(decl, {a}) /\ \A T : Step(T) = T \cup Successors(decl, T)
  BY DEF Successors
<1>5. \A n \in 1 .. N : \A T \in S : g[n][T] = Step(T) /\ g[n][T] \in S
  BY <1>2
<1> HIDE DEF N, S, z, g, Step
<1>6. PICK f \in [0 .. N -> S] : Iterates(f, N, z, g)
  BY <1>1, <1>2, <1>5, IteratesExist
<1>7. f = [n \in 0 .. N |-> IF n = 0 THEN z ELSE g[n][f[n-1]]]
  BY <1>6 DEF Iterates
<1>8. \A n \in 0 .. N : f[n] = IF n = 0 THEN z ELSE Step(f[n-1])
  <2> SUFFICES ASSUME NEW n \in 0 .. N, n # 0
               PROVE  f[n] = Step(f[n-1])
    BY <1>1, <1>7
  <2>1. n - 1 \in 0 .. N /\ n \in 1 .. N
    BY <1>1
  <2> QED BY <1>5, <1>6, <1>7, <2>1
<1>9. Grows(f)
  BY <1>6, <1>8
<1>10. Grows(F)
  BY <1>9
<1> HIDE DEF F
<1>11. \A n \in 0 .. N : F[n] = IF n = 0 THEN z ELSE Step(F[n-1])
  BY <1>10
<1>12. F[0] = z /\ \A n \in 1 .. N : F[n] = Step(F[n-1])
  BY <1>1, <1>11
<1> QED BY <1>3, <1>4, <1>12 DEF N

LEMMA NamesFinite ==
  ASSUME NEW decl, Valid(decl)
  PROVE  IsFiniteSet(Names(decl)) /\ Cardinality(Names(decl)) = Len(decl) /\ Len(decl) \in Nat
<1> DEFINE n == Len(decl)
           s == [i \in 1 .. n |-> decl[i].name]
<1>1. /\ n \in Nat /\ DOMAIN decl = 1 .. n /\ \A i \in 1 .. n : decl[i].name \in Nat
      /\ \A i, j \in 1 .. n : decl[i].name = decl[j].name => i = j
  BY NodeFacts DEF Valid
<1> HIDE DEF n
<1>2. /\ s \in Seq(Nat) /\ Len(s) = n /\ DOMAIN s = 1 .. n
      /\ \A i \in 1 .. n : s[i] = decl[i].name
  BY <1>1
<1> HIDE DEF s
<1>3. ToSet(s) = Names(decl)
  BY <1>1, <1>2 DEF ToSet, Names
<1>4. \A i, j \in DOMAIN s : s[i] = s[j] => i = j
  BY <1>1, <1>2
<1>5. IsFiniteSet(ToSet(s)) /\ Cardinality(ToSet(s)) = Len(s)
  BY <1>2, <1>4, DistinctElements
<1> QED BY <1>1, <1>2, <1>3, <1>5 DEF n

LEMMA SuccessorNames ==
  ASSUME NEW decl, Valid(decl), NEW S
  PROVE  Successors(decl, S) \subseteq Names(decl)
BY EdgeFacts DEF Successors

\* Below is closed: what is reachable is found in as many steps as there are names.
LEMMA BelowCloses ==
  ASSUME NEW decl, Valid(decl), NEW a
  PROVE  LET B == Below(decl, a) IN
         Successors(decl, {a}) \subseteq B /\ Successors(decl, B) \subseteq B
<1> DEFINE N == Len(decl)
           X == Names(decl)
           z == Successors(decl, {a})
           Closed(S) == Successors(decl, S) \subseteq S
<1>1. IsFiniteSet(X) /\ Cardinality(X) = N /\ N \in Nat
  BY NamesFinite
<1>2. PICK f : /\ Below(decl, a) = f[N] /\ f[0] = z
               /\ \A n \in 1 .. N : f[n] = f[n-1] \cup Successors(decl, f[n-1])
  BY BelowStepwise
<1>3. z \subseteq X /\ \A S : Successors(decl, S) \subseteq X
  BY SuccessorNames
<1> HIDE DEF N, X, z
<1> DEFINE G == {n \in 0 .. N : /\ f[n] \subseteq X /\ z \subseteq f[n]
                                /\ Closed(f[n]) \/ Cardinality(f[n]) >= n + 1}
<1>4. 0 \in G
  <2> DEFINE S == f[0]
  <2>1. S \subseteq X /\ z \subseteq S /\ IsFiniteSet(S)
    BY <1>1, <1>2, <1>3, FS_Subset
  <2> HIDE DEF S
  <2>2. Closed(S) \/ Cardinality(S) >= 1
    <3>1. CASE S = {}
      BY <3>1 DEF Successors
    <3>2. CASE S # {}
      BY <2>1, <3>2, FS_EmptySet, FS_CardinalityType
    <3> QED BY <3>1, <3>2
  <2> QED BY <1>1, <2>1, <2>2 DEF S
<1>5. ASSUME NEW n \in 1 .. N, n - 1 \in G
      PROVE  n \in G
  <2> DEFINE S == f[n-1]
             T == f[n]
  <2>1. /\ S \subseteq X /\ z \subseteq S /\ n \in 0 .. N /\ n \in Nat
        /\ Closed(S) \/ Cardinality(S) >= n
    BY <1>1, <1>5
  <2>2. T = S \cup Successors(decl, S)
    BY <1>2
  <2> HIDE DEF S, T
  <2>3. T \subseteq X /\ z \subseteq T /\ S \subseteq T
    BY <1>3, <2>1, <2>2
  <2>4. Closed(T) \/ Cardinality(T) >= n + 1
    <3>1. CASE Closed(S)
      <4>1. T = S
        BY <2>2, <3>1
      <4> QED BY <3>1, <4>1
    <3>2. CASE ~Closed(S)
      <4>1. IsFiniteSet(T) /\ IsFiniteSet(S)
        BY <1>1, <2>1, <2>3, FS_Subset
      <4>2. S # T
        BY <2>2, <3>2
      <4>3. Cardinality(S) <= Cardinality(T) /\ Cardinality(S) # Cardinality(T)
        BY <2>3, <4>1, <4>2, FS_Subset
      <4>4. Cardinality(S) \in Nat /\ Cardinality(T) \in Nat
        BY <4>1, FS_CardinalityType
      <4> QED BY <2>1, <3>2, <4>3, <4>4
    <3> QED BY <3>1, <3>2
  <2> QED BY <2>1, <2>3, <2>4 DEF T
<1>6. N \in G
  <2>1. \A n \in 1 .. N : n - 1 \in G => n \in G
    BY <1>5
  <2> HIDE DEF G
  <2>2. \A n \in 0 .. N : n \in G
    BY <1>1, <1>4, <2>1, UpTo
  <2> QED BY <1>1, <2>2
<1> DEFINE R == f[N]
<1>7. z \subseteq R /\ Closed(R)
  <2>1. R \subseteq X /\ z \subseteq R /\ (Closed(R) \/ Cardinality(R) >= N + 1)
    BY <1>6
  <2> HIDE DEF R
  <2>2. Cardinality(R) <= N /\ Cardinality(R) \in Nat
    BY <1>1, <2>1, FS_Subset, FS_CardinalityType
  <2> QED BY <1>1, <2>1, <2>2
<1> QED BY <1>2, <1>7 DEF z, R

\* And it is the least such set.
LEMMA BelowLeast ==
  ASSUME NEW decl, Valid(decl), NEW a
  PROVE  \A T : Successors(decl, {a}) \subseteq T /\ Successors(decl, T) \subseteq T
                 => Below(decl, a) \subseteq T
<1> DEFINE N == Len(decl)
<1>1. N \in Nat
  BY NamesFinite
<1>2. PICK f : /\ Below(decl, a) = f[N] /\ f[0] = Successors(decl, {a})
               /\ \A n \in 1 .. N : f[n] = f[n-1] \cup Successors(decl, f[n-1])
  BY BelowStepwise
<1> HIDE DEF N
<1> SUFFICES ASSUME NEW T, Successors(decl, {a}) \subseteq T, Successors(decl, T) \subseteq T
             PROVE  Below(decl, a) \subseteq T
  OBVIOUS
<1> DEFINE G == {n \in 0 .. N : f[n] \subseteq T}
<1>3. 0 \in G
  BY <1>1, <1>2
<1>4. \A n \in 1 .. N : n - 1 \in G => n \in G
  <2>1. \A S : S \subseteq T => Successors(decl, S) \subseteq T
    BY DEF Successors
  <2>2. \A n \in 1 .. N : n \in 0 .. N
    BY <1>1
  <2> QED BY <1>2, <2>1, <2>2
<1>5. N \in G
  <2> HIDE DEF G
  <2>1. \A n \in 0 .. N : n \in G
    BY <1>1, <1>3, <1>4, UpTo
  <2> QED BY <1>1, <2>1
<1> QED BY <1>2, <1>5

---------------------------------------------------------------------------
(* The order *)

\* All slots are filled: the names in the order, one slot for each node.
LEMMA NamesInOrder ==
  ASSUME NEW decl, Valid(decl), NEW s, SlotInv(decl, s), Len(s.order) = Len(decl)
  PROVE  LET names == NamesOf(decl, s.order)
             N == Len(decl)
         IN
         /\ N \in Nat /\ DOMAIN decl = 1 .. N /\ DOMAIN names = 1 .. N
         /\ names \in [1 .. N -> Names(decl)]
         /\ \A i, j \in 1 .. N : names[i] = names[j] => i = j
         /\ \A d \in Names(decl) : \E i \in 1 .. N : names[i] = d
         /\ \A i \in 1 .. N : Successors(decl, {names[i]}) \subseteq {names[j] : j \in 1 .. i - 1}
         /\ \A i \in 1 .. N : \A m \in DOMAIN decl :
              /\ decl[m].name \notin {names[j] : j \in 1 .. i - 1}
              /\ ToSet(decl[m].dependencies) \subseteq {names[j] : j \in 1 .. i - 1}
              => names[i] <= decl[m].name
<1> DEFINE o == s.order
           N == Len(decl)
           names == NamesOf(decl, o)
<1>1. /\ o \in Seq(DOMAIN decl) /\ DOMAIN o = 1 .. N /\ ToSet(o) = DOMAIN decl
  BY SlotsFit
<1>2. N \in Nat /\ DOMAIN decl = 1 .. N /\ \A i \in DOMAIN decl : decl[i].name \in Nat
  BY NodeFacts DEF Valid
<1>3. /\ \A j, k \in DOMAIN o : o[j] = o[k] => j = k
      /\ \A k \in DOMAIN o : LeastNext(decl, {o[j] : j \in 1 .. k - 1}, o[k])
  BY DEF SlotInv
<1> HIDE DEF o, N
<1>4. /\ \A i \in 1 .. N : o[i] \in DOMAIN decl
      /\ \A m \in DOMAIN decl : \E i \in 1 .. N : o[i] = m
  BY <1>1 DEF ToSet
<1>5. DOMAIN names = 1 .. N /\ names = [i \in 1 .. N |-> names[i]]
      /\ \A i \in 1 .. N : names[i] = decl[o[i]].name
  BY <1>1 DEF NamesOf
<1> HIDE DEF names
<1>6. names \in [1 .. N -> Names(decl)]
  BY <1>4, <1>5 DEF Names
<1>7. \A i, j \in 1 .. N : names[i] = names[j] => i = j
  <2>1. \A i, j \in 1 .. N : decl[o[i]].name = decl[o[j]].name => o[i] = o[j]
    BY <1>4 DEF Valid
  <2> QED BY <1>1, <1>3, <1>5, <2>1
<1>8. \A d \in Names(decl) : \E i \in 1 .. N : names[i] = d
  BY <1>4, <1>5 DEF Names
<1>9. ASSUME NEW i \in 1 .. N
      PROVE  LET E == {o[j] : j \in 1 .. i - 1}
                 P == {names[j] : j \in 1 .. i - 1}
             IN  /\ \A j \in 1 .. i - 1 : j \in 1 .. N
                 /\ {decl[m].name : m \in E} = P
                 /\ \A m : WaitsFor(decl, E, m) = ToSet(decl[m].dependencies) \ P
                 /\ LeastNext(decl, E, o[i])
  <2>1. \A j \in 1 .. i - 1 : j \in 1 .. N
    BY <1>2
  <2>2. {decl[m].name : m \in {o[j] : j \in 1 .. i - 1}} = {names[j] : j \in 1 .. i - 1}
    BY <1>5, <2>1
  <2> QED BY <1>1, <1>3, <2>1, <2>2 DEF WaitsFor
<1>10. ASSUME NEW i \in 1 .. N
       PROVE  Successors(decl, {names[i]}) \subseteq {names[j] : j \in 1 .. i - 1}
  <2> DEFINE P == {names[j] : j \in 1 .. i - 1}
             E == {o[j] : j \in 1 .. i - 1}
  <2>1. WaitsFor(decl, E, o[i]) = ToSet(decl[o[i]].dependencies) \ P /\ WaitsFor(decl, E, o[i]) = {}
    BY <1>9 DEF LeastNext
  <2>2. \A e \in Edges(decl) : e = <<e[1], e[2]>>
    BY EdgeFacts
  <2>3. \A d : <<decl[o[i]].name, d>> \in Edges(decl) => d \in ToSet(decl[o[i]].dependencies)
    BY <1>4, EdgeFacts
  <2> HIDE DEF P, E
  <2>4. \A e \in Edges(decl) : e[1] = names[i] => e[2] \in P
    BY <1>5, <2>1, <2>2, <2>3
  <2> QED BY <2>4 DEF Successors, P
<1>11. ASSUME NEW i \in 1 .. N, NEW m \in DOMAIN decl,
              decl[m].name \notin {names[j] : j \in 1 .. i - 1},
              ToSet(decl[m].dependencies) \subseteq {names[j] : j \in 1 .. i - 1}
       PROVE  names[i] <= decl[m].name
  <2> DEFINE P == {names[j] : j \in 1 .. i - 1}
             E == {o[j] : j \in 1 .. i - 1}
  <2>1. {decl[k].name : k \in E} = P /\ WaitsFor(decl, E, m) = ToSet(decl[m].dependencies) \ P
        /\ LeastNext(decl, E, o[i])
    BY <1>9
  <2>2. decl[m].name \notin P /\ ToSet(decl[m].dependencies) \subseteq P
    BY <1>11
  <2> HIDE DEF P, E
  <2>3. m \in DOMAIN decl \ E /\ WaitsFor(decl, E, m) = {}
    BY <2>1, <2>2
  <2>4. decl[o[i]].name <= decl[m].name
    BY <2>1, <2>3 DEF LeastNext
  <2> QED BY <1>5, <2>4
<1> QED BY <1>2, <1>5, <1>6, <1>7, <1>8, <1>10, <1>11 DEF names, N, o

\* Then the order is topological, and no node depends on itself.
LEMMA OrderTopological ==
  ASSUME NEW decl, Valid(decl), NEW s, SlotInv(decl, s), Len(s.order) = Len(decl)
  PROVE  NamesOf(decl, s.order) \in Linearizations(decl) /\ ~Cyclic(decl)
<1> DEFINE names == NamesOf(decl, s.order)
           N == Len(decl)
           E == Edges(decl)
<1>1. /\ N \in Nat /\ DOMAIN decl = 1 .. N /\ names \in [1 .. N -> Names(decl)]
      /\ \A i, j \in 1 .. N : names[i] = names[j] => i = j
      /\ \A d \in Names(decl) : \E i \in 1 .. N : names[i] = d
      /\ \A i \in 1 .. N : Successors(decl, {names[i]}) \subseteq {names[j] : j \in 1 .. i - 1}
  BY NamesInOrder
<1> HIDE DEF names, N
<1>2. \A i \in 1 .. N : \A j \in 1 .. i - 1 : j \in 1 .. N
  BY <1>1
<1>3. \A a, d : <<a, d>> \in E => d \in Successors(decl, {a})
  BY DEF Successors
<1> HIDE DEF E
<1>4. ASSUME NEW i \in 1 .. N, NEW j \in 1 .. N, <<names[i], names[j]>> \in E
      PROVE  j < i
  <2>1. names[j] \in Successors(decl, {names[i]})
    BY <1>3, <1>4
  <2>2. PICK k \in 1 .. i - 1 : names[j] = names[k]
    BY <1>1, <2>1
  <2>3. j = k
    BY <1>1, <1>2, <2>2
  <2> QED BY <1>1, <2>2, <2>3
<1>5. names \in Linearizations(decl)
  BY <1>1, <1>4 DEF Linearizations, E
<1>6. ASSUME NEW a \in Names(decl), a \in Below(decl, a)
      PROVE  FALSE
  <2>1. PICK i \in 1 .. N : names[i] = a
    BY <1>1
  <2> DEFINE T == {names[j] : j \in 1 .. i - 1}
  <2>2. Successors(decl, {a}) \subseteq T
    BY <1>1, <2>1
  <2>3. ASSUME NEW d \in Successors(decl, T)
        PROVE  d \in T
    <3>1. PICK j \in 1 .. i - 1 : d \in Successors(decl, {names[j]})
      BY DEF Successors
    <3>2. j \in 1 .. N
      BY <1>2
    <3>3. PICK k \in 1 .. j - 1 : d = names[k]
      BY <1>1, <3>1, <3>2
    <3>4. k \in 1 .. i - 1
      BY <1>1
    <3> QED BY <3>3, <3>4
  <2>4. a \notin T
    <3> SUFFICES ASSUME NEW j \in 1 .. i - 1, names[j] = a
                 PROVE  FALSE
      OBVIOUS
    <3>1. j \in 1 .. N /\ j # i
      BY <1>1, <1>2
    <3> QED BY <1>1, <2>1, <3>1
  <2> HIDE DEF T
  <2>5. Successors(decl, T) \subseteq T
    BY <2>3
  <2> QED BY <1>6, <2>2, <2>4, <2>5, BelowLeast
<1> QED BY <1>5, <1>6 DEF Cyclic, names

\* And the least: where another one differs first, it has a name that was ready.
LEMMA OrderLeast ==
  ASSUME NEW decl, Valid(decl), NEW s, SlotInv(decl, s), Len(s.order) = Len(decl),
         NEW t \in Linearizations(decl)
  PROVE  t = NamesOf(decl, s.order) \/ Before(NamesOf(decl, s.order), t)
<1> DEFINE names == NamesOf(decl, s.order)
           N == Len(decl)
           X == Names(decl)
<1>1. /\ N \in Nat /\ DOMAIN decl = 1 .. N /\ DOMAIN names = 1 .. N /\ names \in [1 .. N -> X]
      /\ \A i \in 1 .. N : \A m \in DOMAIN decl :
           /\ decl[m].name \notin {names[j] : j \in 1 .. i - 1}
           /\ ToSet(decl[m].dependencies) \subseteq {names[j] : j \in 1 .. i - 1}
           => names[i] <= decl[m].name
  BY NamesInOrder
<1>2. /\ t \in [1 .. N -> X] /\ \A i, j \in 1 .. N : t[i] = t[j] => i = j
      /\ \A i, j \in 1 .. N : <<t[i], t[j]>> \in Edges(decl) => j < i
  BY <1>1 DEF Linearizations
<1>3. IsFiniteSet(X) /\ Cardinality(X) = N /\ X \subseteq Nat
  <2>1. X \subseteq Nat
    BY NodeFacts DEF Names, Valid
  <2> QED BY <2>1, NamesFinite
<1> HIDE DEF N, names
<1>4. \A d \in X : \E m \in 1 .. N : t[m] = d
  <2> HIDE DEF X
  <2>1. t \in Seq(X) /\ Len(t) = N /\ DOMAIN t = 1 .. N
    BY <1>1, <1>2
  <2>2. Cardinality(ToSet(t)) = N
    BY <1>2, <2>1, DistinctElements
  <2>3. ToSet(t) \in SUBSET X
    BY <1>2, <2>1 DEF ToSet
  <2>4. ToSet(t) = X
    BY <1>3, <2>2, <2>3, FS_Subset
  <2> QED BY <2>1, <2>4 DEF ToSet
<1>5. CASE \A i \in 1 .. N : t[i] = names[i]
  BY <1>1, <1>2, <1>5 DEF names
<1>6. CASE \E i \in 1 .. N : t[i] # names[i]
  <2> DEFINE D == {i \in 1 .. N : t[i] # names[i]}
  <2>1. PICK i \in D : \A k \in D : i <= k
    <3>1. D \in SUBSET (0 .. N) /\ D # {}
      BY <1>6
    <3> HIDE DEF D
    <3> QED BY <1>1, <3>1, LeastElement
  <2>2. i \in 1 .. N /\ t[i] # names[i] /\ \A j \in 1 .. i - 1 : j \in 1 .. N /\ t[j] = names[j]
    BY <1>1, <2>1
  <2> HIDE DEF D
  <2>3. PICK m \in DOMAIN decl : decl[m].name = t[i]
    BY <1>2, <2>2 DEF Names
  <2> DEFINE P == {names[j] : j \in 1 .. i - 1}
  <2>4. decl[m].name \notin P
    <3> SUFFICES ASSUME NEW j \in 1 .. i - 1, names[j] = t[i]
                 PROVE  FALSE
      BY <2>3
    <3>1. t[j] = t[i] /\ j \in 1 .. N /\ j # i
      BY <1>1, <2>2
    <3> QED BY <1>2, <2>2, <3>1
  <2>5. ASSUME NEW d \in ToSet(decl[m].dependencies)
        PROVE  d \in P
    <3>1. <<t[i], d>> \in Edges(decl) /\ d \in X
      BY <2>3, EdgeFacts DEF Valid
    <3>2. PICK k \in 1 .. N : t[k] = d
      BY <1>4, <3>1
    <3>3. k \in 1 .. i - 1
      <4>1. k < i
        BY <1>2, <2>2, <3>1, <3>2
      <4> QED BY <1>1, <2>2, <4>1
    <3> QED BY <2>2, <3>2, <3>3
  <2>6. names[i] <= t[i]
    BY <1>1, <2>2, <2>3, <2>4, <2>5
  <2>7. names[i] < t[i]
    <3>1. names[i] \in Nat /\ t[i] \in Nat
      BY <1>1, <1>2, <1>3, <2>2
    <3> QED BY <2>2, <2>6, <3>1
  <2>8. Before(names, t)
    BY <1>1, <2>2, <2>7 DEF Before
  <2> QED BY <2>8 DEF names
<1> QED BY <1>5, <1>6

---------------------------------------------------------------------------
(* The cycle *)

\* A walk longer than there are places was at its last one before.
LEMMA WalkReturns ==
  ASSUME NEW N \in Nat, NEW B, B \subseteq 1 .. N, NEW p \in [B -> B],
         NEW F \in [0 .. N -> B], \A n \in 1 .. N : F[n] = p[F[n-1]]
  PROVE  \E q \in 1 .. N : F[N - q] = F[N]
<1>1. PICK a \in 0 .. N, b \in 0 .. N : a < b /\ F[a] = F[b]
  <2>1. IsFiniteSet(0 .. N) /\ Cardinality(0 .. N) = N + 1
    BY FS_Interval
  <2>2. IsFiniteSet(1 .. N) /\ Cardinality(1 .. N) = N
    BY FS_Interval
  <2>3. IsFiniteSet(B) /\ Cardinality(B) <= N /\ Cardinality(B) \in Nat
    BY <2>2, FS_Subset, FS_CardinalityType
  <2>4. Cardinality(B) < Cardinality(0 .. N)
    BY <2>1, <2>3
  <2>5. \E x, y \in 0 .. N : x # y /\ F[x] = F[y]
    BY <2>1, <2>3, <2>4, FS_PigeonHole
  <2> QED BY <2>5
<1> DEFINE M == N - b
           G == {k \in 0 .. M : F[a + k] = F[b + k]}
<1>2. M \in Nat /\ 0 \in G
  BY <1>1
<1>3. ASSUME NEW k \in 1 .. M, k - 1 \in G
      PROVE  k \in G
  <2>1. /\ a + k \in 1 .. N /\ b + k \in 1 .. N /\ k \in 0 .. M
        /\ (a + k) - 1 = a + (k - 1) /\ (b + k) - 1 = b + (k - 1)
    BY <1>1
  <2>2. F[a + (k - 1)] = F[b + (k - 1)]
    BY <1>3
  <2>3. F[a + k] = p[F[(a + k) - 1]] /\ F[b + k] = p[F[(b + k) - 1]]
    BY <2>1
  <2>4. F[a + k] = F[b + k]
    BY <2>1, <2>2, <2>3
  <2> QED BY <2>1, <2>4
<1>4. M \in G
  <2>1. \A k \in 1 .. M : k - 1 \in G => k \in G
    BY <1>3
  <2> HIDE DEF G, M
  <2>2. \A k \in 0 .. M : k \in G
    BY <1>2, <2>1, UpTo
  <2> QED BY <1>2, <2>2
<1>5. b - a \in 1 .. N /\ a + M = N - (b - a) /\ b + M = N
  BY <1>1
<1>6. F[N - (b - a)] = F[N]
  BY <1>4, <1>5
<1> QED BY <1>5, <1>6

\* CycleEdge, step by step.
LEMMA FollowStepwise ==
  ASSUME NEW decl, NEW pending, Len(decl) \in Nat, NEW B,
         LeastNamed(decl, {i \in DOMAIN decl : pending[i] # Emitted}) \in B,
         \A i \in B : PendingDependency(decl, pending, i) \in B
  PROVE  \E F \in [0 .. Len(decl) -> B] :
           LET index == F[Len(decl)] IN
           /\ CycleEdge(decl, pending) =
                <<decl[index].name, decl[PendingDependency(decl, pending, index)].name>>
           /\ \A n \in 1 .. Len(decl) : F[n] = PendingDependency(decl, pending, F[n-1])
<1> DEFINE N == Len(decl)
           z == LeastNamed(decl, {i \in DOMAIN decl : pending[i] # Emitted})
           D(i) == PendingDependency(decl, pending, i)
           g == [n \in 1 .. N |-> [i \in B |-> D(i)]]
           Follows(f) == f = [n \in 0 .. N |-> IF n = 0 THEN z ELSE D(f[n-1])]
           F == CHOOSE f : Follows(f)
<1>1. N \in Nat /\ z \in B
  OBVIOUS
<1>2. \A n \in 1 .. N : \A i \in B : g[n][i] = D(i) /\ g[n][i] \in B
  OBVIOUS
<1>3. CycleEdge(decl, pending) = <<decl[F[N]].name, decl[D(F[N])].name>>
  BY DEF CycleEdge
<1> HIDE DEF N, z, g, D
<1>4. PICK f \in [0 .. N -> B] : Iterates(f, N, z, g)
  BY <1>1, <1>2, IteratesExist
<1>5. f = [n \in 0 .. N |-> IF n = 0 THEN z ELSE g[n][f[n-1]]]
  BY <1>4 DEF Iterates
<1>6. \A n \in 0 .. N : f[n] = IF n = 0 THEN z ELSE D(f[n-1])
  <2> SUFFICES ASSUME NEW n \in 0 .. N, n # 0
               PROVE  f[n] = D(f[n-1])
    BY <1>1, <1>5
  <2>1. n - 1 \in 0 .. N /\ n \in 1 .. N
    BY <1>1
  <2> QED BY <1>2, <1>4, <1>5, <2>1
<1>7. Follows(f)
  BY <1>4, <1>6
<1>8. Follows(F)
  BY <1>7
<1> HIDE DEF F
<1>9. \A n \in 0 .. N : F[n] = IF n = 0 THEN z ELSE D(F[n-1])
  BY <1>8
<1>10. \A n \in 0 .. N : F[n] \in B
  <2> DEFINE G == {n \in 0 .. N : F[n] \in B}
  <2>1. 0 \in G
    BY <1>1, <1>9
  <2>2. \A n \in 1 .. N : n - 1 \in G => n \in G
    <3>1. \A i \in B : D(i) \in B
      BY DEF D
    <3> QED BY <1>1, <1>9, <3>1
  <2> HIDE DEF G
  <2>3. \A n \in 0 .. N : n \in G
    BY <1>1, <2>1, <2>2, UpTo
  <2> QED BY <2>3 DEF G
<1>11. F \in [0 .. N -> B]
  <2>1. DOMAIN F = 0 .. N /\ F = [n \in 0 .. N |-> F[n]]
    BY <1>8
  <2> QED BY <1>10, <2>1
<1>12. \A n \in 1 .. N : F[n] = D(F[n-1])
  BY <1>1, <1>9
<1> QED BY <1>3, <1>11, <1>12 DEF N, D

\* Where no node is ready, each that was not emitted waits for another such.
LEMMA BlockedNodes ==
  ASSUME NEW decl, Valid(decl), NEW s, SlotInv(decl, s), Ready(decl, s) = {}
  PROVE  LET B == {i \in DOMAIN decl : s.pending[i] # Emitted} IN
         /\ B = DOMAIN decl \ ToSet(s.order)
         /\ \A i \in B : LET d == PendingDependency(decl, s.pending, i) IN
                         d \in B /\ <<decl[i].name, decl[d].name>> \in Edges(decl)
<1> DEFINE E == ToSet(s.order)
           B == {i \in DOMAIN decl : s.pending[i] # Emitted}
<1>1. B = DOMAIN decl \ E
  <2> SUFFICES ASSUME NEW i \in DOMAIN decl
               PROVE  s.pending[i] # Emitted <=> i \notin E
    OBVIOUS
  <2>1. s.pending[i] = IF i \in E THEN Emitted ELSE Cardinality(WaitsFor(decl, E, i))
    BY DEF SlotInv
  <2> QED BY <2>1, WaitsFinite DEF Emitted
<1>2. ASSUME NEW i \in B
      PROVE  LET d == PendingDependency(decl, s.pending, i) IN
             d \in B /\ <<decl[i].name, decl[d].name>> \in Edges(decl)
  <2> DEFINE deps == ToSet(decl[i].dependencies)
             C == {j \in DOMAIN decl : s.pending[j] # Emitted /\ decl[j].name \in deps}
             d == LeastNamed(decl, C)
  <2>1. PICK x \in WaitsFor(decl, E, i) : TRUE
    BY <1>1, ReadyNodes
  <2>2. x \in deps /\ \A j \in E : decl[j].name # x
    BY <2>1 DEF WaitsFor
  <2>3. PICK j \in DOMAIN decl : decl[j].name = x
    BY <2>2 DEF Valid, Names
  <2>4. j \in C
    BY <1>1, <2>2, <2>3
  <2>5. d \in C
    <3>1. C \subseteq DOMAIN decl /\ C # {} /\ decl \in Seq(Nodes)
      BY <2>4 DEF Valid
    <3> HIDE DEF C
    <3> QED BY <3>1, LeastNamedFacts
  <2>6. PendingDependency(decl, s.pending, i) = d
    BY DEF PendingDependency
  <2> HIDE DEF d
  <2>7. d \in B /\ decl[d].name \in deps
    BY <2>5
  <2>8. <<decl[i].name, decl[d].name>> \in Edges(decl)
    BY <2>7, EdgeFacts
  <2> QED BY <2>6, <2>7, <2>8
<1> QED BY <1>1, <1>2

\* The edge that is reported lies on a cycle.
LEMMA CycleFound ==
  ASSUME NEW decl, Valid(decl), NEW s, SlotInv(decl, s), Ready(decl, s) = {},
         Len(s.order) # Len(decl)
  PROVE  LET cycle == CycleEdge(decl, s.pending) IN
         /\ Cyclic(decl)
         /\ cycle \in Edges(decl) /\ cycle[1] \in Below(decl, cycle[2])
<1> DEFINE N == Len(decl)
           B == {i \in DOMAIN decl : s.pending[i] # Emitted}
           D(i) == PendingDependency(decl, s.pending, i)
           z == LeastNamed(decl, B)
           E == Edges(decl)
           cycle == CycleEdge(decl, s.pending)
<1>1. N \in Nat /\ DOMAIN decl = 1 .. N /\ decl \in Seq(Nodes)
  BY NodeFacts DEF Valid
<1>2. /\ B = DOMAIN decl \ ToSet(s.order)
      /\ \A i \in B : D(i) \in B /\ <<decl[i].name, decl[D(i)].name>> \in E
  BY BlockedNodes
<1>3. B # {}
  <2> SUFFICES ASSUME DOMAIN decl \subseteq ToSet(s.order)
               PROVE  FALSE
    BY <1>2
  <2> DEFINE o == s.order
  <2>1. /\ o \in Seq(DOMAIN decl) /\ Len(o) # N /\ Len(o) \in Nat /\ DOMAIN o = 1 .. Len(o)
        /\ \A j, k \in DOMAIN o : o[j] = o[k] => j = k
    BY SlotsFit DEF SlotInv
  <2>2. DOMAIN decl \subseteq ToSet(o)
    OBVIOUS
  <2> HIDE DEF o, N
  <2>3. ToSet(o) = DOMAIN decl
    <3>1. \A j \in 1 .. Len(o) : o[j] \in DOMAIN decl
      BY <2>1
    <3>2. ToSet(o) \subseteq DOMAIN decl
      BY <2>1, <3>1 DEF ToSet
    <3> QED BY <2>2, <3>2
  <2>4. Cardinality(ToSet(o)) = Len(o)
    BY <2>1, DistinctElements
  <2>5. Cardinality(1 .. N) = N
    BY <1>1, FS_Interval
  <2> QED BY <1>1, <2>1, <2>3, <2>4, <2>5
<1>4. z \in B
  <2>1. B \subseteq DOMAIN decl
    OBVIOUS
  <2> HIDE DEF B
  <2> QED BY <1>1, <1>3, <2>1, LeastNamedFacts
<1>5. PICK F \in [0 .. N -> B] :
        /\ cycle = <<decl[F[N]].name, decl[D(F[N])].name>>
        /\ \A n \in 1 .. N : F[n] = D(F[n-1])
  <2> DEFINE C == B
  <2>1. N \in Nat /\ LeastNamed(decl, B) \in C /\ \A i \in C : D(i) \in C
    BY <1>1, <1>2, <1>4
  <2> HIDE DEF C
  <2>2. \E F \in [0 .. N -> C] :
          /\ cycle = <<decl[F[N]].name, decl[D(F[N])].name>>
          /\ \A n \in 1 .. N : F[n] = D(F[n-1])
    BY <2>1, FollowStepwise
  <2> QED BY <2>2 DEF C
<1>6. B \subseteq 1 .. N
  BY <1>1
<1> HIDE DEF B, D, N, z, cycle
<1>7. PICK q \in 1 .. N : F[N - q] = F[N]
  <2> DEFINE p == [i \in B |-> D(i)]
  <2>1. p \in [B -> B] /\ \A i \in B : p[i] = D(i)
    BY <1>2
  <2> HIDE DEF p
  <2>2. \A n \in 1 .. N : n - 1 \in 0 .. N
    BY <1>1
  <2>3. \A n \in 1 .. N : F[n] = p[F[n-1]]
    BY <1>5, <2>1, <2>2
  <2> QED BY <1>1, <1>6, <2>1, <2>3, WalkReturns
<1> DEFINE c == D(F[N])
           x == decl[c].name
           R == Below(decl, x)
           first == N - q + 1
<1>8. /\ first \in 1 .. N /\ first - 1 = N - q /\ first + (q - 1) = N /\ q - 1 \in Nat
  BY <1>1
<1>9. F[first] = c
  BY <1>5, <1>7, <1>8
<1>10. Successors(decl, {x}) \subseteq R /\ Successors(decl, R) \subseteq R
  BY BelowCloses
<1>11. \A a, d : <<a, d>> \in E /\ (a = x \/ a \in R) => d \in R
  BY <1>10 DEF Successors
<1> HIDE DEF R, first, c, E
<1> DEFINE m == q - 1
           G == {k \in 0 .. m : decl[F[first + k]].name = x \/ decl[F[first + k]].name \in R}
<1>12. 0 \in G
  BY <1>8, <1>9
<1>13. ASSUME NEW k \in 1 .. m, k - 1 \in G
       PROVE  k \in G
  <2>1. first + k \in 1 .. N /\ (first + k) - 1 = first + (k - 1) /\ (first + k) - 1 \in 0 .. N /\ k \in 0 .. m
    BY <1>8
  <2> DEFINE a == F[first + (k - 1)]
             b == F[first + k]
  <2>2. b = D(a) /\ a \in B
    BY <1>5, <2>1
  <2>3. decl[a].name = x \/ decl[a].name \in R
    BY <1>13
  <2> HIDE DEF a, b
  <2>4. decl[b].name \in R
    BY <1>2, <1>11, <2>2, <2>3
  <2> QED BY <2>1, <2>4 DEF b
<1>14. m \in G
  <2>1. \A k \in 1 .. m : k - 1 \in G => k \in G
    BY <1>13
  <2>2. m \in Nat
    BY <1>8
  <2> HIDE DEF G, m
  <2>3. \A k \in 0 .. m : k \in G
    BY <1>12, <2>1, <2>2, UpTo
  <2> QED BY <2>2, <2>3
<1> DEFINE y == decl[F[N]].name
<1>15. y = x \/ y \in R
  BY <1>8, <1>14
<1>16. F[N] \in B /\ <<y, x>> \in E
  <2>1. F[N] \in B
    BY <1>1
  <2> QED BY <1>2, <2>1 DEF c
<1>17. cycle = <<y, x>>
  BY <1>5 DEF c
<1> HIDE DEF y, x
<1>18. x \in R /\ y \in R
  BY <1>11, <1>15, <1>16
<1>19. cycle \in E /\ cycle[1] \in R /\ cycle[2] = x
  BY <1>16, <1>17, <1>18
<1>20. Cyclic(decl)
  <2>1. x \in Names(decl)
    BY <1>16, EdgeFacts DEF E
  <2> QED BY <1>18, <2>1 DEF Cyclic, R
<1> QED BY <1>19, <1>20 DEF E, R, cycle

---------------------------------------------------------------------------
(* OrderSound *)

\* What Order answers for every valid declaration.
LEMMA OrderAnswers ==
  ASSUME NEW decl \in Seq(Nodes), ValidationError(decl) = "none"
  PROVE  LET built == Order(decl)
             names == NamesOf(decl, built.order)
         IN  IF Cyclic(decl)
               THEN /\ built.error = "ArtifactDependencyCycle"
                    /\ built.cycle \in Edges(decl)
                    /\ built.cycle[1] \in Below(decl, built.cycle[2])
               ELSE /\ built.error = "none"
                    /\ names \in Linearizations(decl)
                    /\ \A s \in Linearizations(decl) : s = names \/ Before(names, s)
<1> DEFINE s == Filled(decl)
           built == Order(decl)
<1>1. Valid(decl)
  BY Validated
<1>2. SlotInv(decl, s) /\ (Len(s.order) = Len(decl) \/ Ready(decl, s) = {})
  BY <1>1, FilledSlots
<1>3. IF Len(s.order) = Len(decl)
        THEN built.error = "none" /\ built.order = s.order
        ELSE /\ built.error = "ArtifactDependencyCycle"
             /\ built.cycle = CycleEdge(decl, s.pending)
  BY <1>1, OrderCases
<1> HIDE DEF s, built
<1>4. CASE Len(s.order) = Len(decl)
  <2>1. NamesOf(decl, s.order) \in Linearizations(decl) /\ ~Cyclic(decl)
    BY <1>1, <1>2, <1>4, OrderTopological
  <2>2. \A t \in Linearizations(decl) :
          t = NamesOf(decl, s.order) \/ Before(NamesOf(decl, s.order), t)
    BY <1>1, <1>2, <1>4, OrderLeast
  <2>3. built.error = "none" /\ built.order = s.order
    BY <1>3, <1>4
  <2> QED BY <2>1, <2>2, <2>3 DEF built
<1>5. CASE Len(s.order) # Len(decl)
  <2> DEFINE cycle == CycleEdge(decl, s.pending)
  <2>1. Cyclic(decl) /\ cycle \in Edges(decl) /\ cycle[1] \in Below(decl, cycle[2])
    BY <1>1, <1>2, <1>5, CycleFound
  <2>2. built.error = "ArtifactDependencyCycle" /\ built.cycle = cycle
    BY <1>3, <1>5
  <2> HIDE DEF cycle
  <2> QED BY <2>1, <2>2 DEF built
<1> QED BY <1>4, <1>5

\* The declaration never changes.
LEMMA DeclarationFixed == Spec => [](nodes \in Declarations)
<1>1. Init => nodes \in Declarations
  BY DEF Init
<1>2. nodes \in Declarations /\ [Next]_vars => (nodes \in Declarations)'
  BY DEF Next, vars, declared, Build, Refuse, Begin, Preflight, StartInitializer,
         EndInitializer, Succeed, Fail
<1> QED BY <1>1, <1>2, PTL DEF Spec

\* For declarations of every length and shape: the order that is built
\* (build/codedb_graph.zig, order) is topological and the least of all by
\* names, it is refused exactly where there is a cycle, and the edge that is
\* reported then (cycleEdge) is one of a cycle.
THEOREM OrderSoundHolds == Spec => []OrderSound
<1>1. nodes \in Declarations => OrderSound
  <2> SUFFICES ASSUME nodes \in Declarations, ValidationError(nodes) = "none"
               PROVE  OrderSound
    BY DEF OrderSound
  <2>1. nodes \in Seq(Nodes)
    BY CodeDBAssumption
  <2> QED BY <2>1, OrderAnswers DEF OrderSound
<1> QED BY <1>1, DeclarationFixed, PTL

---------------------------------------------------------------------------
(* The manifest and its closures *)

\* Dependencies are entries before their dependent, and the names of them are
\* all that it has edges to.
ManifestInv ==
  /\ nodes \in Declarations
  /\ \E N \in Nat : DOMAIN entries = 1 .. N
  /\ DOMAIN entries # {} => Valid(nodes)
  /\ \A k \in DOMAIN entries :
       /\ entries[k].dependencies \subseteq 1 .. k - 1
       /\ Successors(nodes, {entries[k].name})
            \subseteq {entries[j].name : j \in entries[k].dependencies}

\* Entries that depend on no others.
SelfContained(S) == \A i \in S : entries[i].dependencies \subseteq S

\* What is loaded needs nothing else, nor will what is being loaded; and what
\* the running initializer depends on is loaded.
ClosureInv ==
  /\ loaded \subseteq DOMAIN entries /\ load.images \subseteq DOMAIN entries
  /\ SelfContained(loaded)
  /\ SelfContained(loaded \cup load.images \cup Running)
  /\ load.stage = "running" => /\ load.index \in DOMAIN entries
                               /\ entries[load.index].dependencies \subseteq loaded

\* The manifest of a declaration that was ordered.
LEMMA CompiledManifest ==
  ASSUME nodes \in Seq(Nodes), Order(nodes).error = "none"
  PROVE  LET compiled == Compiled(Order(nodes).order) IN
         /\ Valid(nodes)
         /\ \E N \in Nat : DOMAIN compiled = 1 .. N
         /\ \A k \in DOMAIN compiled :
              /\ compiled[k].dependencies \subseteq 1 .. k - 1
              /\ Successors(nodes, {compiled[k].name})
                   \subseteq {compiled[j].name : j \in compiled[k].dependencies}
<1> DEFINE s == Filled(nodes)
           N == Len(nodes)
           o == s.order
           names == NamesOf(nodes, o)
           compiled == Compiled(o)
<1>1. ValidationError(nodes) = "none"
  BY DEF Order
<1>2. Valid(nodes)
  BY <1>1, Validated
<1>3. SlotInv(nodes, s) /\ Len(o) = N /\ Order(nodes).order = o
  <2>1. SlotInv(nodes, s)
    BY <1>2, FilledSlots
  <2>2. IF Len(o) = N
          THEN Order(nodes).order = o
          ELSE Order(nodes).error = "ArtifactDependencyCycle"
    BY <1>1, <1>2, OrderCases
  <2> QED BY <2>1, <2>2
<1>4. /\ N \in Nat /\ DOMAIN names = 1 .. N
      /\ \A i \in 1 .. N : Successors(nodes, {names[i]}) \subseteq {names[j] : j \in 1 .. i - 1}
  BY <1>2, <1>3, NamesInOrder
<1>5. DOMAIN o = 1 .. N /\ \A i \in 1 .. N : o[i] \in DOMAIN nodes
  <2>1. DOMAIN o = 1 .. Len(o) /\ o \in Seq(DOMAIN nodes)
    BY <1>2, <1>3, SlotsFit
  <2> HIDE DEF o, N
  <2> QED BY <1>3, <2>1
<1> HIDE DEF s, N
<1>6. \A i \in 1 .. N : names[i] = nodes[o[i]].name
  BY <1>5 DEF NamesOf
<1>7. /\ DOMAIN compiled = 1 .. N
      /\ \A k \in 1 .. N :
           /\ compiled[k].name = names[k]
           /\ compiled[k].dependencies =
                {j \in 1 .. k - 1 : nodes[o[j]].name \in ToSet(nodes[o[k]].dependencies)}
  BY <1>5, <1>6 DEF Compiled
<1> HIDE DEF o, names, compiled
<1>8. \A k \in 1 .. N : compiled[k].dependencies \subseteq 1 .. k - 1
  BY <1>7
<1>9. ASSUME NEW k \in 1 .. N, NEW d \in Successors(nodes, {names[k]})
      PROVE  d \in {compiled[j].name : j \in compiled[k].dependencies}
  <2>1. PICK j \in 1 .. k - 1 : d = names[j]
    BY <1>4
  <2>2. j \in 1 .. N
    BY <1>4
  <2>3. <<names[k], d>> \in Edges(nodes)
    BY <1>2, EdgeFacts DEF Successors
  <2>4. d \in ToSet(nodes[o[k]].dependencies)
    BY <1>2, <1>5, <1>6, <2>3, EdgeFacts
  <2>5. j \in compiled[k].dependencies
    BY <1>6, <1>7, <2>1, <2>2, <2>4
  <2> QED BY <1>7, <2>1, <2>2, <2>5
<1>10. \A k \in DOMAIN compiled :
         Successors(nodes, {compiled[k].name})
           \subseteq {compiled[j].name : j \in compiled[k].dependencies}
  BY <1>7, <1>9
<1>11. /\ \E M \in Nat : DOMAIN compiled = 1 .. M
       /\ \A k \in DOMAIN compiled : compiled[k].dependencies \subseteq 1 .. k - 1
  BY <1>4, <1>7, <1>8
<1>12. compiled = Compiled(Order(nodes).order)
  BY <1>3 DEF compiled
<1> QED BY <1>2, <1>10, <1>11, <1>12

\* Needed, mark by mark.
LEMMA MarksStepwise ==
  ASSUME ManifestInv, NEW requested \in DOMAIN entries
  PROVE  \E f \in [0 .. requested -> SUBSET (1 .. requested)] :
           /\ Needed(requested) = f[requested] /\ f[0] = {requested}
           /\ \A k \in 1 .. requested :
                f[k] = f[k-1] \cup IF requested + 1 - k \in f[k-1]
                                     THEN entries[requested + 1 - k].dependencies ELSE {}
<1> DEFINE r == requested
           S == SUBSET (1 .. r)
           z == {r}
           Step(k, T) == T \cup IF r + 1 - k \in T THEN entries[r + 1 - k].dependencies ELSE {}
           g == [k \in 1 .. r |-> [T \in S |-> Step(k, T)]]
           Marks(f) == f = [k \in 0 .. r |-> IF k = 0 THEN z ELSE Step(k, f[k-1])]
           F == CHOOSE f : Marks(f)
<1>1. r \in Nat /\ z \in S /\ \A k \in 1 .. r : k \in DOMAIN entries
  BY DEF ManifestInv
<1>2. \A k \in 1 .. r : \A T \in S : g[k][T] = Step(k, T) /\ g[k][T] \in S
  <2>1. \A k \in 1 .. r : r + 1 - k \in 1 .. r
    BY <1>1
  <2>2. \A k \in 1 .. r : entries[k].dependencies \subseteq 1 .. r
    <3>1. \A k \in 1 .. r : entries[k].dependencies \subseteq 1 .. k - 1
      BY <1>1 DEF ManifestInv
    <3>2. \A k \in 1 .. r : 1 .. k - 1 \subseteq 1 .. r
      BY <1>1
    <3> QED BY <3>1, <3>2
  <2> QED BY <2>1, <2>2
<1>3. Needed(requested) = F[r]
  BY DEF Needed
<1>4. \A k, T : Step(k, T) = T \cup IF r + 1 - k \in T THEN entries[r + 1 - k].dependencies ELSE {}
  OBVIOUS
<1> HIDE DEF S, z, g, Step
<1>5. PICK f \in [0 .. r -> S] : Iterates(f, r, z, g)
  BY <1>1, <1>2, IteratesExist
<1>6. f = [n \in 0 .. r |-> IF n = 0 THEN z ELSE g[n][f[n-1]]]
  BY <1>5 DEF Iterates
<1>7. \A n \in 0 .. r : f[n] = IF n = 0 THEN z ELSE Step(n, f[n-1])
  <2> SUFFICES ASSUME NEW n \in 0 .. r, n # 0
               PROVE  f[n] = Step(n, f[n-1])
    BY <1>1, <1>6
  <2>1. n - 1 \in 0 .. r /\ n \in 1 .. r
    BY <1>1
  <2> QED BY <1>2, <1>5, <1>6, <2>1
<1>8. Marks(f)
  BY <1>5, <1>7
<1>9. Marks(F)
  BY <1>8
<1> HIDE DEF F
<1>10. \A n \in 0 .. r : F[n] = IF n = 0 THEN z ELSE Step(n, F[n-1])
  BY <1>9
<1>11. \A n \in 0 .. r : F[n] \in S
  <2> DEFINE G == {n \in 0 .. r : F[n] \in S}
  <2>1. 0 \in G
    BY <1>1, <1>10
  <2>2. \A n \in 1 .. r : n - 1 \in G => n \in G
    <3>1. \A k \in 1 .. r : \A T \in S : Step(k, T) \in S
      BY <1>2
    <3> QED BY <1>1, <1>10, <3>1
  <2> HIDE DEF G
  <2>3. \A n \in 0 .. r : n \in G
    BY <1>1, <2>1, <2>2, UpTo
  <2> QED BY <2>3 DEF G
<1>12. F \in [0 .. r -> S]
  <2>1. DOMAIN F = 0 .. r /\ F = [n \in 0 .. r |-> F[n]]
    BY <1>9
  <2> QED BY <1>11, <2>1
<1>13. F[0] = z /\ \A n \in 1 .. r : F[n] = Step(n, F[n-1])
  BY <1>1, <1>10
<1> QED BY <1>3, <1>4, <1>12, <1>13 DEF S, z

\* One reverse pass finds the whole closure.
LEMMA NeededCloses ==
  ASSUME ManifestInv, NEW requested \in DOMAIN entries
  PROVE  Needed(requested) \subseteq DOMAIN entries /\ SelfContained(Needed(requested))
<1> DEFINE r == requested
           deps(i) == entries[i].dependencies
<1>1. PICK f \in [0 .. r -> SUBSET (1 .. r)] :
        /\ Needed(requested) = f[r] /\ f[0] = {r}
        /\ \A k \in 1 .. r : f[k] = f[k-1] \cup IF r + 1 - k \in f[k-1] THEN deps(r + 1 - k) ELSE {}
  BY MarksStepwise
<1>2. r \in Nat /\ r >= 1 /\ 1 .. r \subseteq DOMAIN entries
  BY DEF ManifestInv
<1>3. \A i \in 1 .. r : deps(i) \subseteq 1 .. i - 1
  BY <1>2 DEF ManifestInv
<1> HIDE DEF deps
<1> DEFINE G == {k \in 0 .. r : \A i \in f[k] : i > r - k => deps(i) \subseteq f[k]}
<1>4. 0 \in G
  BY <1>1, <1>2
<1>5. ASSUME NEW k \in 1 .. r, k - 1 \in G
      PROVE  k \in G
  <2> DEFINE S == f[k-1]
             T == f[k]
             m == r + 1 - k
  <2>1. /\ k \in 0 .. r /\ k - 1 \in 0 .. r /\ m \in 1 .. r /\ m - 1 = r - k /\ m = r - (k - 1)
    BY <1>2
  <2>2. S \subseteq 1 .. r /\ T = S \cup IF m \in S THEN deps(m) ELSE {}
    BY <1>1, <2>1
  <2>3. \A i \in S : i > m => deps(i) \subseteq S
    BY <1>5, <2>1
  <2> HIDE DEF S, T, m
  <2>4. ASSUME NEW i \in T, i > m - 1
        PROVE  deps(i) \subseteq T
    <3>1. i \in S
      BY <1>3, <2>1, <2>2, <2>4
    <3>2. i = m \/ i > m
      BY <2>1, <2>2, <2>4, <3>1
    <3> QED BY <2>2, <2>3, <3>1, <3>2
  <2> QED BY <2>1, <2>4 DEF T
<1>6. r \in G
  <2>1. \A k \in 1 .. r : k - 1 \in G => k \in G
    BY <1>5
  <2> HIDE DEF G
  <2>2. \A k \in 0 .. r : k \in G
    BY <1>2, <1>4, <2>1, UpTo
  <2> QED BY <1>2, <2>2
<1>7. f[r] \subseteq 1 .. r
  BY <1>1, <1>2
<1>8. \A i \in f[r] : deps(i) \subseteq f[r]
  BY <1>2, <1>6, <1>7
<1> QED BY <1>1, <1>2, <1>7, <1>8 DEF SelfContained, deps

LEMMA ManifestStep ==
  ASSUME ManifestInv, [Next]_vars
  PROVE  ManifestInv'
<1>1. CASE UNCHANGED <<nodes, entries>>
  <2>1. nodes' = nodes /\ entries' = entries
    BY <1>1
  <2>2. (nodes \in Declarations)' /\ (\E N \in Nat : DOMAIN entries = 1 .. N)'
    BY <2>1 DEF ManifestInv
  <2>3. (DOMAIN entries # {} => Valid(nodes))'
    BY <2>1 DEF ManifestInv
  <2>4. (\A k \in DOMAIN entries : entries[k].dependencies \subseteq 1 .. k - 1)'
    BY <2>1 DEF ManifestInv
  <2>5. (\A k \in DOMAIN entries :
         Successors(nodes, {entries[k].name})
            \subseteq {entries[j].name : j \in entries[k].dependencies})'
    BY <2>1 DEF ManifestInv
  <2> QED BY <2>2, <2>3, <2>4, <2>5 DEF ManifestInv
<1>2. CASE Build /\ ~ UNCHANGED <<nodes, entries>>
  <2> DEFINE built == Order(nodes)
             compiled == Compiled(built.order)
  <2>1. nodes' = nodes /\ entries' = compiled /\ built.error = "none"
    BY <1>2 DEF Build, declared
  <2>2. nodes \in Declarations /\ nodes \in Seq(Nodes)
    BY CodeDBAssumption DEF ManifestInv
  <2>3. /\ Valid(nodes)
        /\ \E N \in Nat : DOMAIN compiled = 1 .. N
        /\ \A k \in DOMAIN compiled :
             /\ compiled[k].dependencies \subseteq 1 .. k - 1
             /\ Successors(nodes, {compiled[k].name})
                  \subseteq {compiled[j].name : j \in compiled[k].dependencies}
    BY <2>1, <2>2, CompiledManifest
  <2> HIDE DEF compiled, built
  <2>4. (nodes \in Declarations)' /\ (\E N \in Nat : DOMAIN entries = 1 .. N)'
    BY <2>1, <2>2, <2>3
  <2>5. (DOMAIN entries # {} => Valid(nodes))'
    BY <2>1, <2>3
  <2>6. (\A k \in DOMAIN entries : entries[k].dependencies \subseteq 1 .. k - 1)'
    BY <2>1, <2>3
  <2>7. (\A k \in DOMAIN entries :
         Successors(nodes, {entries[k].name})
            \subseteq {entries[j].name : j \in entries[k].dependencies})'
    BY <2>1, <2>3
  <2> QED BY <2>4, <2>5, <2>6, <2>7 DEF ManifestInv
<1>3. Build \/ UNCHANGED <<nodes, entries>>
  BY DEF Next, vars, declared, Refuse, Begin, Preflight, StartInitializer, EndInitializer,
         Succeed, Fail
<1> QED BY <1>1, <1>2, <1>3

\* Every step keeps the closures.
LEMMA ClosureStep ==
  ASSUME ManifestInv, ClosureInv, [Next]_vars
  PROVE  ClosureInv'
<1> DEFINE D == DOMAIN entries
           deps(i) == entries[i].dependencies
<1>1. CASE Build
  <2>1. D = {} \/ entries' = entries
    BY <1>1 DEF Build
  <2>2. UNCHANGED <<loaded, load>>
    BY <1>1 DEF Build, loader
  <2>3. CASE entries' = entries
    BY <2>2, <2>3 DEF ClosureInv, SelfContained, Running
  <2>4. CASE D = {}
    <3>1. loaded = {} /\ load.images = {} /\ Running = {} /\ load.stage # "running"
      BY <2>4 DEF ClosureInv, Running
    <3> QED BY <2>2, <3>1 DEF ClosureInv, SelfContained, Running
  <2> QED BY <2>1, <2>3, <2>4
<1>2. ASSUME NEW m, NEW name, Refuse(m, name)
      PROVE  ClosureInv'
  BY <1>2 DEF Refuse, loader, ClosureInv, SelfContained, Running
<1>3. ASSUME NEW m, NEW name, Begin(m, name)
      PROVE  ClosureInv'
  <2>1. PICK i \in D : load' = [stage |-> "preflight", images |-> Images(i), index |-> 0]
    BY <1>3 DEF Begin
  <2> DEFINE needed == Needed(i)
  <2>2. needed \subseteq D /\ \A j \in needed : deps(j) \subseteq needed
    BY <2>1, NeededCloses DEF SelfContained
  <2>3. load'.images = needed \ loaded /\ load'.stage = "preflight"
    BY <2>1 DEF Images
  <2>4. UNCHANGED <<entries, loaded>>
    BY <1>3 DEF Begin
  <2> HIDE DEF needed
  <2>5. Running' = {}
    BY <2>3 DEF Running
  <2>6. loaded \subseteq D /\ \A j \in loaded : deps(j) \subseteq loaded
    BY DEF ClosureInv, SelfContained
  <2> DEFINE S == loaded \cup load'.images \cup Running'
  <2>7. S = loaded \cup needed
    BY <2>3, <2>5
  <2>8. \A j \in S : deps(j) \subseteq S
    BY <2>2, <2>6, <2>7
  <2> QED BY <2>2, <2>3, <2>4, <2>6, <2>8 DEF ClosureInv, SelfContained
<1>4. CASE Preflight
  <2>1. /\ load'.images = load.images /\ load'.stage = "between" /\ load.stage = "preflight"
        /\ UNCHANGED <<entries, loaded>>
    <3> QED BY <1>4 DEF Preflight
  <2>2. Running' = Running
    BY <2>1 DEF Running
  <2> QED BY <2>1, <2>2 DEF ClosureInv, SelfContained
<1>5. CASE StartInitializer
  <2>1. PICK next \in load.images :
          /\ \A i \in load.images : next <= i
          /\ load' = [stage |-> "running", images |-> load.images \ {next}, index |-> next]
    BY <1>5 DEF StartInitializer
  <2>2. load.stage = "between" /\ UNCHANGED <<entries, loaded>>
    BY <1>5 DEF StartInitializer
  <2>3. /\ load'.stage = "running" /\ load'.index = next
        /\ load'.images = load.images \ {next} /\ Running' = {next} /\ Running = {}
    BY <2>1, <2>2 DEF Running
  <2>4. next \in D /\ deps(next) \subseteq 1 .. next - 1 /\ next \in Nat
    <3>1. next \in D
      BY DEF ClosureInv
    <3>2. deps(next) \subseteq 1 .. next - 1
      BY <3>1 DEF ManifestInv
    <3>3. PICK N \in Nat : D = 1 .. N
      BY DEF ManifestInv
    <3>4. next \in Nat
      BY <3>1, <3>3
    <3> QED BY <3>1, <3>2, <3>4
  <2>5. deps(next) \subseteq loaded \cup load.images
    BY <2>1, <2>3 DEF ClosureInv, SelfContained
  <2>6. deps(next) \subseteq loaded
    <3> SUFFICES ASSUME NEW d \in deps(next), d \in load.images
                 PROVE  FALSE
      BY <2>5
    <3>1. d \in 1 .. next - 1 /\ next <= d
      BY <2>1, <2>4
    <3> QED BY <2>4, <3>1
  <2>7. loaded \cup load'.images \cup Running' = loaded \cup load.images \cup Running
    BY <2>1, <2>3
  <2> QED BY <2>2, <2>3, <2>4, <2>6, <2>7 DEF ClosureInv, SelfContained
<1>6. CASE EndInitializer
  <2>1. /\ load.stage = "running" /\ loaded' = loaded \cup {load.index}
        /\ load'.images = load.images /\ load'.stage = "between" /\ UNCHANGED entries
    BY <1>6 DEF EndInitializer
  <2>2. Running = {load.index} /\ Running' = {}
    BY <2>1 DEF Running
  <2>3. load.index \in D /\ deps(load.index) \subseteq loaded
    BY <2>1 DEF ClosureInv
  <2>4. loaded' \cup load'.images \cup Running' = loaded \cup load.images \cup Running
    BY <2>1, <2>2
  <2> QED BY <2>1, <2>2, <2>3, <2>4 DEF ClosureInv, SelfContained
<1>7. CASE Succeed \/ Fail
  <2>1. load'.images = {} /\ load'.stage = "idle" /\ UNCHANGED <<entries, loaded>>
    BY <1>7 DEF Succeed, Fail, Idle
  <2>2. Running' = {}
    BY <2>1 DEF Running
  <2> QED BY <2>1, <2>2 DEF ClosureInv, SelfContained
<1>8. CASE UNCHANGED vars
  BY <1>8 DEF vars, loader, ClosureInv, SelfContained, Running
<1> QED BY <1>1, <1>2, <1>3, <1>4, <1>5, <1>6, <1>7, <1>8 DEF Next

LEMMA ClosureInvariant == Spec => [](ManifestInv /\ ClosureInv)
<1>1. Init => ManifestInv /\ ClosureInv
  <2>1. DOMAIN <<>> = 1 .. 0
    OBVIOUS
  <2> QED BY <2>1 DEF Init, ManifestInv, ClosureInv, SelfContained, Running, Idle
<1>2. ManifestInv /\ ClosureInv /\ [Next]_vars => (ManifestInv /\ ClosureInv)'
  BY ManifestStep, ClosureStep
<1> QED BY <1>1, <1>2, PTL DEF Spec

\* Whatever is declared and requested, loads after loads and failures at any
\* step: when loadCodeDB (src/sandbox.zig) starts an initializer, everything
\* the module depends on, directly or not, has been initialized.
THEOREM LoadsInOrderHolds == Spec => []LoadsInOrder
<1>1. ASSUME ManifestInv, ClosureInv, load.stage = "running"
      PROVE  /\ entries[load.index].dependencies \subseteq loaded
             /\ Below(nodes, entries[load.index].name) \subseteq {entries[i].name : i \in loaded}
  <2> DEFINE T == {entries[i].name : i \in loaded}
             a == entries[load.index].name
  <2>1. /\ load.index \in DOMAIN entries /\ entries[load.index].dependencies \subseteq loaded
        /\ loaded \subseteq DOMAIN entries
        /\ \A i \in loaded : entries[i].dependencies \subseteq loaded
    BY <1>1 DEF ClosureInv, SelfContained
  <2>2. Valid(nodes)
    BY <1>1, <2>1 DEF ManifestInv
  <2>3. \A k \in DOMAIN entries : entries[k].dependencies \subseteq loaded
          => Successors(nodes, {entries[k].name}) \subseteq T
    BY <1>1 DEF ManifestInv
  <2>4. Successors(nodes, {a}) \subseteq T
    BY <2>1, <2>3
  <2>5. Successors(nodes, T) \subseteq T
    <3>1. \A d \in Successors(nodes, T) : \E i \in loaded : d \in Successors(nodes, {entries[i].name})
      BY DEF Successors
    <3> QED BY <2>1, <2>3, <3>1
  <2>6. Below(nodes, a) \subseteq T
    BY <2>2, <2>4, <2>5, BelowLeast
  <2> QED BY <2>1, <2>6
<1>2. ManifestInv /\ ClosureInv => LoadsInOrder
  BY <1>1 DEF LoadsInOrder
<1> QED BY <1>2, ClosureInvariant, PTL

=============================================================================
