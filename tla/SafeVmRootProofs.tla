-------------------------- MODULE SafeVmRootProofs --------------------------
(*****************************************************************************)
(* The collector frees nothing that is in use, and an import builds the      *)
(* graph of the capsule: NoDangling and ImportFaithful, for every set of     *)
(* objects and handles and every graph.                                      *)
(*                                                                           *)
(* A collection keeps what is reachable from its roots (ReachableCloses), so *)
(* it is enough that whatever a frame uses is in a root, or in an object     *)
(* that is.  RootInv, next to VmInv and ImportInv, says where:               *)
(*   HeapLive      the roots, and what a live object refers to, are alive    *)
(*   CellTypes     an object that is not allocated has no contents           *)
(*   Secured       an operation that waits for guest code has its argument   *)
(*                 in the arena it found, or registered, and the value at    *)
(*                 hand among the slots below the frame it called            *)
(*   OpRooted      the same of the operation that runs, whose value may also *)
(*                 be what it just read from a guest variable                *)
(*   ImportRooted  the table is in the arena and has an object for every     *)
(*                 node resolved so far; the values at hand are in either    *)
(*                                                                           *)
(* Then nothing an import has built can change but by its own steps, and     *)
(* BuiltInv says what that is: the table lists a different object for every  *)
(* node so far (Listed), each with the kind, the bytes and the flags of its  *)
(* node and its first references (Filled), and the values at hand are what   *)
(* comes next (AtHand).                                                      *)
(*****************************************************************************)
EXTENDS SafeVmProofs, Integers

---------------------------------------------------------------------------
(* Reachability *)

\* A nonempty set of naturals up to a bound has a least element.
LEMMA LeastElement ==
  ASSUME NEW N \in Nat, NEW B \in SUBSET (0 .. N), B # {}
  PROVE  \E m \in B : \A k \in B : m <= k
<1> DEFINE T == {1 .. n : n \in B}
<1>1. IsWellFoundedOn(StrictSubsetOrdering(1 .. N), SUBSET (1 .. N))
  <2> DEFINE S == 1 .. N
  <2>1. IsFiniteSet(S)
    BY FS_Interval
  <2> HIDE DEF S
  <2>2. IsWellFoundedOn(StrictSubsetOrdering(S), SUBSET S)
    BY <2>1, FS_StrictSubsetOrderingWellFounded, FS_FiniteSubsetsOfFinite
  <2> QED BY <2>2 DEF S
<1>2. T \subseteq SUBSET (1 .. N) /\ T # {}
  <2>1. \A n \in B : 1 .. n \subseteq 1 .. N
    OBVIOUS
  <2> QED BY <2>1
<1> HIDE DEF T
<1>3. PICK s \in T : \A r \in T : ~(<<r, s>> \in StrictSubsetOrdering(1 .. N))
  BY <1>1, <1>2, WFMin
<1> USE DEF T
<1>4. PICK m \in B : s = 1 .. m
  BY <1>3
<1>5. ASSUME NEW k \in B, ~(m <= k)
      PROVE  FALSE
  <2>1. /\ 1 .. k \in T /\ 1 .. k \subseteq 1 .. m /\ 1 .. m \subseteq 1 .. N
        /\ m \in 1 .. m /\ m \notin 1 .. k
    BY <1>5
  <2>2. <<1 .. k, 1 .. m>> \in StrictSubsetOrdering(1 .. N)
    BY <2>1 DEF StrictSubsetOrdering
  <2> QED BY <1>3, <1>4, <2>1, <2>2
<1> QED BY <1>5

\* Induction up to a bound, for a set: the least exception would have one before it.
LEMMA UpTo ==
  ASSUME NEW N \in Nat, NEW G, 0 \in G, \A n \in 1 .. N : n - 1 \in G => n \in G
  PROVE  \A n \in 0 .. N : n \in G
<1> DEFINE B == {n \in 0 .. N : n \notin G}
<1> SUFFICES ASSUME B # {} PROVE FALSE
  OBVIOUS
<1>1. PICK m \in B : \A k \in B : m <= k
  <2>1. B \in SUBSET (0 .. N)
    OBVIOUS
  <2> HIDE DEF B
  <2> QED BY <2>1, LeastElement
<1>2. m \in 1 .. N /\ m - 1 \notin B
  BY <1>1
<1> QED BY <1>1, <1>2

\* One step along the references.
Spread(S) == S \cup PartsOf(S)

LEMMA SpreadFacts ==
  ASSUME NEW S
  PROVE  /\ S \subseteq Spread(S) /\ Spread(S) \subseteq S \cup Objects
         /\ \A o \in S : ToSet(cells[o].parts) \cap Objects \subseteq Spread(S)
<1>1. PartsOf(S) \subseteq Objects
  BY Zenon DEF PartsOf
<1>2. \A o \in S : ToSet(cells[o].parts) \cap Objects \subseteq PartsOf(S)
  BY Zenon DEF PartsOf
<1> QED BY <1>1, <1>2, Zenon DEF Spread

\* The sets reached in 0, 1, ..., N steps.
Chain(f, N, start) == f = [n \in 0 .. N |-> IF n = 0 THEN start ELSE Spread(f[n-1])]

LEMMA ChainValues ==
  ASSUME NEW N \in Nat, NEW start, NEW f, Chain(f, N, start)
  PROVE  f[0] = start /\ \A n \in 1 .. N : f[n] = Spread(f[n-1])
<1>1. \A n \in 0 .. N : f[n] = IF n = 0 THEN start ELSE Spread(f[n-1])
  BY DEF Chain
<1> QED BY <1>1

LEMMA ChainExists ==
  ASSUME NEW N \in Nat, NEW start
  PROVE  \E f : Chain(f, N, start)
<1> DEFINE G == {m \in 0 .. N : \E f : Chain(f, m, start)}
<1>1. 0 \in G
  <2> DEFINE g == [n \in 0 .. 0 |-> start]
  <2>1. g = [n \in 0 .. 0 |-> IF n = 0 THEN start ELSE Spread(g[n-1])]
    OBVIOUS
  <2>2. Chain(g, 0, start)
    BY <2>1 DEF Chain
  <2> HIDE DEF g
  <2>3. \E f : Chain(f, 0, start)
    BY <2>2
  <2> QED BY <2>3
<1>2. ASSUME NEW m \in 1 .. N, m - 1 \in G
      PROVE  m \in G
  <2>1. PICK f : Chain(f, m - 1, start)
    BY <1>2
  <2>2. f[0] = start /\ \A n \in 1 .. m - 1 : f[n] = Spread(f[n-1])
    BY <2>1, ChainValues
  <2> DEFINE g == [n \in 0 .. m |-> IF n = m THEN Spread(f[m-1]) ELSE f[n]]
  <2>3. g[m] = Spread(f[m-1]) /\ \A k \in 0 .. m - 1 : g[k] = f[k]
    OBVIOUS
  <2>4. g = [n \in 0 .. m |-> g[n]]
    OBVIOUS
  <2> HIDE DEF g
  <2>5. g[0] = start /\ \A n \in 1 .. m : g[n] = Spread(g[n-1])
    <3>1. g[0] = start /\ g[m-1] = f[m-1]
      BY <2>2, <2>3
    <3>2. \A n \in 1 .. m - 1 : g[n] = Spread(g[n-1])
      BY <2>2, <2>3
    <3> QED BY <2>3, <3>1, <3>2
  <2>6. \A n \in 0 .. m : g[n] = IF n = 0 THEN start ELSE Spread(g[n-1])
    BY <2>5
  <2>7. Chain(g, m, start)
    BY <2>4, <2>6 DEF Chain
  <2> QED BY <2>7
<1>3. N \in G
  <2> HIDE DEF G
  <2> QED BY <1>1, <1>2, UpTo
<1> QED BY <1>3

\* What a collection keeps: the roots, and whatever an object kept refers to.  A set
\* that is not closed has grown with every step, and can have no more members than
\* there are objects.
LEMMA ReachableCloses ==
  ASSUME NEW roots
  PROVE  /\ Reachable(roots) \subseteq Objects
         /\ roots \cap Objects \subseteq Reachable(roots)
         /\ \A o \in Reachable(roots) : ToSet(cells[o].parts) \cap Objects \subseteq Reachable(roots)
<1> DEFINE N == Cardinality(Objects)
           start == roots \cap Objects
           F == CHOOSE f : Chain(f, N, start)
<1>1. N \in Nat /\ IsFiniteSet(Objects) /\ start \subseteq Objects
  BY HeapAssumption, FS_CardinalityType
<1>2. Reachable(roots) = F[N]
  BY DEF Reachable, Spread, Chain
<1> HIDE DEF start
<1>3. Chain(F, N, start)
  BY <1>1, ChainExists, Zenon
<1> HIDE DEF F
<1>4. F[0] = start /\ \A n \in 1 .. N : F[n] = Spread(F[n-1])
  BY <1>1, <1>3, ChainValues
<1> HIDE DEF N
<1> DEFINE Closed(S) == Spread(S) = S
           G == {n \in 0 .. N : /\ F[n] \subseteq Objects /\ start \subseteq F[n]
                                /\ Closed(F[n]) \/ Cardinality(F[n]) >= n + 1}
<1>5. 0 \in G
  <2> DEFINE S == F[0]
  <2>1. S \subseteq Objects /\ start \subseteq S /\ IsFiniteSet(S)
    BY <1>1, <1>4, FS_Subset
  <2> HIDE DEF S
  <2>2. Closed(S) \/ Cardinality(S) >= 1
    <3>1. CASE S = {}
      BY <3>1 DEF Spread, PartsOf
    <3>2. CASE S # {}
      BY <2>1, <3>2, FS_EmptySet, FS_CardinalityType
    <3> QED BY <3>1, <3>2
  <2> QED BY <1>1, <2>1, <2>2 DEF S
<1>6. ASSUME NEW n \in 1 .. N, n - 1 \in G
      PROVE  n \in G
  <2> DEFINE S == F[n-1]
             T == F[n]
  <2>1. /\ S \subseteq Objects /\ start \subseteq S /\ n \in 0 .. N /\ n \in Nat
        /\ Closed(S) \/ Cardinality(S) >= n
    BY <1>1, <1>6
  <2>2. T = Spread(S)
    BY <1>4
  <2> HIDE DEF S, T
  <2>3. T \subseteq Objects /\ start \subseteq T /\ S \subseteq T
    BY <2>1, <2>2, SpreadFacts
  <2>4. Closed(T) \/ Cardinality(T) >= n + 1
    <3>1. CASE Closed(S)
      BY <2>2, <3>1
    <3>2. CASE ~Closed(S)
      <4>1. IsFiniteSet(T) /\ IsFiniteSet(S)
        BY <1>1, <2>1, <2>3, FS_Subset
      <4>2. S # T
        BY <2>2, <3>2
      <4>3. Cardinality(S) <= Cardinality(T) /\ Cardinality(S) # Cardinality(T)
        BY <2>3, <4>1, <4>2, FS_Subset
      <4>4. Cardinality(S) \in Nat /\ Cardinality(T) \in Nat
        BY <4>1, FS_CardinalityType
      <4> QED BY <2>1, <3>2, <4>3, <4>4
    <3> QED BY <3>1, <3>2
  <2> QED BY <2>1, <2>3, <2>4 DEF T
<1>7. N \in G
  <2>1. \A n \in 1 .. N : n - 1 \in G => n \in G
    BY <1>6
  <2> HIDE DEF G
  <2> QED BY <1>1, <1>5, <2>1, UpTo
<1> DEFINE R == F[N]
<1>8. R \subseteq Objects /\ start \subseteq R /\ Closed(R)
  <2>1. R \subseteq Objects /\ start \subseteq R /\ (Closed(R) \/ Cardinality(R) >= N + 1)
    BY <1>7
  <2> HIDE DEF R
  <2>2. Cardinality(R) <= N /\ Cardinality(R) \in Nat
    BY <1>1, <2>1, FS_Subset, FS_CardinalityType DEF N
  <2> QED BY <1>1, <2>1, <2>2
<1> HIDE DEF R
<1>9. \A o \in R : ToSet(cells[o].parts) \cap Objects \subseteq R
  BY <1>8, SpreadFacts, Zenon
<1> QED BY <1>2, <1>8, <1>9 DEF R, start

---------------------------------------------------------------------------
(* The invariant *)

\* The objects in the first n slots.
Under(slots, n) == {slots[k] : k \in 1 .. n}

HeapLive ==
  /\ ToSet(arena) \cap Objects \subseteq alive
  /\ registered \cap Objects \subseteq alive
  /\ {exc, stored, view} \cap Objects \subseteq alive
  /\ \A o \in alive : ToSet(cells[o].parts) \cap Objects \subseteq alive

Cell(c) ==
  /\ c \in [kind: {c.kind}, bytes: {c.bytes}, parts: {c.parts}, frozen: {c.frozen},
            default: {c.default}]
  /\ c.parts \in Seq(ToSet(c.parts))

CellTypes ==
  /\ alive \subseteq Objects /\ DOMAIN cells = Objects
  /\ \A o \in Objects : Cell(cells[o])
  /\ \A o \in Objects : o \notin alive => cells[o].parts = <<>>

\* The exception an operation will put back.
Kept(f) == IF f.op.keeps THEN {f.saved} ELSE {}

\* Where the objects are that an operation uses.
Anchored(f, slots, reg, roots) ==
  /\ {f.arg} \cap Objects \subseteq Under(slots, f.entry) \cup reg
  /\ {f.val} \cap Objects \subseteq {f.arg} \cup roots
  /\ Kept(f) \cap Objects \subseteq Under(slots, f.entry)

Secured(slots, reg) ==
  \A i \in 1 .. Len(frames) - 1 : frames[i].kind = "op" =>
    Anchored(frames[i], slots, reg, Under(slots, Low(frames[i + 1])))

\* The value at hand was read from a guest variable, or by guest code.
HasRead(f) == \E i \in 1 .. f.pc - 1 : f.op.body[i] \in {"read", "call", "load"}
ReadRoot(f, v) == IF HasRead(f) THEN {v} ELSE {}

OpRooted ==
  Top.kind = "op" => Anchored(Top, arena, registered, ToSet(arena) \cup ReadRoot(Top, stored))

Shells(f, in) == IF f.table \in Objects THEN in[f.table].parts ELSE <<>>

\* An import's frame, the slots and the contents of its table.
Building(f, slots, shells) ==
  LET nodes == f.graph.nodes IN
  /\ GraphValid(f.graph)
  /\ f.vals \in Seq(ToSet(f.vals))
  /\ {f.table} \cap Objects \subseteq ToSet(slots)
  /\ ToSet(f.vals) \cap Objects \subseteq ToSet(slots) \cup ToSet(shells)
  /\ f.phase = "shell" => f.node <= Len(shells) + 1
  /\ f.phase \in {"edges", "root"} /\ nodes # <<>> =>
       f.table \in Objects /\ Len(nodes) <= Len(shells)
  /\ f.edge >= 1 /\ (f.phase \in {"table", "shell"} => f.edge = 1)
  /\ f.phase = "edges" /\ f.edge <= PairEdges(nodes[f.node]) => f.edge % 2 = 1

ImportRooted == Top.kind = "import" => Building(Top, arena, Shells(Top, cells))

RootInv ==
  /\ HeapLive /\ CellTypes
  /\ Secured(arena, registered) /\ OpRooted /\ ImportRooted

---------------------------------------------------------------------------
(* Slots and frames *)

LEMMA Slots ==
  ASSUME NEW S, NEW s \in Seq(S)
  PROVE  /\ Under(s, Len(s)) = ToSet(s)
         /\ \A v : ToSet(Append(s, v)) = ToSet(s) \cup {v}
         /\ \A idx \in 0 .. Len(s) : /\ ToSet(SubSeq(s, 1, idx)) = Under(s, idx)
                                     /\ Under(s, idx) \subseteq ToSet(s)
<1>1. DOMAIN s = 1 .. Len(s) /\ Len(s) \in Nat
  OBVIOUS
<1>2. Under(s, Len(s)) = ToSet(s)
  BY <1>1 DEF Under, ToSet
<1>3. ASSUME NEW v
      PROVE  ToSet(Append(s, v)) = ToSet(s) \cup {v}
  <2> DEFINE r == Append(s, v)
  <2>1. /\ DOMAIN r = 1 .. Len(s) + 1 /\ r[Len(s) + 1] = v
        /\ \A i \in 1 .. Len(s) : r[i] = s[i]
    OBVIOUS
  <2> HIDE DEF r
  <2>2. ToSet(r) \subseteq ToSet(s) \cup {v}
    BY <1>1, <2>1 DEF ToSet
  <2>3. ToSet(s) \cup {v} \subseteq ToSet(r)
    BY <1>1, <2>1 DEF ToSet
  <2> QED BY <2>2, <2>3 DEF r
<1>4. ASSUME NEW idx \in 0 .. Len(s)
      PROVE  /\ ToSet(SubSeq(s, 1, idx)) = Under(s, idx)
             /\ Under(s, idx) \subseteq ToSet(s)
  <2> DEFINE r == SubSeq(s, 1, idx)
  <2>1. DOMAIN r = 1 .. idx /\ \A i \in 1 .. idx : r[i] = s[i]
    BY <1>1
  <2> HIDE DEF r
  <2>2. ToSet(r) = Under(s, idx)
    BY <2>1 DEF ToSet, Under
  <2>3. Under(s, idx) \subseteq ToSet(s)
    BY <1>1 DEF ToSet, Under
  <2> QED BY <2>2, <2>3 DEF r
<1> QED BY <1>2, <1>3, <1>4

\* Slots up to n agree.
Agree(s, t, n) == \A k \in 1 .. n : s[k] = t[k]

LEMMA AgreeUnder ==
  ASSUME NEW s, NEW t, NEW n \in Nat, NEW m \in Nat, m <= n, Agree(s, t, n)
  PROVE  Under(s, m) = Under(t, m)
  BY DEF Agree, Under

LEMMA FrameLows ==
  ASSUME VmInv
  PROVE  /\ Len(frames) \in Nat /\ Len(frames) > 0
         /\ \A i \in 1 .. Len(frames) : Low(frames[i]) \in Nat /\ Low(frames[i]) <= Low(Top)
         /\ Low(Top) \in Nat /\ Low(Top) <= Len(arena) /\ Len(arena) \in Nat
         /\ arena \in Seq(Identities)
<1>1. Len(frames) \in Nat /\ Len(frames) > 0 /\ Low(Top) \in Nat
  BY TopType DEF VmInv
<1> DEFINE n == Len(frames)
<1> HIDE DEF n
<1>2. ASSUME NEW i \in 1 .. n
      PROVE  Low(frames[i]) \in Nat /\ Low(frames[i]) <= Low(Top)
  <2>1. IsFrame(frames[i])
    BY DEF VmInv, FrameInv, FrameTypes, n
  <2>2. Low(frames[i]) \in Nat
    BY <2>1 DEF IsFrame, ZigFrames, OpFrames, ImportFrames, Low
  <2>3. n \in i .. n
    BY <1>1 DEF n
  <2>4. Low(frames[i]) <= Low(frames[n])
    BY <2>3, LowOrder DEF VmInv, n
  <2> QED BY <2>2, <2>4 DEF Top, n
<1>3. Low(Top) <= Len(arena) /\ arena \in Seq(Identities)
  BY Zenon DEF VmInv, FrameInv, Stack, HeapTypes
<1> QED BY <1>1, <1>2, <1>3 DEF n

\* The frames below the top one keep their anchors while the slots below the top
\* frame, and the registrations of their arguments, stay.
LEMMA StillSecured ==
  ASSUME VmInv, Secured(arena, registered), NEW slots, NEW reg, Agree(slots, arena, Low(Top)),
         \A i \in 1 .. Len(frames) - 1 :
           frames[i].kind = "op" /\ frames[i].arg \in registered => frames[i].arg \in reg
  PROVE  Secured(slots, reg)
<1> SUFFICES ASSUME NEW i \in 1 .. Len(frames) - 1, frames[i].kind = "op"
             PROVE  Anchored(frames[i], slots, reg, Under(slots, Low(frames[i + 1])))
  BY DEF Secured
<1> DEFINE f == frames[i]
           m == Low(frames[i + 1])
<1>1. Anchored(f, arena, registered, Under(arena, m))
  BY DEF Secured
<1>2. /\ m \in Nat /\ m <= Low(Top) /\ Low(Top) \in Nat
      /\ f.entry \in Nat /\ f.entry <= Low(Top)
  <2>1. i \in 1 .. Len(frames) /\ i + 1 \in 1 .. Len(frames)
    BY FrameLows
  <2>2. Low(f) = f.entry
    BY DEF Low
  <2> QED BY <2>1, <2>2, FrameLows
<1>3. Under(slots, m) = Under(arena, m) /\ Under(slots, f.entry) = Under(arena, f.entry)
  BY <1>2, AgreeUnder
<1>4. f.arg \in registered => f.arg \in reg
  OBVIOUS
<1> HIDE DEF f, m
<1>5. Anchored(f, slots, reg, Under(slots, m))
  BY <1>1, <1>3, <1>4 DEF Anchored
<1> QED BY <1>5 DEF f, m

\* The frames after a step.
LEMMA FramesMoved ==
  ASSUME VmInv, NEW g, SetTop(g)
  PROVE  /\ Len(frames') = Len(frames) /\ frames'[Len(frames)] = g /\ Top' = g
         /\ \A i \in 1 .. Len(frames) - 1 : frames'[i] = frames[i]
<1>1. frames \in Seq(ToSet(frames)) /\ Len(frames) \in Nat /\ Len(frames) > 0
  BY DEF VmInv, FrameInv, FrameTypes
<1>2. Top' = g
  BY TopAfter
<1> QED BY <1>1, <1>2 DEF SetTop

LEMMA FramesPushed ==
  ASSUME VmInv, NEW g, NEW h, frames' = Append([frames EXCEPT ![Len(frames)] = h], g)
  PROVE  /\ Len(frames') = Len(frames) + 1 /\ Top' = g
         /\ frames'[Len(frames) + 1] = g /\ frames'[Len(frames)] = h
         /\ \A i \in 1 .. Len(frames) - 1 : frames'[i] = frames[i]
<1> DEFINE S == ToSet(frames) \cup {g, h}
           r == frames'
<1>1. frames \in Seq(S) /\ Len(frames) > 0 /\ g \in S /\ h \in S
  BY DEF VmInv, FrameInv, FrameTypes
<1>2. r = Append([frames EXCEPT ![Len(frames)] = h], g)
  OBVIOUS
<1>3. Top' = g
  BY TopAfter
<1> HIDE DEF S, r
<1> QED BY <1>1, <1>2, <1>3, PushFacts DEF r

LEMMA FramesPopped ==
  ASSUME VmInv, Len(frames) > 1, frames' = Front(frames)
  PROVE  /\ Len(frames') = Len(frames) - 1 /\ Top' = frames[Len(frames) - 1]
         /\ \A i \in 1 .. Len(frames) - 1 : frames'[i] = frames[i]
<1>1. frames \in Seq(ToSet(frames)) /\ Len(frames) \in Nat
  BY DEF VmInv, FrameInv, FrameTypes
<1>2. /\ Len(frames') = Len(frames) - 1
      /\ \A i \in 1 .. Len(frames) - 1 : frames'[i] = frames[i]
  BY <1>1 DEF Front
<1> QED BY <1>1, <1>2 DEF Top

LEMMA SecuredMoves ==
  ASSUME VmInv, NEW g, SetTop(g), Low(g) = Low(Top), NEW slots, NEW reg, Secured(slots, reg)
  PROVE  \A i \in 1 .. Len(frames') - 1 : frames'[i].kind = "op" =>
           Anchored(frames'[i], slots, reg, Under(slots, Low(frames'[i + 1])))
<1> DEFINE n == Len(frames)
<1>1. /\ n \in Nat /\ n > 0 /\ Len(frames') = n /\ frames'[n] = g
      /\ \A i \in 1 .. n - 1 : frames'[i] = frames[i]
  BY FramesMoved, FrameLows
<1> SUFFICES ASSUME NEW i \in 1 .. n - 1, frames'[i].kind = "op"
             PROVE  Anchored(frames'[i], slots, reg, Under(slots, Low(frames'[i + 1])))
  BY <1>1
<1>2. frames'[i] = frames[i]
  BY <1>1
<1>3. Low(frames'[i + 1]) = Low(frames[i + 1])
  <2>1. CASE i = n - 1
    BY <1>1, <2>1 DEF Top
  <2>2. CASE i # n - 1
    <3>1. i + 1 \in 1 .. n - 1
      BY <1>1, <2>2
    <3> QED BY <1>1, <3>1
  <2> QED BY <2>1, <2>2
<1>4. Anchored(frames[i], slots, reg, Under(slots, Low(frames[i + 1])))
  BY <1>2 DEF Secured
<1> QED BY <1>2, <1>3, <1>4, Zenon

LEMMA SecuredPops ==
  ASSUME VmInv, Len(frames) > 1, frames' = Front(frames), NEW slots, NEW reg,
         Secured(slots, reg)
  PROVE  /\ \A i \in 1 .. Len(frames') - 1 : frames'[i].kind = "op" =>
              Anchored(frames'[i], slots, reg, Under(slots, Low(frames'[i + 1])))
         /\ Top'.kind = "op" => Anchored(Top', slots, reg, Under(slots, Low(Top)))
<1> DEFINE n == Len(frames)
<1>1. /\ n \in Nat /\ n > 1 /\ Len(frames') = n - 1 /\ Top' = frames[n - 1]
      /\ \A i \in 1 .. n - 1 : frames'[i] = frames[i]
  BY FramesPopped, FrameLows
<1>2. ASSUME NEW i \in 1 .. n - 2, frames'[i].kind = "op"
      PROVE  Anchored(frames'[i], slots, reg, Under(slots, Low(frames'[i + 1])))
  <2>1. frames'[i] = frames[i] /\ frames'[i + 1] = frames[i + 1] /\ i \in 1 .. n - 1
    BY <1>1
  <2>2. Anchored(frames[i], slots, reg, Under(slots, Low(frames[i + 1])))
    BY <1>2, <2>1 DEF Secured
  <2> QED BY <2>1, <2>2, Zenon
<1>3. ASSUME Top'.kind = "op"
      PROVE  Anchored(Top', slots, reg, Under(slots, Low(Top)))
  <2>1. n - 1 \in 1 .. n - 1 /\ n - 1 + 1 = n
    BY <1>1
  <2>2. Anchored(frames[n - 1], slots, reg, Under(slots, Low(frames[n])))
    BY <1>1, <1>3, <2>1 DEF Secured
  <2> QED BY <1>1, <2>2, Zenon DEF Top
<1>4. n - 1 - 1 = n - 2
  BY <1>1
<1> QED BY <1>1, <1>2, <1>3, <1>4

LEMMA SecuredPushes ==
  ASSUME VmInv, NEW g, NEW h, frames' = Append([frames EXCEPT ![Len(frames)] = h], g),
         Low(h) = Low(Top), NEW slots, NEW reg, Secured(slots, reg),
         h.kind = "op" => Anchored(h, slots, reg, Under(slots, Low(g)))
  PROVE  \A i \in 1 .. Len(frames') - 1 : frames'[i].kind = "op" =>
           Anchored(frames'[i], slots, reg, Under(slots, Low(frames'[i + 1])))
<1> DEFINE n == Len(frames)
<1>1. /\ n \in Nat /\ n > 0 /\ Len(frames') = n + 1 /\ frames'[n + 1] = g /\ frames'[n] = h
      /\ \A i \in 1 .. n - 1 : frames'[i] = frames[i]
  BY FramesPushed, FrameLows
<1>2. Len(frames') - 1 = n
  <2> HIDE DEF n
  <2> QED BY <1>1
<1> SUFFICES ASSUME NEW i \in 1 .. n, frames'[i].kind = "op"
             PROVE  Anchored(frames'[i], slots, reg, Under(slots, Low(frames'[i + 1])))
  BY <1>2, Zenon
<1>3. CASE i = n
  BY <1>1, <1>3, Zenon
<1>4. CASE i # n
  <2>1. i \in 1 .. n - 1
    BY <1>1, <1>4
  <2>2. frames'[i] = frames[i]
    BY <1>1, <2>1
  <2>3. Low(frames'[i + 1]) = Low(frames[i + 1])
    <3>1. CASE i = n - 1
      BY <1>1, <3>1 DEF Top
    <3>2. CASE i # n - 1
      <4>1. i + 1 \in 1 .. n - 1
        BY <1>1, <2>1, <3>2
      <4> QED BY <1>1, <4>1
    <3> QED BY <3>1, <3>2
  <2>4. Anchored(frames[i], slots, reg, Under(slots, Low(frames[i + 1])))
    BY <2>1, <2>2 DEF Secured
  <2> QED BY <2>2, <2>3, <2>4, Zenon
<1> QED BY <1>3, <1>4

---------------------------------------------------------------------------
(* What a step has to keep *)

\* Nothing new in the heap but opaque objects, and every root alive.
LEMMA HeapGrows ==
  ASSUME HeapLive, CellTypes, alive \subseteq alive', alive' \subseteq Objects, cells' = cells,
         ToSet(arena') \cap Objects \subseteq alive', registered' \cap Objects \subseteq alive',
         {exc', stored', view'} \cap Objects \subseteq alive'
  PROVE  HeapLive' /\ CellTypes'
<1>1. ASSUME NEW o \in alive'
      PROVE  ToSet(cells[o].parts) \cap Objects \subseteq alive'
  <2>1. CASE o \in alive
    BY <2>1 DEF HeapLive
  <2>2. CASE o \notin alive
    <3>1. cells[o].parts = <<>>
      BY <1>1, <2>2 DEF CellTypes
    <3>2. ToSet(cells[o].parts) = {}
      BY <3>1 DEF ToSet
    <3> QED BY <3>2
  <2> QED BY <2>1, <2>2
<1>2. HeapLive'
  BY <1>1 DEF HeapLive, ToSet
<1>3. CellTypes'
  BY DEF CellTypes
<1> QED BY <1>2, <1>3

LEMMA EmptyCell == Cell(Empty) /\ Empty.parts = <<>>
  BY DEF Cell, Empty, ToSet

\* A new object without references, in a new slot.
LEMMA HeapAllocates ==
  ASSUME VmInv, HeapLive, CellTypes, NEW o, NEW c, Allocate(o, c), Cell(c), c.parts = <<>>,
         UNCHANGED <<exc, registered, stored, view>>
  PROVE  /\ HeapLive' /\ CellTypes'
         /\ o \in Objects /\ o \notin alive /\ ToSet(arena') = ToSet(arena) \cup {o}
         /\ Agree(arena', arena, Len(arena))
         /\ \A p \in Objects : p # o => cells'[p] = cells[p]
<1>1. /\ o \in Objects /\ o \notin alive /\ alive' = alive \cup {o}
      /\ cells' = [cells EXCEPT ![o] = c] /\ arena' = Append(arena, o)
      /\ arena \in Seq(Identities)
  BY DEF Allocate, Protect, VmInv, HeapTypes
<1>2. ToSet(arena') = ToSet(arena) \cup {o}
  BY <1>1, Slots
<1>3. Agree(arena', arena, Len(arena))
  BY <1>1 DEF Agree
<1>4. cells'[o] = c /\ \A p \in Objects : p # o => cells'[p] = cells[p]
  BY <1>1 DEF CellTypes
<1>5. CellTypes'
  <2>1. DOMAIN cells' = Objects /\ alive' \subseteq Objects
    BY <1>1 DEF CellTypes
  <2>2. \A p \in Objects : Cell(cells'[p])
    BY <1>4 DEF CellTypes
  <2>3. \A p \in Objects : p \notin alive' => cells'[p].parts = <<>>
    BY <1>1, <1>4 DEF CellTypes
  <2> QED BY <2>1, <2>2, <2>3 DEF CellTypes, Cell, ToSet
<1>6. HeapLive'
  <2>1. ASSUME NEW p \in alive'
        PROVE  ToSet(cells'[p].parts) \cap Objects \subseteq alive'
    <3>1. CASE p = o
      <4>1. ToSet(cells'[p].parts) = {}
        BY <1>4, <3>1 DEF ToSet
      <4> QED BY <4>1
    <3>2. CASE p # o
      <4>1. p \in alive /\ p \in Objects
        BY <1>1, <3>2 DEF CellTypes
      <4> QED BY <1>1, <1>4, <3>2, <4>1 DEF HeapLive
    <3> QED BY <3>1, <3>2
  <2>2. /\ ToSet(arena') \cap Objects \subseteq alive' /\ registered' \cap Objects \subseteq alive'
        /\ {exc', stored', view'} \cap Objects \subseteq alive'
    BY <1>1, <1>2 DEF HeapLive
  <2> QED BY <2>1, <2>2 DEF HeapLive, ToSet
<1> QED BY <1>1, <1>2, <1>3, <1>4, <1>5, <1>6

\* The frame on top moves on.
LEMMA RootedMoves ==
  ASSUME VmInv, RootInv, NEW g, SetTop(g), Low(g) = Low(Top), HeapLive', CellTypes',
         Agree(arena', arena, Low(Top)), registered \subseteq registered',
         g.kind = "op" => Anchored(g, arena', registered', ToSet(arena') \cup ReadRoot(g, stored')),
         g.kind = "import" => Building(g, arena', Shells(g, cells'))
  PROVE  RootInv'
<1>1. Secured(arena', registered')
  BY StillSecured DEF RootInv
<1>2. Secured(arena, registered)'
  <2>1. \A i \in 1 .. Len(frames') - 1 : frames'[i].kind = "op" =>
          Anchored(frames'[i], arena', registered', Under(arena', Low(frames'[i + 1])))
    BY <1>1, SecuredMoves
  <2> QED BY <2>1 DEF Secured, Anchored, Kept, Under, Low
<1>3. Top' = g
  BY TopAfter
<1>4. OpRooted' /\ ImportRooted'
  BY <1>3, Zenon DEF OpRooted, ImportRooted
<1> QED BY <1>2, <1>4 DEF RootInv

\* The frames stay.
LEMMA RootedStays ==
  ASSUME VmInv, RootInv, UNCHANGED <<frames, arena>>, HeapLive', CellTypes',
         \A i \in 1 .. Len(frames) :
           frames[i].kind = "op" /\ frames[i].arg \in registered => frames[i].arg \in registered',
         Top.kind = "op" => ReadRoot(Top, stored') = ReadRoot(Top, stored),
         Top.kind = "import" => Shells(Top, cells') = Shells(Top, cells)
  PROVE  RootInv'
<1>1. Agree(arena', arena, Low(Top)) /\ Len(frames) \in Nat /\ Len(frames) > 0
  BY FrameLows DEF Agree
<1>2. Secured(arena', registered')
  <2>1. \A i \in 1 .. Len(frames) - 1 :
           frames[i].kind = "op" /\ frames[i].arg \in registered => frames[i].arg \in registered'
    BY <1>1
  <2> QED BY <1>1, <2>1, StillSecured DEF RootInv
<1>3. Secured(arena, registered)'
  BY <1>2 DEF Secured, Anchored, Kept, Under, Low
<1>4. Top' = Top
  BY TopAfter
<1>5. OpRooted'
  <2> SUFFICES ASSUME Top.kind = "op"
               PROVE  Anchored(Top, arena', registered', ToSet(arena') \cup ReadRoot(Top, stored'))
    BY <1>4, Zenon DEF OpRooted
  <2> DEFINE f == Top
  <2>1. Anchored(f, arena, registered, ToSet(arena) \cup ReadRoot(f, stored))
    BY DEF RootInv, OpRooted
  <2>2. f.arg \in registered => f.arg \in registered'
    <3>1. Len(frames) \in 1 .. Len(frames)
      BY <1>1
    <3> QED BY <3>1, Zenon DEF Top
  <2>3. ReadRoot(f, stored') = ReadRoot(f, stored)
    BY Zenon
  <2> HIDE DEF f
  <2>4. Anchored(f, arena', registered', ToSet(arena') \cup ReadRoot(f, stored'))
    BY <2>1, <2>2, <2>3 DEF Anchored
  <2> QED BY <2>4 DEF f
<1>6. ImportRooted'
  BY <1>4, Zenon DEF RootInv, ImportRooted
<1> QED BY <1>3, <1>5, <1>6 DEF RootInv

\* The top frame leaves.
LEMMA RootedPops ==
  ASSUME VmInv, RootInv, Len(frames) > 1, frames' = Front(frames), HeapLive', CellTypes',
         arena' \in Seq(Identities), Low(Top) <= Len(arena'), Agree(arena', arena, Low(Top)),
         registered' = registered
  PROVE  RootInv'
<1>1. Secured(arena', registered')
  BY StillSecured DEF RootInv
<1>2. /\ \A i \in 1 .. Len(frames') - 1 : frames'[i].kind = "op" =>
           Anchored(frames'[i], arena', registered', Under(arena', Low(frames'[i + 1])))
      /\ Top'.kind = "op" => Anchored(Top', arena', registered', Under(arena', Low(Top)))
  BY <1>1, SecuredPops
<1>3. Secured(arena, registered)'
  BY <1>2 DEF Secured, Anchored, Kept, Under, Low
<1>4. OpRooted'
  <2> SUFFICES ASSUME Top'.kind = "op"
               PROVE  Anchored(Top', arena', registered', ToSet(arena') \cup ReadRoot(Top', stored'))
    BY Zenon DEF OpRooted
  <2> DEFINE f == Top'
  <2>1. Anchored(f, arena', registered', Under(arena', Low(Top)))
    BY <1>2
  <2>2. Under(arena', Low(Top)) \subseteq ToSet(arena')
    <3>1. Low(Top) \in 0 .. Len(arena')
      BY FrameLows
    <3> QED BY <3>1, Slots
  <2> HIDE DEF f
  <2>3. Anchored(f, arena', registered', ToSet(arena') \cup ReadRoot(f, stored'))
    BY <2>1, <2>2 DEF Anchored
  <2> QED BY <2>3 DEF f
<1>5. ImportRooted'
  BY TopAfter DEF ImportRooted
<1> QED BY <1>3, <1>4, <1>5 DEF RootInv

\* A frame is put on top.
LEMMA RootedPushes ==
  ASSUME VmInv, RootInv, NEW g, NEW h, frames' = Append([frames EXCEPT ![Len(frames)] = h], g),
         Low(h) = Low(Top), Low(g) = Len(arena), HeapLive', CellTypes',
         UNCHANGED <<arena, registered>>,
         h.kind = "op" => Anchored(h, arena, registered, ToSet(arena)),
         g.kind = "op" => Anchored(g, arena, registered, ToSet(arena)),
         g.kind = "import" => Building(g, arena, Shells(g, cells'))
  PROVE  RootInv'
<1>1. arena \in Seq(Identities) /\ Under(arena, Low(g)) = ToSet(arena)
  <2>1. arena \in Seq(Identities)
    BY FrameLows
  <2> QED BY <2>1, Slots
<1>2. \A i \in 1 .. Len(frames') - 1 : frames'[i].kind = "op" =>
        Anchored(frames'[i], arena, registered, Under(arena, Low(frames'[i + 1])))
  <2>1. h.kind = "op" => Anchored(h, arena, registered, Under(arena, Low(g)))
    BY <1>1, Zenon
  <2>2. Secured(arena, registered)
    BY DEF RootInv
  <2> QED BY <2>1, <2>2, SecuredPushes
<1>3. Secured(arena, registered)'
  BY <1>2 DEF Secured, Anchored, Kept, Under, Low
<1>4. Top' = g
  BY TopAfter
<1>5. OpRooted'
  <2> SUFFICES ASSUME g.kind = "op"
               PROVE  Anchored(g, arena', registered', ToSet(arena') \cup ReadRoot(g, stored'))
    BY <1>4, Zenon DEF OpRooted
  <2>1. Anchored(g, arena, registered, ToSet(arena))
    BY Zenon
  <2> QED BY <2>1 DEF Anchored
<1>6. ImportRooted'
  BY <1>4, Zenon DEF ImportRooted
<1> QED BY <1>3, <1>5, <1>6 DEF RootInv

---------------------------------------------------------------------------
(* Operations *)

\* What the operation that runs uses is alive.
LEMMA UsedAlive ==
  ASSUME VmInv, RootInv, InOp
  PROVE  /\ {Top.arg, Top.val} \cap Objects \subseteq alive
         /\ Kept(Top) \cap Objects \subseteq alive
         /\ Anchored(Top, arena, registered, ToSet(arena) \cup ReadRoot(Top, stored))
         /\ Low(Top) = Top.entry /\ Top.entry \in 0 .. Len(arena)
<1>1. Anchored(Top, arena, registered, ToSet(arena) \cup ReadRoot(Top, stored))
  BY DEF RootInv, OpRooted, InOp
<1>2. Top.entry \in Nat /\ Top.entry <= Len(arena) /\ Low(Top) = Top.entry
  BY OpTop DEF OpFrames, Low, InOp
<1>3. Under(arena, Top.entry) \subseteq ToSet(arena) /\ Top.entry \in 0 .. Len(arena)
  <2>1. arena \in Seq(Identities) /\ Top.entry \in 0 .. Len(arena)
    BY <1>2, FrameLows
  <2> QED BY <2>1, Slots
<1>4. ReadRoot(Top, stored) \subseteq {stored}
  BY DEF ReadRoot
<1> QED BY <1>1, <1>2, <1>3, <1>4 DEF Anchored, RootInv, HeapLive

\* A value that was read is at hand only when no step follows that could take it
\* out of the guest variable.
LEMMA ReadsLast ==
  ASSUME VmInv, NEW kinds, At(kinds), kinds \subseteq GuestSteps \cup {"link", "unlink"}
  PROVE  ReadRoot(Top, stored) = {} /\ ReadRoot(Top, stored') = {}
<1>1. /\ Top \in OpFrames /\ Top.pc <= Len(Top.op.body) /\ Top.op.body[Top.pc] \in kinds
  BY AtStep
<1>2. Top.op \in Operations /\ Top.pc \in Nat \ {0}
  BY <1>1 DEF OpFrames
<1>3. ASSUME NEW i \in 1 .. Top.pc - 1, Top.op.body[i] \in {"read", "call", "load"}
      PROVE  FALSE
  <2>1. CASE Top.op = RegisterRoot
    <3>1. Top.op.body[Top.pc] \in {"memory", "register"}
      BY <1>1, <1>2, <2>1, RegisterRootFields
    <3> QED BY <1>1, <3>1 DEF GuestSteps
  <2>2. CASE Top.op \in Ordinary
    <3> DEFINE body == Top.op.body
               pc == Top.pc
    <3>1. BodySane(body) /\ Len(body) \in Nat
      BY <2>2, OrdinarySane DEF Sane, BodySane
    <3>2. pc \in Nat /\ pc <= Len(body) /\ body[pc] \in kinds /\ i \in 1 .. pc - 1
          /\ body[i] \in {"read", "call", "load"}
      BY <1>1, <1>2, <1>3
    <3> HIDE DEF body, pc
    <3>3. i \in 1 .. Len(body) /\ pc \in i + 1 .. Len(body)
      BY <3>1, <3>2
    <3>4. body[pc] \notin {"guest", "call", "load", "link", "unlink"}
      BY <3>1, <3>2, <3>3 DEF BodySane
    <3> QED BY <3>2, <3>4 DEF GuestSteps
  <2> QED BY <1>2, <2>1, <2>2 DEF Operations
<1>4. ~HasRead(Top)
  BY <1>3 DEF HasRead
<1> QED BY <1>4, Zenon DEF ReadRoot

\* The next step is due, with this value.
LEMMA AdvancesRooted ==
  ASSUME VmInv, RootInv, InOp, NEW v, Advanced(v), HeapLive', CellTypes',
         Agree(arena', arena, Len(arena)), registered \subseteq registered',
         \/ {v} \cap Objects \subseteq {Top.arg} \cup ToSet(arena')
         \/ v = Top.val /\ ToSet(arena) \subseteq ToSet(arena')
              /\ ReadRoot(Top, stored) \subseteq {stored'}
         \/ v = stored' /\ Top.op.body[Top.pc] \in {"read", "call", "load"}
  PROVE  RootInv'
<1> DEFINE p == Top.pc + 1
           g == [Top EXCEPT !.pc = p, !.val = v]
<1>1. /\ Top \in OpFrames /\ Top.pc \in Nat \ {0} /\ Top.kind = "op"
  BY OpTop DEF OpFrames, InOp
<1>2. SetTop(g)
  BY Zenon DEF Advanced
<1>3. /\ g.kind = "op" /\ g.pc = p /\ g.op = Top.op /\ g.entry = Top.entry
      /\ g.arg = Top.arg /\ g.saved = Top.saved /\ g.val = v
  <2> HIDE DEF p
  <2> QED BY <1>1, Zenon DEF OpFrames
<1> HIDE DEF g
<1>4. /\ Anchored(Top, arena, registered, ToSet(arena) \cup ReadRoot(Top, stored))
      /\ Low(Top) = Top.entry /\ Top.entry \in 0 .. Len(arena)
  BY UsedAlive
<1>5. Low(g) = Low(Top)
  BY <1>3, <1>4 DEF Low
<1>6. Kept(g) = Kept(Top)
  BY <1>3, Zenon DEF Kept
<1>7. Under(arena', Top.entry) = Under(arena, Top.entry) /\ Agree(arena', arena, Low(Top))
  <2>1. Len(arena) \in Nat
    BY FrameLows
  <2> QED BY <1>4, <2>1 DEF Under, Agree
<1>8. {v} \cap Objects \subseteq {Top.arg} \cup ToSet(arena') \cup ReadRoot(g, stored')
  <2>1. CASE {v} \cap Objects \subseteq {Top.arg} \cup ToSet(arena')
    BY <2>1
  <2>2. CASE v = Top.val /\ ToSet(arena) \subseteq ToSet(arena')
              /\ ReadRoot(Top, stored) \subseteq {stored'}
    <3>1. ReadRoot(Top, stored) \subseteq ReadRoot(g, stored')
      <4>1. CASE HasRead(Top)
        <5>1. \A i \in 1 .. Top.pc - 1 : i \in 1 .. g.pc - 1
          BY <1>1, <1>3
        <5>2. HasRead(g)
          BY <1>3, <4>1, <5>1 DEF HasRead
        <5>3. ReadRoot(g, stored') = {stored'}
          BY <5>2, Zenon DEF ReadRoot
        <5> QED BY <2>2, <5>3
      <4>2. CASE ~HasRead(Top)
        BY <4>2 DEF ReadRoot
      <4> QED BY <4>1, <4>2
    <3>2. {Top.val} \cap Objects \subseteq {Top.arg} \cup ToSet(arena) \cup ReadRoot(Top, stored)
      BY <1>4 DEF Anchored
    <3> QED BY <2>2, <3>1, <3>2
  <2>3. CASE v = stored' /\ Top.op.body[Top.pc] \in {"read", "call", "load"}
    <3>1. Top.pc \in 1 .. g.pc - 1
      BY <1>1, <1>3
    <3>2. HasRead(g)
      BY <1>3, <2>3, <3>1 DEF HasRead
    <3> QED BY <2>3, <3>2 DEF ReadRoot
  <2> QED BY <2>1, <2>2, <2>3
<1>9. Anchored(g, arena', registered', ToSet(arena') \cup ReadRoot(g, stored'))
  BY <1>3, <1>4, <1>6, <1>7, <1>8 DEF Anchored
<1> QED BY <1>2, <1>3, <1>5, <1>7, <1>9, RootedMoves

\* A step that leaves the heap as it was.
LEMMA QuietHeap ==
  ASSUME VmInv, RootInv, UNCHANGED heapVars
  PROVE  /\ HeapLive' /\ CellTypes' /\ Agree(arena', arena, Len(arena))
         /\ registered \subseteq registered' /\ arena' = arena /\ stored' = stored
<1>1. UNCHANGED <<alive, arena, exc, registered, stored, view, cells>>
  BY DEF heapVars
<1>2. HeapLive' /\ CellTypes'
  BY <1>1, HeapGrows DEF RootInv, HeapLive, CellTypes
<1> QED BY <1>1, <1>2 DEF Agree

\* An operation returns, or its result finds no slot.
LEMMA EndsRooted ==
  ASSUME VmInv, RootInv, InOp, NEW result, result \in Values, NEW raised \in BOOLEAN,
         Ends(result, raised),
         alive \subseteq alive', alive' \subseteq Objects, cells' = cells,
         {result} \cap Objects \subseteq alive', UNCHANGED <<registered, stored, view>>
  PROVE  RootInv'
<1>1. /\ Top \in OpFrames /\ Len(frames) > 1 /\ Top.kind = "op"
      /\ Top.entry \in 0 .. Len(arena) /\ Low(Top) = Top.entry
      /\ arena \in Seq(Identities) /\ Kept(Top) \cap Objects \subseteq alive
  BY OpTop, UsedAlive DEF InOp, VmInv, HeapTypes
<1>2. HeapLive /\ CellTypes
  BY DEF RootInv
<1>3. CASE PostludeEscapes(Top, result)
  <2>1. UNCHANGED <<arena, exc, frames>>
    BY <1>3 DEF PostludeEscapes
  <2>2. HeapLive' /\ CellTypes'
    BY <1>2, <2>1, HeapGrows DEF HeapLive
  <2>3. ReadRoot(Top, stored') = ReadRoot(Top, stored) /\ Shells(Top, cells') = Shells(Top, cells)
    BY DEF Shells, ReadRoot
  <2> QED BY <2>1, <2>2, <2>3, RootedStays
<1>4. CASE Returned(Top, result, raised)
  <2>1. /\ frames' = Front(frames) /\ exc' = ExceptionAtExit(Top, result, raised)
        /\ ResultRooted(Top, result)
    BY <1>4 DEF Returned
  <2> DEFINE cut == ArenaRestored(Top.entry)
  <2>2. /\ cut \in Seq(Identities) /\ Len(cut) = Top.entry /\ Agree(cut, arena, Top.entry)
        /\ ToSet(cut) \subseteq ToSet(arena)
    <3>1. ToSet(cut) \subseteq ToSet(arena)
      BY <1>1, Slots DEF ArenaRestored
    <3> QED BY <1>1, <3>1, RestoredFacts DEF Agree
  <2>3. arena' = cut \/ (arena' = Append(cut, result) /\ result \in Identities)
    BY <2>1 DEF ResultRooted, Protect, Values, Identities
  <2> HIDE DEF cut
  <2>4. /\ arena' \in Seq(Identities) /\ Top.entry <= Len(arena') /\ Agree(arena', arena, Top.entry)
        /\ ToSet(arena') \subseteq ToSet(arena) \cup {result}
    <3>1. CASE arena' = cut
      BY <1>1, <2>2, <3>1
    <3>2. CASE arena' = Append(cut, result) /\ result \in Identities
      <4>1. ToSet(arena') = ToSet(cut) \cup {result}
        BY <2>2, <3>2, Slots
      <4>2. arena' \in Seq(Identities) /\ Top.entry <= Len(arena')
        BY <1>1, <2>2, <3>2
      <4>3. Agree(arena', arena, Top.entry)
        BY <1>1, <2>2, <3>2 DEF Agree
      <4> QED BY <2>2, <4>1, <4>2, <4>3
    <3> QED BY <2>3, <3>1, <3>2
  <2>5. exc' \in Kept(Top) \cup {result, exc}
    BY <2>1 DEF ExceptionAtExit, Kept
  <2>6. HeapLive' /\ CellTypes'
    <3>1. ToSet(arena') \cap Objects \subseteq alive' /\ registered' \cap Objects \subseteq alive'
      BY <1>2, <2>4 DEF HeapLive
    <3>2. {exc', stored', view'} \cap Objects \subseteq alive'
      BY <1>1, <1>2, <2>5 DEF HeapLive
    <3> QED BY <1>2, <3>1, <3>2, HeapGrows
  <2> QED BY <1>1, <2>1, <2>4, <2>6, RootedPops
<1> QED BY <1>3, <1>4 DEF Ends

LEMMA RaisesRooted ==
  ASSUME VmInv, RootInv, InOp, NEW e, e \in Values, Raises(e),
         alive \subseteq alive', alive' \subseteq Objects, cells' = cells,
         {e} \cap Objects \subseteq alive'
  PROVE  RootInv'
<1>1. Ends(e, TRUE) /\ UNCHANGED <<registered, stored, view>> /\ TRUE \in BOOLEAN
  BY DEF Raises
<1> QED BY <1>1, EndsRooted

LEMMA RaisesNewRooted ==
  ASSUME VmInv, RootInv, InOp, NEW o, RaisesNew(o)
  PROVE  RootInv'
<1>1. o \in Objects /\ alive' = alive \cup {o} /\ cells' = cells /\ Raises(o)
  BY DEF RaisesNew, Fresh
<1>2. alive \subseteq Objects /\ o \in Values
  BY <1>1 DEF RootInv, CellTypes, Values
<1> QED BY <1>1, <1>2, RaisesRooted

LEMMA EndBodyRooted ==
  ASSUME VmInv, RootInv, EndBody
  PROVE  RootInv'
<1>1. /\ InOp /\ Ends(Result(Top), FALSE) /\ FALSE \in BOOLEAN
      /\ UNCHANGED <<alive, registered, stored, view, cells>>
  BY DEF EndBody, BodyDone
<1>2. Top.val \in Values /\ Top.arg \in Values /\ {Top.arg, Top.val} \cap Objects \subseteq alive
  BY <1>1, OpTop, UsedAlive DEF OpFrames
<1>3. Result(Top) \in {Top.arg, Top.val, Nil} /\ Nil \notin Objects
  BY HeapAssumption DEF Result
<1>4. Result(Top) \in Values /\ {Result(Top)} \cap Objects \subseteq alive'
  BY <1>1, <1>2, <1>3 DEF Values
<1>5. alive \subseteq alive' /\ alive' \subseteq Objects /\ cells' = cells
  BY <1>1 DEF RootInv, CellTypes
<1> QED BY <1>1, <1>4, <1>5, EndsRooted

LEMMA OutOfMemoryRooted ==
  ASSUME VmInv, RootInv, OutOfMemory
  PROVE  RootInv'
<1>1. InOp /\ Raises(NoMem) /\ UNCHANGED <<alive, cells>>
  BY DEF OutOfMemory, At
<1>2. NoMem \in Values /\ NoMem \notin Objects
  BY HeapAssumption DEF Values
<1>3. alive \subseteq alive' /\ alive' \subseteq Objects /\ {NoMem} \cap Objects \subseteq alive'
  BY <1>1, <1>2 DEF RootInv, CellTypes
<1> QED BY <1>1, <1>2, <1>3, RaisesRooted

\* The value at hand is left, or replaced by the guest variable.
LEMMA PlainRooted ==
  ASSUME VmInv, RootInv, InOp, NEW v, Advanced(v), UNCHANGED heapVars,
         \/ v = Top.val
         \/ {v} \cap Objects \subseteq {Top.arg}
         \/ v = stored /\ Top.op.body[Top.pc] \in {"read", "call", "load"}
  PROVE  RootInv'
<1>1. /\ HeapLive' /\ CellTypes' /\ Agree(arena', arena, Len(arena))
      /\ registered \subseteq registered' /\ arena' = arena /\ stored' = stored
  BY QuietHeap
<1>2. ReadRoot(Top, stored) \subseteq {stored'}
  BY <1>1 DEF ReadRoot
<1>3. \/ {v} \cap Objects \subseteq {Top.arg} \cup ToSet(arena')
      \/ v = Top.val /\ ToSet(arena) \subseteq ToSet(arena') /\ ReadRoot(Top, stored) \subseteq {stored'}
      \/ v = stored' /\ Top.op.body[Top.pc] \in {"read", "call", "load"}
  BY <1>1, <1>2
<1> QED BY <1>1, <1>3, AdvancesRooted

LEMMA CheckRooted ==
  ASSUME VmInv, RootInv, Check
  PROVE  RootInv'
<1>1. InOp
  BY DEF Check, At
<1>2. (Advanced(Top.val) /\ UNCHANGED heapVars) \/ \E o : RaisesNew(o)
  BY Zenon DEF Check
<1> QED BY <1>1, <1>2, PlainRooted, RaisesNewRooted

LEMMA MemoryRooted ==
  ASSUME VmInv, RootInv, Memory \/ Read
  PROVE  RootInv'
<1>1. CASE Memory
  <2>1. InOp /\ Advanced(Top.val) /\ UNCHANGED heapVars
    BY <1>1 DEF Memory, At
  <2> QED BY <2>1, PlainRooted
<1>2. CASE Read
  <2>1. InOp /\ Advanced(stored) /\ UNCHANGED heapVars /\ Top.op.body[Top.pc] = "read"
    BY <1>2 DEF Read, At
  <2> QED BY <2>1, PlainRooted
<1> QED BY <1>1, <1>2

\* A new object becomes the value at hand.
LEMMA NewValueRooted ==
  ASSUME VmInv, RootInv, InOp, NEW o, Allocate(o, Empty), Advanced(o),
         UNCHANGED <<exc, registered, stored, view>>
  PROVE  RootInv'
<1>1. Cell(Empty) /\ Empty.parts = <<>>
  BY EmptyCell
<1> DEFINE c == Empty
<1>2. Allocate(o, c) /\ Cell(c) /\ c.parts = <<>>
  BY <1>1
<1> HIDE DEF c
<1>3. /\ HeapLive' /\ CellTypes' /\ ToSet(arena') = ToSet(arena) \cup {o}
      /\ Agree(arena', arena, Len(arena))
  BY <1>2, HeapAllocates DEF RootInv
<1>4. {o} \cap Objects \subseteq {Top.arg} \cup ToSet(arena') /\ registered \subseteq registered'
  BY <1>3
<1> QED BY <1>3, <1>4, AdvancesRooted

LEMMA ObjectRooted ==
  ASSUME VmInv, RootInv, Object
  PROVE  RootInv'
<1>1. PICK o : Allocate(o, Empty) /\ Advanced(o)
  BY DEF Object
<1>2. InOp /\ UNCHANGED <<exc, registered, stored, view>>
  BY DEF Object, At
<1> QED BY <1>1, <1>2, NewValueRooted

LEMMA LinkRooted ==
  ASSUME VmInv, RootInv, Link
  PROVE  RootInv'
<1>1. /\ InOp /\ At({"link", "unlink"}) /\ Advanced(Top.val) /\ stored' \in {Top.val, Nil}
      /\ UNCHANGED <<alive, arena, exc, registered, view, cells>>
  BY DEF Link, At
<1>2. ReadRoot(Top, stored) = {}
  BY <1>1, ReadsLast
<1>3. {Top.val} \cap Objects \subseteq alive /\ Nil \notin Objects
  BY <1>1, UsedAlive, HeapAssumption
<1>4. HeapLive' /\ CellTypes'
  <2>1. HeapLive /\ CellTypes
    BY DEF RootInv
  <2>2. /\ ToSet(arena') \cap Objects \subseteq alive' /\ registered' \cap Objects \subseteq alive'
        /\ {exc', stored', view'} \cap Objects \subseteq alive'
    BY <1>1, <1>3, <2>1 DEF HeapLive
  <2>3. alive \subseteq alive' /\ alive' \subseteq Objects /\ cells' = cells
    BY <1>1, <2>1 DEF CellTypes
  <2> QED BY <2>1, <2>2, <2>3, HeapGrows
<1>5. /\ Agree(arena', arena, Len(arena)) /\ registered \subseteq registered'
      /\ ToSet(arena) \subseteq ToSet(arena') /\ ReadRoot(Top, stored) \subseteq {stored'}
  BY <1>1, <1>2 DEF Agree
<1> QED BY <1>1, <1>4, <1>5, AdvancesRooted

LEMMA RegisterRooted ==
  ASSUME VmInv, RootInv, Register
  PROVE  RootInv'
<1>1. /\ InOp /\ Advanced(Top.val) /\ registered' = registered \cup {Top.arg}
      /\ UNCHANGED <<alive, arena, exc, stored, view, cells>>
  BY DEF Register, At
<1>2. {Top.arg} \cap Objects \subseteq alive
  BY <1>1, UsedAlive
<1>3. HeapLive' /\ CellTypes'
  <2>1. HeapLive /\ CellTypes
    BY DEF RootInv
  <2>2. /\ ToSet(arena') \cap Objects \subseteq alive' /\ registered' \cap Objects \subseteq alive'
        /\ {exc', stored', view'} \cap Objects \subseteq alive'
    BY <1>1, <1>2, <2>1 DEF HeapLive
  <2>3. alive \subseteq alive' /\ alive' \subseteq Objects /\ cells' = cells
    BY <1>1, <2>1 DEF CellTypes
  <2> QED BY <2>1, <2>2, <2>3, HeapGrows
<1>4. /\ Agree(arena', arena, Len(arena)) /\ registered \subseteq registered'
      /\ ToSet(arena) \subseteq ToSet(arena') /\ ReadRoot(Top, stored) \subseteq {stored'}
  BY <1>1 DEF Agree, ReadRoot
<1> QED BY <1>1, <1>3, <1>4, AdvancesRooted

\* The operation goes on without a value: it found nothing, or a program failed
\* to compile.
LEMMA ValuelessRooted ==
  ASSUME VmInv, RootInv, InOp, NEW g, SetTop(g), g.kind = "op", g.op = Top.op,
         g.entry = Top.entry, g.arg = Top.arg, g.saved = Top.saved, g.val = Nil,
         HeapLive', CellTypes', UNCHANGED <<arena, registered>>
  PROVE  RootInv'
<1>1. /\ Anchored(Top, arena, registered, ToSet(arena) \cup ReadRoot(Top, stored))
      /\ Low(Top) = Top.entry
  BY UsedAlive
<1>2. Low(g) = Low(Top) /\ Kept(g) = Kept(Top)
  BY <1>1, Zenon DEF Low, Kept
<1>3. Nil \notin Objects
  BY HeapAssumption
<1>4. Anchored(g, arena', registered', ToSet(arena') \cup ReadRoot(g, stored'))
  BY <1>1, <1>2, <1>3 DEF Anchored
<1>5. Agree(arena', arena, Low(Top)) /\ registered \subseteq registered'
  BY DEF Agree
<1> QED BY <1>2, <1>4, <1>5, RootedMoves

LEMMA AbsentRooted ==
  ASSUME VmInv, RootInv, Absent
  PROVE  RootInv'
<1> DEFINE p == Len(Top.op.body) + 1
           r == Top.op.strict
           g == [Top EXCEPT !.pc = p, !.val = Nil, !.refused = r]
<1>1. InOp /\ UNCHANGED heapVars
  BY Zenon DEF Absent, At
<1>2. Advanced(Top.val) \/ SetTop(g)
  BY Zenon DEF Absent
<1>3. CASE Advanced(Top.val)
  BY <1>1, <1>3, PlainRooted
<1>4. CASE SetTop(g)
  <2>1. SetTop(g)
    BY <1>4
  <2>2. Top \in OpFrames
    BY <1>1, OpTop
  <2>3. /\ g.kind = "op" /\ g.op = Top.op /\ g.entry = Top.entry /\ g.arg = Top.arg
        /\ g.saved = Top.saved /\ g.val = Nil
    <3> HIDE DEF p, r
    <3> QED BY <2>2, Zenon DEF OpFrames
  <2> HIDE DEF g
  <2>4. HeapLive' /\ CellTypes' /\ UNCHANGED <<arena, registered>>
    BY <1>1, QuietHeap DEF heapVars
  <2> QED BY <1>1, <2>1, <2>3, <2>4, ValuelessRooted
<1> QED BY <1>2, <1>3, <1>4

\* A new object that only a guest variable or mrb->exc refers to.
LEMMA NewRootAlive ==
  ASSUME RootInv, NEW o \in Objects, alive' = alive \cup {o}, cells' = cells,
         UNCHANGED <<arena, registered, view>>,
         {exc', stored'} \subseteq {exc, stored, o}
  PROVE  HeapLive' /\ CellTypes'
<1>1. HeapLive /\ CellTypes
  BY DEF RootInv
<1>2. /\ ToSet(arena') \cap Objects \subseteq alive' /\ registered' \cap Objects \subseteq alive'
      /\ {exc', stored', view'} \cap Objects \subseteq alive'
  BY <1>1 DEF HeapLive
<1>3. alive \subseteq alive' /\ alive' \subseteq Objects
  BY <1>1 DEF CellTypes
<1> QED BY <1>1, <1>2, <1>3, HeapGrows

LEMMA LoadFailsRooted ==
  ASSUME VmInv, RootInv, LoadFails
  PROVE  RootInv'
<1>1. PICK o \in Objects :
        /\ alive' = alive \cup {o} /\ exc' = o
        /\ SetTop([Top EXCEPT !.pc = @ + 1, !.val = Nil, !.own = o])
  BY Zenon DEF LoadFails, Fresh
<1>2. InOp /\ UNCHANGED <<arena, registered, stored, view, cells>>
  BY DEF LoadFails, At
<1> DEFINE p == Top.pc + 1
           g == [Top EXCEPT !.pc = p, !.val = Nil, !.own = o]
<1>3. SetTop(g)
  BY <1>1, Zenon
<1>4. Top \in OpFrames
  BY <1>2, OpTop
<1>5. /\ g.kind = "op" /\ g.op = Top.op /\ g.entry = Top.entry /\ g.arg = Top.arg
      /\ g.saved = Top.saved /\ g.val = Nil
  <2> HIDE DEF p
  <2> QED BY <1>4, Zenon DEF OpFrames
<1> HIDE DEF g
<1>6. alive' = alive \cup {o} /\ exc' = o
  BY <1>1, Zenon
<1>7. HeapLive' /\ CellTypes'
  BY <1>2, <1>6, NewRootAlive
<1> QED BY <1>2, <1>3, <1>5, <1>7, ValuelessRooted

---------------------------------------------------------------------------
(* Guest code *)

LEMMA GuestStoresRooted ==
  ASSUME VmInv, RootInv, GuestStores
  PROVE  RootInv'
<1>1. /\ Top.kind = "op" /\ At(GuestSteps)
      /\ UNCHANGED <<arena, exc, registered, view, cells, frames>>
  BY DEF GuestStores, InGuest, At, InOp, callVars
<1>2. ReadRoot(Top, stored') = ReadRoot(Top, stored)
  BY <1>1, ReadsLast
<1>3. HeapLive' /\ CellTypes'
  <2>1. CASE stored' = Nil /\ UNCHANGED alive
    <3>1. HeapLive /\ CellTypes /\ Nil \notin Objects
      BY HeapAssumption DEF RootInv
    <3>2. /\ ToSet(arena') \cap Objects \subseteq alive' /\ registered' \cap Objects \subseteq alive'
          /\ {exc', stored', view'} \cap Objects \subseteq alive'
      BY <1>1, <2>1, <3>1 DEF HeapLive
    <3>3. alive \subseteq alive' /\ alive' \subseteq Objects /\ cells' = cells
      BY <1>1, <2>1, <3>1 DEF CellTypes
    <3> QED BY <3>1, <3>2, <3>3, HeapGrows
  <2>2. ASSUME NEW o \in Fresh, stored' = o, alive' = alive \cup {o}
        PROVE  HeapLive' /\ CellTypes'
    <3>1. o \in Objects
      BY DEF Fresh
    <3> QED BY <1>1, <2>2, <3>1, NewRootAlive
  <2> QED BY <2>1, <2>2 DEF GuestStores
<1> QED BY <1>1, <1>2, <1>3, RootedStays

LEMMA GuestReturnsRooted ==
  ASSUME VmInv, RootInv, GuestReturns
  PROVE  RootInv'
<1>1. InOp /\ At(GuestSteps) /\ Top.op.body[Top.pc] \in GuestSteps
  BY DEF GuestReturns, InGuest, At
<1>2. \/ \E v \in {Nil, stored, Top.arg} :
           Advanced(v) /\ UNCHANGED heapVars /\ ~At({"guest"})
      \/ Advanced(Top.val) /\ UNCHANGED heapVars
      \/ \E o : Allocate(o, Empty) /\ Advanced(o) /\ UNCHANGED <<exc, registered, stored, view>>
  BY Zenon DEF GuestReturns
<1>3. ASSUME NEW v \in {Nil, stored, Top.arg}, Advanced(v), UNCHANGED heapVars, ~At({"guest"})
      PROVE  RootInv'
  <2>1. Top.op.body[Top.pc] \in {"read", "call", "load"}
    BY <1>1, <1>3 DEF At, GuestSteps
  <2>2. Nil \notin Objects
    BY HeapAssumption
  <2>3. {v} \cap Objects \subseteq {Top.arg} \/ v = stored
    BY <2>2
  <2> QED BY <1>1, <1>3, <2>1, <2>3, PlainRooted
<1> QED BY <1>1, <1>2, <1>3, PlainRooted, NewValueRooted

LEMMA GuestRaisesRooted ==
  ASSUME VmInv, RootInv, GuestRaises
  PROVE  RootInv'
<1>1. PICK o : RaisesNew(o)
  BY DEF GuestRaises
<1>2. InOp
  BY DEF GuestRaises, InGuest, At
<1> QED BY <1>1, <1>2, RaisesNewRooted

LEMMA CallHostRooted ==
  ASSUME VmInv, RootInv, CallHost
  PROVE  RootInv'
<1> DEFINE g == ZigFrame
<1>1. /\ InOp /\ At(GuestSteps) /\ UNCHANGED heapVars /\ frames' = Append(frames, g)
      /\ g.kind = "zig" /\ Low(g) = Len(arena)
  BY DEF CallHost, InGuest, At, ZigFrame, Low
<1> HIDE DEF g
<1>2. frames = [frames EXCEPT ![Len(frames)] = Top]
  BY DEF VmInv, FrameInv, FrameTypes, Top
<1>3. frames' = Append([frames EXCEPT ![Len(frames)] = Top], g)
  BY <1>1, <1>2
<1>4. ReadRoot(Top, stored) = {}
  BY <1>1, ReadsLast
<1>5. Anchored(Top, arena, registered, ToSet(arena))
  BY <1>1, <1>4, UsedAlive DEF Anchored
<1>6. HeapLive' /\ CellTypes' /\ UNCHANGED <<arena, registered>>
  BY <1>1, QuietHeap DEF heapVars
<1> QED BY <1>1, <1>3, <1>5, <1>6, RootedPushes

\* The arena is cut back to slots the top frame found, or more.
LEMMA CutHeap ==
  ASSUME VmInv, RootInv, NEW idx \in Nat, Low(Top) <= idx, idx <= Len(arena),
         arena' = ArenaRestored(idx), UNCHANGED <<alive, registered, cells>>,
         {exc', stored', view'} \subseteq {exc, stored, view, Nil}
  PROVE  /\ HeapLive' /\ CellTypes' /\ arena' \in Seq(Identities) /\ Low(Top) <= Len(arena')
         /\ Agree(arena', arena, Low(Top))
<1>1. HeapLive /\ CellTypes /\ Nil \notin Objects /\ arena \in Seq(Identities) /\ idx \in 0 .. Len(arena)
  BY HeapAssumption, FrameLows DEF RootInv
<1>2. ToSet(arena') \subseteq ToSet(arena)
  BY <1>1, Slots DEF ArenaRestored
<1>3. /\ arena' \in Seq(Identities) /\ Len(arena') = idx
      /\ \A k \in 1 .. idx : arena'[k] = arena[k]
  BY <1>1, RestoredFacts
<1>4. Agree(arena', arena, Low(Top)) /\ Low(Top) <= Len(arena')
  <2>1. Low(Top) \in Nat
    BY FrameLows
  <2> QED BY <1>3, <2>1 DEF Agree
<1>5. /\ ToSet(arena') \cap Objects \subseteq alive' /\ registered' \cap Objects \subseteq alive'
      /\ {exc', stored', view'} \cap Objects \subseteq alive'
  BY <1>1, <1>2 DEF HeapLive
<1>6. alive \subseteq alive' /\ alive' \subseteq Objects
  BY <1>1 DEF CellTypes
<1>7. HeapLive' /\ CellTypes'
  BY <1>1, <1>5, <1>6, HeapGrows
<1> QED BY <1>3, <1>4, <1>7

LEMMA ReturnToGuestRooted ==
  ASSUME VmInv, RootInv, ReturnToGuest
  PROVE  RootInv'
<1>1. /\ InZig /\ Len(frames) > 1 /\ arena' = ArenaRestored(Top.base) /\ frames' = Front(frames)
      /\ UNCHANGED <<alive, exc, registered, stored, view, cells>>
  BY DEF ReturnToGuest
<1>2. Top.base \in Nat /\ Low(Top) = Top.base /\ Top.base <= Len(arena)
  BY <1>1, ZigTop
<1>3. Low(Top) <= Top.base
  BY <1>2
<1>4. /\ HeapLive' /\ CellTypes' /\ arena' \in Seq(Identities) /\ Low(Top) <= Len(arena')
      /\ Agree(arena', arena, Low(Top))
  BY <1>1, <1>2, <1>3, CutHeap
<1> QED BY <1>1, <1>4, RootedPops

LEMMA GuestHandlesRooted ==
  ASSUME VmInv, RootInv, GuestHandles
  PROVE  RootInv'
<1>1. InOp /\ Top.kind = "op"
  BY DEF GuestHandles, At, InOp
<1>2. ASSUME exc' = Nil, UNCHANGED <<alive, arena, registered, stored, view, cells, callVars>>
      PROVE  RootInv'
  <2>1. HeapLive /\ CellTypes /\ Nil \notin Objects
    BY HeapAssumption DEF RootInv
  <2>2. /\ ToSet(arena') \cap Objects \subseteq alive' /\ registered' \cap Objects \subseteq alive'
        /\ {exc', stored', view'} \cap Objects \subseteq alive'
    BY <1>2, <2>1 DEF HeapLive
  <2>3. alive \subseteq alive' /\ alive' \subseteq Objects /\ cells' = cells
    BY <1>2, <2>1 DEF CellTypes
  <2>4. HeapLive' /\ CellTypes'
    BY <2>1, <2>2, <2>3, HeapGrows
  <2>5. UNCHANGED <<frames, arena, registered, stored, cells>>
    BY <1>2 DEF callVars
  <2> QED BY <1>1, <2>4, <2>5, RootedStays
<1>3. ASSUME Raises(exc), UNCHANGED <<alive, cells>>
      PROVE  RootInv'
  <2>1. exc \in Values /\ {exc} \cap Objects \subseteq alive' /\ alive \subseteq alive' /\ alive' \subseteq Objects
    BY <1>3 DEF VmInv, HeapTypes, RootInv, HeapLive, CellTypes
  <2> QED BY <1>1, <1>3, <2>1, RaisesRooted
<1> QED BY <1>2, <1>3 DEF GuestHandles

---------------------------------------------------------------------------
(* Collections *)

LEMMA CollectionRooted ==
  ASSUME VmInv, RootInv, NEW stack, CollectGarbage(stack), UNCHANGED frames
  PROVE  RootInv'
<1> DEFINE roots == ToSet(arena) \cup registered \cup {exc, stored, view} \cup stack
           kept == Reachable(roots)
<1>1. /\ alive' = kept /\ UNCHANGED <<arena, exc, registered, stored, view>>
      /\ cells' = [o \in Objects |-> IF o \in kept THEN cells[o] ELSE Empty]
  BY DEF CollectGarbage
<1>2. /\ kept \subseteq Objects /\ roots \cap Objects \subseteq kept
      /\ \A o \in kept : ToSet(cells[o].parts) \cap Objects \subseteq kept
  BY ReachableCloses
<1>3. /\ ToSet(arena) \cap Objects \subseteq kept /\ registered \cap Objects \subseteq kept
      /\ {exc, stored, view} \cap Objects \subseteq kept
  BY <1>2 DEF roots
<1> HIDE DEF kept
<1>4. HeapLive'
  <2>1. \A o \in alive' : cells'[o] = cells[o]
    BY <1>1, <1>2
  <2>2. \A o \in alive' : ToSet(cells'[o].parts) \cap Objects \subseteq alive'
    BY <1>1, <1>2, <2>1
  <2> QED BY <1>1, <1>3, <2>2 DEF HeapLive, ToSet
<1>5. CellTypes'
  <2> DEFINE e == Empty
  <2>1. Cell(e) /\ e.parts = <<>>
    BY EmptyCell
  <2>2. cells' = [o \in Objects |-> IF o \in kept THEN cells[o] ELSE e]
    BY <1>1
  <2> HIDE DEF e
  <2>3. \A o \in Objects : Cell(cells'[o]) /\ (o \notin kept => cells'[o].parts = <<>>)
    BY <2>1, <2>2 DEF RootInv, CellTypes
  <2>4. DOMAIN cells' = Objects
    BY <2>2
  <2> QED BY <1>1, <1>2, <2>3, <2>4 DEF CellTypes, Cell, ToSet
<1>6. Top.kind = "import" => Shells(Top, cells') = Shells(Top, cells)
  <2> SUFFICES ASSUME Top.kind = "import", Top.table \in Objects
               PROVE  cells'[Top.table] = cells[Top.table]
    BY DEF Shells
  <2>1. Top.table \in ToSet(arena)
    <3>1. Building(Top, arena, Shells(Top, cells))
      BY DEF RootInv, ImportRooted
    <3>2. {Top.table} \cap Objects \subseteq ToSet(arena)
      BY <3>1, Zenon DEF Building
    <3> QED BY <3>2
  <2> QED BY <1>1, <1>3, <2>1
<1>7. UNCHANGED <<frames, arena, registered, stored>>
  BY <1>1
<1> QED BY <1>4, <1>5, <1>6, <1>7, RootedStays

LEMMA CollectRooted ==
  ASSUME VmInv, RootInv, Collect \/ CollectInImport
  PROVE  RootInv'
<1>1. PICK stack : CollectGarbage(stack)
  BY Zenon DEF Collect, CollectInImport
<1>2. UNCHANGED frames
  BY DEF Collect, CollectInImport, callVars
<1> QED BY <1>1, <1>2, CollectionRooted

LEMMA OpRootedNext ==
  ASSUME VmInv, RootInv, OpNext
  PROVE  RootInv'
  BY EndBodyRooted, OutOfMemoryRooted, CheckRooted, MemoryRooted, ObjectRooted, LinkRooted,
     RegisterRooted, AbsentRooted, GuestStoresRooted, GuestReturnsRooted, GuestRaisesRooted,
     LoadFailsRooted, CallHostRooted, ReturnToGuestRooted, GuestHandlesRooted, CollectRooted,
     Zenon DEF OpNext

---------------------------------------------------------------------------
(* The host *)

\* Only the operations that read the details of an error put it back.
LEMMA NothingKept ==
  /\ \A op \in OnValue \cup OnNames \cup OnCallback : ~op.keeps
  /\ ~SetException.keeps /\ ~RegisterRoot.keeps
<1>1. ASSUME NEW body, NEW gives
      PROVE  /\ ~Op(body, gives).keeps
             /\ Op(body, gives) \in
                  [body: {body}, gives: {gives}, clears: BOOLEAN, keeps: BOOLEAN,
                   slot: BOOLEAN, pends: BOOLEAN, strict: BOOLEAN]
  BY DEF Op
<1>2. ~SetException.keeps
  <2> DEFINE body == <<"check", "object", "memory", "check", "call">>
             o == Op(body, "value")
  <2>1. SetException = [o EXCEPT !.pends = TRUE]
    BY Zenon DEF SetException
  <2> HIDE DEF o, body
  <2>2. SetException.keeps = o.keeps
    <3>1. o \in [body: {body}, gives: {"value"}, clears: BOOLEAN, keeps: BOOLEAN,
                 slot: BOOLEAN, pends: BOOLEAN, strict: BOOLEAN]
      BY <1>1, Zenon DEF o
    <3> QED BY <2>1, <3>1, Zenon
  <2> QED BY <1>1, <2>2, Zenon DEF o
<1>3. ~Compile.keeps
  <2> DEFINE body == <<"memory", "absent", "object", "absent", "memory", "absent">>
             o == Op(body, "nil")
  <2>1. Compile = [o EXCEPT !.strict = TRUE]
    BY Zenon DEF Compile
  <2> HIDE DEF o, body
  <2>2. Compile.keeps = o.keeps
    <3>1. o \in [body: {body}, gives: {"nil"}, clears: BOOLEAN, keeps: BOOLEAN,
                 slot: BOOLEAN, pends: BOOLEAN, strict: BOOLEAN]
      BY <1>1, Zenon DEF o
    <3> QED BY <2>1, <3>1, Zenon
  <2> QED BY <1>1, <2>2, Zenon DEF o
<1>4. ~RandomSeed.keeps
  <2> DEFINE body == <<"object", "memory", "check">>
             o == Op(body, "nil")
  <2>1. RandomSeed = [o EXCEPT !.slot = FALSE]
    BY Zenon DEF RandomSeed
  <2> HIDE DEF o, body
  <2>2. RandomSeed.keeps = o.keeps
    <3>1. o \in [body: {body}, gives: {"nil"}, clears: BOOLEAN, keeps: BOOLEAN,
                 slot: BOOLEAN, pends: BOOLEAN, strict: BOOLEAN]
      BY <1>1, Zenon DEF o
    <3> QED BY <2>1, <3>1, Zenon
  <2> QED BY <1>1, <2>2, Zenon DEF o
<1>5. \A op \in OnValue : ~op.keeps
  <2>1. /\ ~Funcall.keeps /\ ~FuncallId.keeps /\ ~ArraySet.keeps /\ ~HashSet.keeps
        /\ ~GlobalSet.keeps /\ ~IvarSet.keeps /\ ~DefineConst.keeps
        /\ ~DefineSingletonMethod.keeps
    BY <1>1, Zenon DEF Funcall, FuncallId, ArraySet, HashSet, GlobalSet, IvarSet, DefineConst,
       DefineSingletonMethod
  <2> QED BY <2>1, Zenon DEF OnValue
<1>6. /\ ~LoadString(TRUE).keeps /\ ~LoadString(FALSE).keeps /\ ~LoadIrep.keeps /\ ~String.keeps
      /\ ~Number(TRUE).keeps /\ ~Number(FALSE).keeps /\ ~ArrayNew.keeps /\ ~ArrayGet.keeps
      /\ ~HashNew.keeps /\ ~HashGet.keeps /\ ~HashKeys.keeps /\ ~DataObject.keeps
      /\ ~Freeze.keeps /\ ~Lookup(2).keeps
  BY <1>1, Zenon DEF LoadString, LoadIrep, String, Number, ArrayNew, ArrayGet, HashNew, HashGet,
     HashKeys, DataObject, Freeze, Lookup
<1>7. /\ ~Intern.keeps /\ ~Define(TRUE).keeps /\ ~Define(FALSE).keeps /\ ~ConstGet.keeps
      /\ ~VariableGet.keeps /\ ~DefineMethod(TRUE).keeps /\ ~DefineMethod(FALSE).keeps
      /\ ~MaskMethod(TRUE).keeps /\ ~MaskMethod(FALSE).keeps /\ ~RemoveConst.keeps
  BY <1>1, Zenon DEF Intern, Define, ConstGet, VariableGet, DefineMethod, MaskMethod, RemoveConst
<1>8. ~GetArgs.keeps /\ ~GetArgsKw.keeps
  BY <1>1, Zenon DEF GetArgs, GetArgsKw
<1>9. \A op \in OnNames \cup OnCallback : ~op.keeps
  BY <1>2, <1>3, <1>4, <1>6, <1>7, <1>8, Zenon DEF OnNames, OnCallback
<1> QED BY <1>2, <1>5, <1>9, RegisterRootFields, Zenon

\* What a handle refers to is registered.
LEMMA HandlesRegistered ==
  ASSUME VmInv, NEW h \in Handles, handles[h] \in Objects
  PROVE  handles[h] \in registered
<1> DEFINE v == handles[h]
           H == {i \in Handles : handles[i] = v}
<1>1. v \in Identities
  BY DEF Identities
<1>2. IsFiniteSet(H) /\ h \in H
  BY FS_Subset, SafeVmAssumption
<1>3. Cardinality(H) \in Nat /\ Cardinality(H) # 0
  <2> HIDE DEF H
  <2> QED BY <1>2, FS_CardinalityType, FS_EmptySet
<1>4. references[v] = Cardinality(H)
  BY <1>1 DEF VmInv, Registry
<1>5. references[v] > 0
  <2> HIDE DEF H
  <2> QED BY <1>3, <1>4
<1> QED BY <1>1, <1>5 DEF VmInv, Registry

LEMMA HeldRooted ==
  ASSUME VmInv, NEW v \in Held, v \in Objects
  PROVE  v \in ToSet(arena) \cup registered
<1>1. v # Nil
  BY HeapAssumption
<1>2. v \in ToSet(arena) \/ \E h \in Handles : handles[h] = v
  BY <1>1 DEF Held
<1> QED BY <1>2, HandlesRegistered

\* An operation is called with what the caller holds.
LEMMA CallRooted ==
  ASSUME VmInv, RootInv, NEW op, NEW arg, NEW after, Call(op, arg, after),
         {arg} \cap Objects \subseteq ToSet(arena) \cup registered,
         op.keeps => {exc} \cap Objects \subseteq ToSet(arena)
  PROVE  RootInv'
<1> DEFINE h == [Top EXCEPT !.after = after]
           g == OpFrame(op, arg)
<1>1. /\ InZig /\ exc' \in {exc, Nil}
      /\ UNCHANGED <<alive, arena, registered, stored, view, cells>>
  BY DEF Call, ExceptionAtEntry
<1>2. /\ Top \in ZigFrames /\ Low(Top) = Top.base /\ Len(arena) \in Nat
  BY <1>1, ZigTop
<1>3. frames' = Append([frames EXCEPT ![Len(frames)] = h], g)
  BY Zenon DEF Call, Top
<1>4. h.kind = "zig" /\ h.base = Top.base
  BY <1>2, Zenon DEF ZigFrames
<1>5. /\ g.kind = "op" /\ g.op = op /\ g.entry = Len(arena) /\ g.arg = arg /\ g.val = arg
      /\ g.saved = exc
  BY DEF OpFrame
<1> HIDE DEF g, h
<1>6. Low(h) = Low(Top) /\ Low(g) = Len(arena)
  BY <1>2, <1>4, <1>5 DEF Low
<1>7. Under(arena, g.entry) = ToSet(arena)
  BY <1>5, FrameLows, Slots
<1>8. Kept(g) \cap Objects \subseteq ToSet(arena)
  BY <1>5 DEF Kept
<1>9. Anchored(g, arena, registered, ToSet(arena))
  BY <1>5, <1>7, <1>8 DEF Anchored
<1>10. HeapLive' /\ CellTypes'
  <2>1. HeapLive /\ CellTypes /\ Nil \notin Objects
    BY HeapAssumption DEF RootInv
  <2>2. /\ ToSet(arena') \cap Objects \subseteq alive' /\ registered' \cap Objects \subseteq alive'
        /\ {exc', stored', view'} \cap Objects \subseteq alive'
    BY <1>1, <2>1 DEF HeapLive
  <2>3. alive \subseteq alive' /\ alive' \subseteq Objects
    BY <1>1, <2>1 DEF CellTypes
  <2> QED BY <1>1, <2>1, <2>2, <2>3, HeapGrows
<1> QED BY <1>1, <1>3, <1>4, <1>5, <1>6, <1>9, <1>10, RootedPushes

LEMMA CallOperationRooted ==
  ASSUME VmInv, RootInv, CallOperation \/ FailCallback
  PROVE  RootInv'
<1>1. Nil \in Held
  BY DEF Held
<1>2. CASE CallOperation
  <2>1. PICK op \in OnValue \cup OnNames \cup OnCallback, v \in Held : Call(op, v, <<"read">>)
    BY <1>1, <1>2 DEF CallOperation
  <2>2. {v} \cap Objects \subseteq ToSet(arena) \cup registered
    BY HeldRooted
  <2>3. ~op.keeps
    BY NothingKept, Zenon
  <2> DEFINE after == <<"read">>
  <2>4. Call(op, v, after)
    BY <2>1
  <2> HIDE DEF after
  <2> QED BY <2>2, <2>3, <2>4, CallRooted
<1>3. CASE FailCallback
  <2> DEFINE after == <<"return">>
             op == SetException
  <2>1. Call(op, Nil, after)
    BY <1>3 DEF FailCallback
  <2>2. ~op.keeps /\ Nil \notin Objects
    BY NothingKept, HeapAssumption, Zenon
  <2> HIDE DEF after, op
  <2> QED BY <2>1, <2>2, CallRooted
<1> QED BY <1>2, <1>3

LEMMA ReadDetailsRooted ==
  ASSUME VmInv, RootInv, ReadDetails
  PROVE  RootInv'
<1>1. PICK op \in {FuncallPreserveError, PrintError}, v \in {exc, Nil} : Call(op, v, <<"read">>)
  BY DEF ReadDetails
<1>2. exc \in ToSet(arena) /\ Nil \notin Objects
  BY HeapAssumption DEF ReadDetails
<1> DEFINE after == <<"read">>
<1>3. Call(op, v, after)
  BY <1>1
<1> HIDE DEF after
<1> QED BY <1>2, <1>3, CallRooted

\* The frame of the host moves on.
LEMMA ZigRooted ==
  ASSUME VmInv, RootInv, InZig, NEW g, SetTop(g), g.kind = "zig", g.base = Top.base,
         HeapLive', CellTypes', Agree(arena', arena, Low(Top)), registered' = registered
  PROVE  RootInv'
<1>1. Low(g) = Low(Top)
  BY ZigTop DEF Low
<1> QED BY <1>1, RootedMoves

\* It does not move.
LEMMA ZigStaysRooted ==
  ASSUME VmInv, RootInv, InZig, UNCHANGED <<frames, arena, alive, cells>>,
         {exc', stored', view'} \subseteq {exc, stored, view, Nil},
         registered' \subseteq registered,
         \A i \in 1 .. Len(frames) :
           frames[i].kind = "op" /\ frames[i].arg \in registered => frames[i].arg \in registered'
  PROVE  RootInv'
<1>1. HeapLive /\ CellTypes /\ Nil \notin Objects /\ Top.kind = "zig"
  BY HeapAssumption DEF RootInv, InZig
<1>2. /\ ToSet(arena') \cap Objects \subseteq alive' /\ registered' \cap Objects \subseteq alive'
      /\ {exc', stored', view'} \cap Objects \subseteq alive'
  BY <1>1 DEF HeapLive
<1>3. alive \subseteq alive' /\ alive' \subseteq Objects
  BY <1>1 DEF CellTypes
<1>4. HeapLive' /\ CellTypes'
  BY <1>1, <1>2, <1>3, HeapGrows
<1> QED BY <1>1, <1>4, RootedStays

LEMMA RootRooted ==
  ASSUME VmInv, RootInv, NEW h \in Handles, NEW v \in Objects \cup {Nil}, Root(h, v)
  PROVE  RootInv'
<1>1. CASE FirstReference(v)
  <2> DEFINE after == <<"root", h, v>>
             op == RegisterRoot
  <2>1. Call(op, v, after) /\ v \in Held
    BY <1>1 DEF Root
  <2>2. ~op.keeps /\ {v} \cap Objects \subseteq ToSet(arena) \cup registered
    <3>1. ~op.keeps
      BY NothingKept, Zenon
    <3> QED BY <2>1, <3>1, HeldRooted
  <2> HIDE DEF after, op
  <2> QED BY <2>1, <2>2, CallRooted
<1>2. CASE ~FirstReference(v)
  <2>1. InZig /\ UNCHANGED <<frames, arena, alive, cells, exc, stored, view, registered>>
    BY <1>2 DEF Root, heapVars, callVars
  <2> QED BY <2>1, ZigStaysRooted
<1> QED BY <1>1, <1>2

LEMMA RootReturnsRooted ==
  ASSUME VmInv, RootInv, RootReturns
  PROVE  RootInv'
<1> DEFINE read == <<"read">>
           g == [Top EXCEPT !.after = read]
<1>1. InZig /\ UNCHANGED heapVars
  BY Zenon DEF RootReturns
<1>2. SetTop(g)
  BY Zenon DEF RootReturns
<1>3. Top \in ZigFrames
  BY <1>1, ZigTop
<1>4. g.kind = "zig" /\ g.base = Top.base
  <2> HIDE DEF read
  <2> QED BY <1>3, Zenon DEF ZigFrames
<1> HIDE DEF g
<1>5. HeapLive' /\ CellTypes' /\ Agree(arena', arena, Low(Top)) /\ registered' = registered
  BY <1>1, QuietHeap DEF heapVars, Agree
<1> QED BY <1>1, <1>2, <1>4, <1>5, ZigRooted

LEMMA UnrootRooted ==
  ASSUME VmInv, RootInv, NEW h \in Handles, Unroot(h)
  PROVE  RootInv'
<1>1. /\ InZig /\ UNCHANGED <<frames, arena, alive, cells, exc, stored, view>>
      /\ registered' \in {registered, registered \ {handles[h]}}
      /\ \A f \in ToSet(frames) : f.kind = "op" => f.arg # handles[h]
  BY DEF Unroot, callVars
<1>2. \A i \in 1 .. Len(frames) :
        frames[i].kind = "op" /\ frames[i].arg \in registered => frames[i].arg \in registered'
  <2>1. \A i \in 1 .. Len(frames) : frames[i] \in ToSet(frames)
    BY DEF VmInv, FrameInv, FrameTypes, ToSet
  <2> QED BY <1>1, <2>1
<1>3. registered' \subseteq registered
  BY <1>1
<1> QED BY <1>1, <1>2, <1>3, ZigStaysRooted

LEMMA ScopeRooted ==
  ASSUME VmInv, RootInv, OpenScope \/ CloseScope
  PROVE  RootInv'
<1>1. PICK s : SetTop([Top EXCEPT !.scopes = s])
  BY Zenon DEF OpenScope, CloseScope
<1>2. InZig /\ UNCHANGED <<alive, exc, registered, stored, view, cells>>
  BY DEF OpenScope, CloseScope, heapVars
<1> DEFINE g == [Top EXCEPT !.scopes = s]
<1>3. Top \in ZigFrames /\ Low(Top) = Top.base
  BY <1>2, ZigTop
<1>4. SetTop(g)
  BY <1>1, Zenon
<1>5. g.kind = "zig" /\ g.base = Top.base
  BY <1>3, Zenon DEF ZigFrames
<1> HIDE DEF g
<1>6. HeapLive' /\ CellTypes' /\ Agree(arena', arena, Low(Top))
  <2>1. CASE OpenScope
    BY <2>1, QuietHeap DEF OpenScope, heapVars, Agree
  <2>2. CASE CloseScope
    <3>1. Top.scopes # <<>> /\ arena' = ArenaRestored(Top.scopes[1])
      BY <2>2 DEF CloseScope
    <3>2. /\ Top.scopes[1] \in Nat /\ Low(Top) <= Top.scopes[1] /\ Top.scopes[1] <= Len(arena)
      BY <1>2, <1>3, <3>1, ZigTop DEF ScopeFits, ZigFrames
    <3> DEFINE idx == Top.scopes[1]
    <3>3. idx \in Nat /\ Low(Top) <= idx /\ idx <= Len(arena) /\ arena' = ArenaRestored(idx)
      BY <3>1, <3>2
    <3> HIDE DEF idx
    <3> QED BY <1>2, <3>3, CutHeap
  <2> QED BY <2>1, <2>2
<1> QED BY <1>2, <1>4, <1>5, <1>6, ZigRooted

LEMMA ErrorRooted ==
  ASSUME VmInv, RootInv, ClearError \/ CaptureErrorView \/ ClearErrorView
  PROVE  RootInv'
<1>1. /\ InZig /\ {exc', stored', view'} \subseteq {exc, stored, view, Nil}
      /\ UNCHANGED <<frames, arena, alive, cells, registered>>
  BY DEF ClearError, CaptureErrorView, ClearErrorView, callVars
<1> QED BY <1>1, ZigStaysRooted

\* A valid graph is about to be built.
LEMMA ImportGraphRooted ==
  ASSUME VmInv, RootInv, ImportGraph
  PROVE  RootInv'
<1>1. PICK g \in Graphs : Import(g)
  BY DEF ImportGraph
<1>2. InZig /\ UNCHANGED heapVars
  BY <1>1 DEF Import
<1>3. UNCHANGED <<alive, arena, exc, registered, stored, view, cells>>
  BY <1>2 DEF heapVars
<1>4. CASE ~GraphValid(g)
  <2>1. UNCHANGED frames
    BY <1>1, <1>4 DEF Import
  <2> QED BY <1>2, <1>3, <2>1, ZigStaysRooted
<1>5. CASE GraphValid(g)
  <2> DEFINE f == ImportFrame(g)
  <2>1. frames' = Append(frames, f)
    BY <1>1, <1>5 DEF Import
  <2>2. /\ f.kind = "import" /\ f.phase = "table" /\ f.graph = g /\ f.entry = Len(arena)
        /\ f.table = Nil /\ f.node = 1 /\ f.edge = 1 /\ f.vals = <<>>
    BY DEF ImportFrame
  <2> HIDE DEF f
  <2>3. Top.kind = "zig"
    BY <1>2, ZigTop
  <2>4. frames = [frames EXCEPT ![Len(frames)] = Top]
    BY DEF VmInv, FrameInv, FrameTypes, Top
  <2>5. frames' = Append([frames EXCEPT ![Len(frames)] = Top], f)
    BY <2>1, <2>4
  <2>6. Low(f) = Len(arena) /\ Nil \notin Objects
    BY <2>2, HeapAssumption DEF Low
  <2>7. f.vals \in Seq(ToSet(f.vals)) /\ ToSet(f.vals) = {}
    BY <2>2 DEF ToSet
  <2>8. Building(f, arena, Shells(f, cells'))
    BY <1>5, <2>2, <2>6, <2>7 DEF Building
  <2>9. HeapLive' /\ CellTypes'
    BY <1>2, QuietHeap
  <2> QED BY <1>3, <2>2, <2>3, <2>5, <2>6, <2>8, <2>9, RootedPushes
<1> QED BY <1>4, <1>5

LEMMA HostRooted ==
  ASSUME VmInv, RootInv, Host
  PROVE  RootInv'
  BY CallOperationRooted, ReadDetailsRooted, ImportGraphRooted, RootRooted, RootReturnsRooted,
     UnrootRooted, ScopeRooted, ErrorRooted, Zenon DEF Host

---------------------------------------------------------------------------
(* Imports: the heap *)

\* What the import that runs knows of its graph and its table.
LEMMA BuildingFacts ==
  ASSUME VmInv, RootInv, ImportInv, InImport
  PROVE  LET nodes == Top.graph.nodes
             shells == Shells(Top, cells)
         IN
         /\ Top \in ImportFrames({Top.vals}) /\ Top.kind = "import" /\ Top.graph \in Graphs
         /\ Top.node \in Nat /\ Top.edge \in Nat /\ Low(Top) = Top.entry
         /\ Top.entry \in 0 .. Len(arena)
         /\ Building(Top, arena, shells) /\ GraphValid(Top.graph)
         /\ Top.vals \in Seq(ToSet(Top.vals))
         /\ {Top.table} \cap Objects \subseteq ToSet(arena)
         /\ {Top.table} \cap Objects \subseteq alive
         /\ ToSet(Top.vals) \cap Objects \subseteq ToSet(arena) \cup ToSet(shells)
         /\ ToSet(Top.vals) \cap Objects \subseteq alive
         /\ ToSet(shells) \cap Objects \subseteq alive
         /\ shells \in Seq(ToSet(shells)) /\ Len(shells) \in Nat
         /\ Top.phase \in {"shell", "edges"} =>
              Top.table \in Objects /\ shells = cells[Top.table].parts
<1> DEFINE nodes == Top.graph.nodes
           shells == Shells(Top, cells)
<1>1. /\ Top \in ImportFrames({Top.vals}) /\ Top.kind = "import" /\ Top.entry <= Len(arena)
      /\ Low(Top) = Top.entry /\ Top.entry \in Nat /\ Len(arena) \in Nat
  BY ImportTop
<1>2. Top.graph \in Graphs /\ Top.node \in Nat /\ Top.edge \in Nat
  BY <1>1 DEF ImportFrames
<1>3. Building(Top, arena, shells)
  BY <1>1, Zenon DEF RootInv, ImportRooted
<1>4. /\ GraphValid(Top.graph) /\ Top.vals \in Seq(ToSet(Top.vals))
      /\ {Top.table} \cap Objects \subseteq ToSet(arena)
      /\ ToSet(Top.vals) \cap Objects \subseteq ToSet(arena) \cup ToSet(shells)
  BY <1>3, Zenon DEF Building
<1>5. HeapLive /\ CellTypes
  BY DEF RootInv
<1>6. shells \in Seq(ToSet(shells)) /\ ToSet(shells) \cap Objects \subseteq alive
  <2>1. CASE Top.table \in Objects
    <3>1. shells = cells[Top.table].parts /\ Top.table \in alive
      BY <1>4, <1>5, <2>1 DEF Shells, HeapLive
    <3>2. Cell(cells[Top.table]) /\ ToSet(cells[Top.table].parts) \cap Objects \subseteq alive
      BY <1>5, <2>1, <3>1 DEF HeapLive, CellTypes
    <3> QED BY <3>1, <3>2 DEF Cell
  <2>2. CASE Top.table \notin Objects
    BY <2>2 DEF Shells, ToSet
  <2> QED BY <2>1, <2>2
<1>7. Top.phase \in {"shell", "edges"} => Top.table \in Objects /\ shells = cells[Top.table].parts
  BY <1>1, ImportTop DEF Placed, Shells
<1> HIDE DEF shells
<1>8. /\ {Top.table} \cap Objects \subseteq alive /\ ToSet(Top.vals) \cap Objects \subseteq alive
      /\ Len(shells) \in Nat /\ Top.entry \in 0 .. Len(arena)
  BY <1>1, <1>4, <1>5, <1>6 DEF HeapLive
<1> QED BY <1>1, <1>2, <1>3, <1>4, <1>6, <1>7, <1>8 DEF shells

\* The phases of the frame that runs.
LEMMA BuildingPhases ==
  ASSUME VmInv, RootInv, ImportInv, InImport
  PROVE  LET nodes == Top.graph.nodes
             shells == Shells(Top, cells)
         IN
         /\ Top.phase = "shell" => Top.node <= Len(shells) + 1
         /\ Top.phase \in {"edges", "root"} /\ nodes # <<>> =>
              Top.table \in Objects /\ Len(nodes) <= Len(shells)
         /\ Top.edge >= 1
         /\ Top.phase \in {"table", "shell"} => Top.edge = 1
         /\ Top.phase = "edges" /\ Top.edge <= PairEdges(nodes[Top.node]) => Top.edge % 2 = 1
         /\ Top.phase = "table" => Top.vals = <<>> /\ Top.node = 1
         /\ Top.phase \in {"shell", "edges"} => Top.node \in 1 .. Len(nodes)
<1>1. Building(Top, arena, Shells(Top, cells)) /\ Top.kind = "import"
  BY BuildingFacts
<1> QED BY <1>1, Zenon DEF Building, ImportInv

\* The references of a live object change, and only to others that are alive.
LEMMA HeapRewrites ==
  ASSUME HeapLive, CellTypes, NEW n, NEW r, cells' = [cells EXCEPT ![n] = r], alive' = alive,
         n \in Objects => /\ n \in alive /\ Cell(r)
                          /\ ToSet(cells[n].parts) \subseteq ToSet(r.parts)
                          /\ Len(cells[n].parts) <= Len(r.parts)
                          /\ ToSet(r.parts) \cap Objects \subseteq alive,
         ToSet(arena') \cap Objects \subseteq alive,
         UNCHANGED <<exc, registered, stored, view>>
  PROVE  /\ HeapLive' /\ CellTypes'
         /\ \A p \in Objects : /\ ToSet(cells[p].parts) \subseteq ToSet(cells'[p].parts)
                               /\ Len(cells[p].parts) <= Len(cells'[p].parts)
         /\ n \in Objects => cells'[n] = r
<1>1. /\ DOMAIN cells' = Objects /\ (n \in Objects => cells'[n] = r)
      /\ \A p \in Objects : p # n => cells'[p] = cells[p]
  BY DEF CellTypes
<1>2. \A p \in Objects : Len(cells[p].parts) \in Nat
  <2> SUFFICES ASSUME NEW p \in Objects
               PROVE  Len(cells[p].parts) \in Nat
    OBVIOUS
  <2>1. Cell(cells[p])
    BY DEF CellTypes
  <2> QED BY <2>1 DEF Cell
<1>3. ASSUME NEW p \in Objects
      PROVE  /\ ToSet(cells[p].parts) \subseteq ToSet(cells'[p].parts)
             /\ Len(cells[p].parts) <= Len(cells'[p].parts)
             /\ Cell(cells'[p])
             /\ p \notin alive => cells'[p].parts = <<>>
             /\ p \in alive => ToSet(cells'[p].parts) \cap Objects \subseteq alive
  <2>1. CASE p = n
    <3>1. cells'[p] = r
      BY <1>1, <2>1
    <3> QED BY <2>1, <3>1
  <2>2. CASE p # n
    <3>1. cells'[p] = cells[p]
      BY <1>1, <2>2
    <3> DEFINE c == cells[p]
    <3>2. /\ Len(c.parts) \in Nat /\ Cell(c) /\ (p \notin alive => c.parts = <<>>)
          /\ (p \in alive => ToSet(c.parts) \cap Objects \subseteq alive)
      BY <1>2 DEF CellTypes, HeapLive
    <3>3. cells'[p] = c
      BY <3>1
    <3> HIDE DEF c
    <3>4. Len(c.parts) <= Len(c.parts)
      BY <3>2
    <3>5. /\ ToSet(c.parts) \subseteq ToSet(c.parts) /\ Len(c.parts) <= Len(c.parts)
          /\ Cell(c) /\ (p \notin alive => c.parts = <<>>)
          /\ (p \in alive => ToSet(c.parts) \cap Objects \subseteq alive)
      BY <3>2, <3>4
    <3> QED BY <3>3, <3>5 DEF c
  <2> QED BY <2>1, <2>2
<1>4. CellTypes'
  <2>1. \A p \in Objects : Cell(cells'[p]) /\ (p \notin alive => cells'[p].parts = <<>>)
    BY <1>3
  <2> QED BY <1>1, <2>1 DEF CellTypes, Cell, ToSet
<1>5. HeapLive'
  <2>1. \A p \in alive' : ToSet(cells'[p].parts) \cap Objects \subseteq alive'
    BY <1>3 DEF CellTypes
  <2>2. /\ registered' \cap Objects \subseteq alive' /\ {exc', stored', view'} \cap Objects \subseteq alive'
        /\ ToSet(arena') \cap Objects \subseteq alive'
    BY DEF HeapLive
  <2> QED BY <2>1, <2>2 DEF HeapLive, ToSet
<1> QED BY <1>1, <1>3, <1>4, <1>5

NewContents(k, b, z) == [Empty EXCEPT !.kind = k, !.bytes = b, !.frozen = z]

\* A new object of the import.
LEMMA NewCell ==
  ASSUME NEW k, NEW b, NEW z
  PROVE  /\ Cell([Empty EXCEPT !.kind = k]) /\ [Empty EXCEPT !.kind = k].parts = <<>>
         /\ Cell([Empty EXCEPT !.kind = k, !.bytes = b])
         /\ [Empty EXCEPT !.kind = k, !.bytes = b].parts = <<>>
         /\ Cell(NewContents(k, b, z)) /\ NewContents(k, b, z).parts = <<>>
<1> DEFINE e == Empty
           none == <<>>
           Records(k1, b1, z1) ==
             [kind: {k1}, bytes: {b1}, parts: {none}, frozen: {z1}, default: {FALSE}]
<1>1. e \in Records("opaque", 0, FALSE)
  BY DEF Empty
<1> HIDE DEF e, none
<1>2. /\ [e EXCEPT !.kind = k] \in Records(k, 0, FALSE)
      /\ [e EXCEPT !.kind = k, !.bytes = b] \in Records(k, b, FALSE)
      /\ [e EXCEPT !.kind = k, !.bytes = b, !.frozen = z] \in Records(k, b, z)
  BY <1>1, Zenon
<1>3. ASSUME NEW c, NEW k1, NEW b1, NEW z1, c \in Records(k1, b1, z1)
      PROVE  Cell(c) /\ c.parts = <<>>
  <2>1. none \in Seq(ToSet(none))
    BY DEF none
  <2>2. c.parts = none
    BY <1>3
  <2>3. c \in [kind: {c.kind}, bytes: {c.bytes}, parts: {c.parts}, frozen: {c.frozen},
               default: {c.default}]
    BY <1>3
  <2> QED BY <2>1, <2>2, <2>3, Zenon DEF Cell, none
<1>4. /\ Cell([e EXCEPT !.kind = k]) /\ [e EXCEPT !.kind = k].parts = <<>>
      /\ Cell([e EXCEPT !.kind = k, !.bytes = b])
      /\ [e EXCEPT !.kind = k, !.bytes = b].parts = <<>>
      /\ Cell([e EXCEPT !.kind = k, !.bytes = b, !.frozen = z])
      /\ [e EXCEPT !.kind = k, !.bytes = b, !.frozen = z].parts = <<>>
  BY <1>2, <1>3, Zenon
<1> QED BY <1>4, Zenon DEF e, NewContents

LEMMA ImportAllocation ==
  ASSUME VmInv, RootInv, ImportInv, InImport, NEW o, NEW c, Allocate(o, c), Cell(c), c.parts = <<>>,
         UNCHANGED <<exc, registered, stored, view>>
  PROVE  /\ HeapLive' /\ CellTypes' /\ ToSet(arena') = ToSet(arena) \cup {o}
         /\ Agree(arena', arena, Low(Top)) /\ o \in Objects
         /\ \A f : f.table = Top.table => Shells(f, cells') = Shells(Top, cells)
         /\ \A f : f.table = o => Shells(f, cells') = <<>>
<1>1. /\ HeapLive' /\ CellTypes' /\ o \in Objects /\ o \notin alive
      /\ ToSet(arena') = ToSet(arena) \cup {o} /\ Agree(arena', arena, Len(arena))
      /\ \A p \in Objects : p # o => cells'[p] = cells[p]
  BY HeapAllocates DEF RootInv
<1>2. Agree(arena', arena, Low(Top))
  <2>1. Low(Top) \in Nat /\ Low(Top) <= Len(arena) /\ Len(arena) \in Nat
    BY FrameLows
  <2> QED BY <1>1, <2>1 DEF Agree
<1>3. {Top.table} \cap Objects \subseteq alive
  BY BuildingFacts
<1>4. \A f : f.table = Top.table => Shells(f, cells') = Shells(Top, cells)
  BY <1>1, <1>3 DEF Shells
<1>5. cells'[o] = c
  BY <1>1 DEF Allocate, RootInv, CellTypes
<1>6. \A f : f.table = o => Shells(f, cells') = <<>>
  BY <1>1, <1>5 DEF Shells
<1> QED BY <1>1, <1>2, <1>4, <1>6

\* The arena of the import is cut back, with or without its table or a value on
\* top.
LEMMA CutSlots ==
  ASSUME VmInv, NEW idx \in 0 .. Len(arena), NEW v \in Identities,
         arena' \in {ArenaRestored(idx), Append(ArenaRestored(idx), v)}
  PROVE  /\ arena' \in Seq(Identities) /\ idx <= Len(arena') /\ Agree(arena', arena, idx)
         /\ ToSet(arena') \subseteq ToSet(arena) \cup {v}
         /\ arena' = Append(ArenaRestored(idx), v) => v \in ToSet(arena')
<1> DEFINE cut == ArenaRestored(idx)
<1>1. /\ cut \in Seq(Identities) /\ Len(cut) = idx /\ Agree(cut, arena, idx)
      /\ ToSet(cut) \subseteq ToSet(arena) /\ idx \in Nat
  <2>1. arena \in Seq(Identities) /\ idx \in Nat /\ idx <= Len(arena)
    BY FrameLows
  <2>2. ToSet(cut) \subseteq ToSet(arena)
    BY <2>1, Slots DEF ArenaRestored
  <2> QED BY <2>1, <2>2, RestoredFacts DEF Agree
<1> HIDE DEF cut
<1>2. CASE arena' = cut /\ arena' # Append(cut, v)
  BY <1>1, <1>2 DEF cut
<1>3. CASE arena' = Append(cut, v)
  <2>1. ToSet(arena') = ToSet(cut) \cup {v}
    BY <1>1, <1>3, Slots
  <2>2. arena' \in Seq(Identities) /\ idx <= Len(arena') /\ Agree(arena', arena, idx)
    BY <1>1, <1>3 DEF Agree
  <2> QED BY <1>1, <2>1, <2>2
<1> QED BY <1>2, <1>3 DEF cut

---------------------------------------------------------------------------
(* Imports: the steps *)

LEMMA ScalarRootRooted ==
  ASSUME VmInv, RootInv, ImportInv, ScalarRoot
  PROVE  RootInv'
<1> DEFINE p == "root"
           g == [Top EXCEPT !.phase = p]
<1>1. InImport /\ UNCHANGED heapVars /\ Top.phase = "table" /\ Top.graph.nodes = <<>>
  BY Zenon DEF ScalarRoot, Phase
<1>2. SetTop(g)
  BY Zenon DEF ScalarRoot, Continue, SetTop
<1>3. /\ Top \in ImportFrames({Top.vals}) /\ Building(Top, arena, Shells(Top, cells))
      /\ Low(Top) = Top.entry
  BY <1>1, BuildingFacts
<1>4. /\ g.kind = "import" /\ g.entry = Top.entry /\ g.graph = Top.graph /\ g.phase = p
      /\ g.table = Top.table /\ g.vals = Top.vals /\ g.edge = Top.edge /\ g.node = Top.node
  <2> HIDE DEF p
  <2> QED BY <1>3, Zenon DEF ImportFrames
<1> HIDE DEF g
<1>5. /\ HeapLive' /\ CellTypes' /\ arena' = arena /\ cells' = cells
      /\ Agree(arena', arena, Low(Top)) /\ registered \subseteq registered'
  BY <1>1, QuietHeap DEF heapVars, Agree
<1>6. Shells(g, cells') = Shells(Top, cells)
  BY <1>4, <1>5 DEF Shells
<1>7. Building(g, arena', Shells(g, cells'))
  <2> DEFINE shells == Shells(Top, cells)
  <2>1. Building(Top, arena, shells)
    BY <1>3
  <2> HIDE DEF shells
  <2>2. Building(g, arena, shells)
    BY <1>1, <1>4, <2>1 DEF Building
  <2> QED BY <1>5, <1>6, <2>2 DEF shells
<1>8. Low(g) = Low(Top)
  BY <1>3, <1>4 DEF Low
<1> QED BY <1>2, <1>4, <1>5, <1>7, <1>8, RootedMoves

LEMMA NewTableRooted ==
  ASSUME VmInv, RootInv, ImportInv, NewTable
  PROVE  RootInv'
<1> DEFINE c == [Empty EXCEPT !.kind = "table"]
<1>1. PICK o \in Objects : /\ Allocate(o, c)
                           /\ SetTop([Top EXCEPT !.phase = "shell", !.table = o])
  BY Zenon DEF NewTable, Continue, SetTop
<1>2. InImport /\ UNCHANGED <<exc, registered, stored, view>> /\ Top.phase = "table"
  BY Zenon DEF NewTable, Phase
<1> DEFINE p == "shell"
           g == [Top EXCEPT !.phase = p, !.table = o]
<1>3. Allocate(o, c) /\ Cell(c) /\ c.parts = <<>>
  BY <1>1, NewCell, Zenon
<1> HIDE DEF c
<1>4. SetTop(g)
  BY <1>1, Zenon
<1>5. /\ Top \in ImportFrames({Top.vals}) /\ Low(Top) = Top.entry /\ GraphValid(Top.graph)
      /\ Top.vals = <<>> /\ Top.node = 1 /\ Top.edge = 1
  BY <1>2, BuildingFacts, BuildingPhases
<1>6. /\ g.kind = "import" /\ g.entry = Top.entry /\ g.graph = Top.graph /\ g.phase = p
      /\ g.table = o /\ g.vals = Top.vals /\ g.edge = Top.edge /\ g.node = Top.node
  <2> HIDE DEF p
  <2> QED BY <1>5, Zenon DEF ImportFrames
<1> HIDE DEF g
<1>7. /\ HeapLive' /\ CellTypes' /\ Agree(arena', arena, Low(Top)) /\ registered \subseteq registered'
      /\ o \in ToSet(arena') /\ Shells(g, cells') = <<>>
  BY <1>2, <1>3, <1>6, ImportAllocation
<1>8. Building(g, arena', <<>>)
  <2>1. g.vals \in Seq(ToSet(g.vals)) /\ ToSet(g.vals) = {}
    BY <1>5, <1>6 DEF ToSet
  <2> QED BY <1>5, <1>6, <1>7, <2>1 DEF Building
<1>9. Low(g) = Low(Top)
  BY <1>5, <1>6 DEF Low
<1> QED BY <1>4, <1>6, <1>7, <1>8, <1>9, RootedMoves

\* The values at hand change, and what there was is still there.
LEMMA ValuesRooted ==
  ASSUME VmInv, RootInv, ImportInv, InImport, NEW l, SetTop([Top EXCEPT !.vals = l]),
         HeapLive', CellTypes', Agree(arena', arena, Low(Top)), registered \subseteq registered',
         ToSet(arena) \subseteq ToSet(arena'),
         \A f : f.table = Top.table => Shells(f, cells') = Shells(Top, cells),
         l \in Seq(ToSet(l)),
         ToSet(l) \cap Objects \subseteq ToSet(arena') \cup ToSet(Shells(Top, cells))
  PROVE  RootInv'
<1> DEFINE g == [Top EXCEPT !.vals = l]
<1>1. /\ Top \in ImportFrames({Top.vals}) /\ Building(Top, arena, Shells(Top, cells))
      /\ Low(Top) = Top.entry
  BY Zenon, BuildingFacts
<1>2. SetTop(g)
  BY Zenon
<1>3. /\ g.kind = "import" /\ g.entry = Top.entry /\ g.graph = Top.graph /\ g.phase = Top.phase
      /\ g.table = Top.table /\ g.vals = l /\ g.edge = Top.edge /\ g.node = Top.node
  BY <1>1, Zenon DEF ImportFrames
<1>4. /\ HeapLive' /\ CellTypes' /\ Agree(arena', arena, Low(Top)) /\ registered \subseteq registered'
      /\ ToSet(arena) \subseteq ToSet(arena') /\ l \in Seq(ToSet(l))
      /\ ToSet(l) \cap Objects \subseteq ToSet(arena') \cup ToSet(Shells(Top, cells))
  BY Zenon
<1> HIDE DEF g
<1>5. Shells(g, cells') = Shells(Top, cells)
  BY <1>3, Zenon
<1>6. Building(g, arena', Shells(g, cells'))
  <2> DEFINE shells == Shells(Top, cells)
  <2>1. Building(Top, arena, shells) /\ ToSet(l) \cap Objects \subseteq ToSet(arena') \cup ToSet(shells)
    BY <1>1, <1>4
  <2> HIDE DEF shells
  <2>2. Building(g, arena', shells)
    BY <1>3, <1>4, <2>1 DEF Building
  <2> QED BY <1>5, <2>2 DEF shells
<1>7. Low(g) = Low(Top)
  BY <1>1, <1>3 DEF Low
<1> QED BY <1>2, <1>3, <1>4, <1>6, <1>7, RootedMoves, Zenon

LEMMA NewShellRooted ==
  ASSUME VmInv, RootInv, ImportInv, NewShell
  PROVE  RootInv'
<1>1. PICK o, c, z : /\ c = NewContents(Node.kind, Node.bytes, z) /\ Allocate(o, c)
                     /\ SetTop([Top EXCEPT !.vals = <<o>>])
  BY Zenon DEF NewShell, Continue, SetTop, NewContents
<1>2. InImport /\ UNCHANGED <<exc, registered, stored, view>>
  BY Zenon DEF NewShell, Phase
<1>3. Allocate(o, c) /\ Cell(c) /\ c.parts = <<>>
  <2>1. \A k, b, y : Cell(NewContents(k, b, y)) /\ NewContents(k, b, y).parts = <<>>
    BY NewCell
  <2>2. c = NewContents(Node.kind, Node.bytes, z) /\ Allocate(o, c)
    BY <1>1, Zenon
  <2> QED BY <2>1, <2>2, Zenon
<1> DEFINE l == <<o>>
<1>4. l \in Seq(ToSet(l)) /\ ToSet(l) = {o}
  BY DEF ToSet
<1>5. SetTop([Top EXCEPT !.vals = l])
  BY <1>1, Zenon
<1> HIDE DEF l
<1>6. /\ HeapLive' /\ CellTypes' /\ ToSet(arena') = ToSet(arena) \cup {o}
      /\ Agree(arena', arena, Low(Top))
      /\ \A f : f.table = Top.table => Shells(f, cells') = Shells(Top, cells)
  BY <1>2, <1>3, ImportAllocation, Zenon
<1>7. /\ ToSet(arena) \subseteq ToSet(arena') /\ registered \subseteq registered'
      /\ ToSet(l) \cap Objects \subseteq ToSet(arena') \cup ToSet(Shells(Top, cells))
  BY <1>2, <1>4, <1>6
<1> QED BY <1>2, <1>4, <1>5, <1>6, <1>7, ValuesRooted, Zenon

\* A reference of a valid graph, decoded when every shell is there.
LEMMA DecodesRooted ==
  ASSUME VmInv, RootInv, ImportInv, InImport, Top.phase \in {"edges", "root"},
         NEW ref, ref \in References(Top.graph), RefValid(Top.graph, ref),
         NEW v, Decoded(ref, v)
  PROVE  /\ HeapLive' /\ CellTypes' /\ Agree(arena', arena, Low(Top))
         /\ registered \subseteq registered' /\ ToSet(arena) \subseteq ToSet(arena')
         /\ \A f : f.table = Top.table => Shells(f, cells') = Shells(Top, cells)
         /\ {v} \cap Objects \subseteq ToSet(arena') \cup ToSet(Shells(Top, cells))
<1>1. ASSUME UNCHANGED heapVars
      PROVE  /\ HeapLive' /\ CellTypes' /\ Agree(arena', arena, Low(Top))
             /\ registered \subseteq registered' /\ arena' = arena
             /\ \A f : f.table = Top.table => Shells(f, cells') = Shells(Top, cells)
  <2>1. HeapLive' /\ CellTypes' /\ arena' = arena /\ cells' = cells /\ registered' = registered
    BY <1>1, QuietHeap DEF heapVars
  <2> QED BY <2>1 DEF Agree, Shells
<1>2. CASE ref[1] = "node" /\ v = NodeValue(ref[2]) /\ UNCHANGED heapVars
  <2> DEFINE nodes == Top.graph.nodes
             shells == Shells(Top, cells)
  <2>1. ref[2] \in DOMAIN nodes
    BY <1>2 DEF RefValid
  <2>2. Top.graph \in Graphs
    BY BuildingFacts
  <2>3. DOMAIN nodes = 1 .. Len(nodes) /\ nodes # <<>> /\ Len(nodes) \in Nat
    BY <2>1, <2>2, GraphAssumption
  <2>4. Top.table \in Objects /\ Len(nodes) <= Len(shells)
    BY <2>3, BuildingPhases
  <2>5. shells \in Seq(ToSet(shells))
    BY BuildingFacts
  <2>6. shells = cells[Top.table].parts
    BY <2>4 DEF Shells
  <2>7. v = shells[ref[2]]
    BY <1>2, <2>6 DEF NodeValue, Table
  <2> HIDE DEF shells, nodes
  <2>8. ref[2] \in 1 .. Len(shells) /\ DOMAIN shells = 1 .. Len(shells)
    BY <2>1, <2>3, <2>4, <2>5
  <2>9. v \in ToSet(shells)
    BY <2>7, <2>8 DEF ToSet
  <2>10. v \in ToSet(Shells(Top, cells))
    BY <2>9 DEF shells
  <2> QED BY <1>1, <1>2, <2>10
<1>3. CASE ref[1] = "boxed" /\ UNCHANGED <<exc, registered, stored, view>>
           /\ Allocate(v, [Empty EXCEPT !.kind = "boxed", !.bytes = ref[2]])
  <2> DEFINE b == ref[2]
             c == [Empty EXCEPT !.kind = "boxed", !.bytes = b]
  <2>1. Allocate(v, c)
    BY <1>3
  <2> HIDE DEF b
  <2>2. Cell(c) /\ c.parts = <<>>
    BY NewCell, Zenon
  <2> HIDE DEF c
  <2>3. /\ HeapLive' /\ CellTypes' /\ ToSet(arena') = ToSet(arena) \cup {v}
        /\ Agree(arena', arena, Low(Top))
        /\ \A f : f.table = Top.table => Shells(f, cells') = Shells(Top, cells)
    BY <1>3, <2>1, <2>2, ImportAllocation
  <2> QED BY <1>3, <2>3
<1>4. CASE v = ref /\ UNCHANGED heapVars
  <2>1. Top.graph \in Graphs
    BY BuildingFacts
  <2>2. v \notin Objects
    BY <1>4, <2>1, GraphAssumption DEF Values
  <2> QED BY <1>1, <1>4, <2>2
<1> QED BY <1>2, <1>3, <1>4, Zenon DEF Decoded

LEMMA DecodeRootRooted ==
  ASSUME VmInv, RootInv, ImportInv, DecodeRoot
  PROVE  RootInv'
<1> DEFINE ref == Top.graph.root
<1>1. PICK v : Decoded(ref, v) /\ SetTop([Top EXCEPT !.vals = <<v>>])
  BY Zenon DEF DecodeRoot, Continue, SetTop
<1>2. InImport /\ Top.phase \in {"edges", "root"}
  <2>1. InImport /\ Top.phase = "root"
    BY Zenon DEF DecodeRoot, Phase
  <2> QED BY <2>1
<1>3. ref \in References(Top.graph) /\ RefValid(Top.graph, ref)
  BY <1>2, BuildingFacts DEF References, GraphValid
<1>4. Decoded(ref, v)
  BY <1>1, Zenon
<1> HIDE DEF ref
<1>5. /\ HeapLive' /\ CellTypes' /\ Agree(arena', arena, Low(Top))
      /\ registered \subseteq registered' /\ ToSet(arena) \subseteq ToSet(arena')
      /\ \A f : f.table = Top.table => Shells(f, cells') = Shells(Top, cells)
      /\ {v} \cap Objects \subseteq ToSet(arena') \cup ToSet(Shells(Top, cells))
  BY <1>2, <1>3, <1>4, DecodesRooted, Zenon
<1> DEFINE l == <<v>>
<1>6. l \in Seq(ToSet(l)) /\ ToSet(l) = {v}
  BY DEF ToSet
<1>7. SetTop([Top EXCEPT !.vals = l])
  BY <1>1, Zenon
<1> HIDE DEF l
<1>8. ToSet(l) \cap Objects \subseteq ToSet(arena') \cup ToSet(Shells(Top, cells))
  BY <1>5, <1>6
<1> QED BY <1>2, <1>5, <1>6, <1>7, <1>8, ValuesRooted, Zenon

\* The edges of a pair come in twos.
LEMMA PairFacts ==
  ASSUME NEW g \in Graphs, GraphValid(g), NEW n \in 1 .. Len(g.nodes)
  PROVE  /\ n \in DOMAIN g.nodes
         /\ DOMAIN g.nodes[n].edges = 1 .. Len(g.nodes[n].edges)
         /\ Len(g.nodes[n].edges) \in Nat /\ PairEdges(g.nodes[n]) \in Nat
         /\ PairEdges(g.nodes[n]) <= Len(g.nodes[n].edges) /\ PairEdges(g.nodes[n]) % 2 = 0
         /\ \A e \in 1 .. Len(g.nodes[n].edges) : /\ RefValid(g, g.nodes[n].edges[e])
                                                  /\ g.nodes[n].edges[e] \in References(g)
<1> DEFINE node == g.nodes[n]
<1>1. g.nodes \in Seq(ToSet(g.nodes))
  BY GraphAssumption
<1>2. n \in DOMAIN g.nodes
  BY <1>1
<1>3. node.edges \in Seq(ToSet(node.edges))
  BY <1>2, GraphAssumption
<1>4. NodeValid(node) /\ \A e \in DOMAIN node.edges : RefValid(g, node.edges[e])
  BY <1>2 DEF GraphValid
<1>5. \A e \in DOMAIN node.edges : node.edges[e] \in References(g)
  BY <1>2 DEF References, ToSet
<1> HIDE DEF node
<1>6. DOMAIN node.edges = 1 .. Len(node.edges) /\ Len(node.edges) \in Nat
  BY <1>3
<1>7. /\ PairEdges(node) \in Nat /\ PairEdges(node) <= Len(node.edges) /\ PairEdges(node) % 2 = 0
  <2>1. CASE node.kind = "hash"
    <3>1. PairEdges(node) = Len(node.edges) - Defaults(node) /\ Defaults(node) \in {0, 1}
      BY <2>1 DEF PairEdges, Defaults
    <3>2. PairEdges(node) >= 0 /\ PairEdges(node) % 2 = 0
      BY <1>4, <2>1 DEF NodeValid
    <3> DEFINE k == PairEdges(node)
               d == Defaults(node)
    <3>3. k = Len(node.edges) - d /\ d \in {0, 1} /\ k >= 0 /\ k % 2 = 0
      BY <3>1, <3>2
    <3> HIDE DEF k, d
    <3>4. k \in Nat /\ k <= Len(node.edges)
      BY <1>6, <3>3
    <3> QED BY <3>3, <3>4 DEF k
  <2>2. CASE node.kind # "hash"
    BY <1>6, <2>2 DEF PairEdges
  <2> QED BY <2>1, <2>2
<1> QED BY <1>2, <1>4, <1>5, <1>6, <1>7 DEF node

\* The reference that is decoded next is one of the node's.
LEMMA EdgeToDecode ==
  ASSUME VmInv, RootInv, ImportInv, InImport, Top.phase = "edges",
         Top.edge <= Len(Node.edges), Len(Top.vals) < Group
  PROVE  LET i == Top.edge + Len(Top.vals) IN
         /\ i \in 1 .. Len(Node.edges)
         /\ Node.edges[i] \in References(Top.graph) /\ RefValid(Top.graph, Node.edges[i])
<1> DEFINE graph == Top.graph
           vals == Top.vals
<1>1. /\ graph \in Graphs /\ GraphValid(graph) /\ vals \in Seq(ToSet(vals)) /\ Top.edge \in Nat
      /\ Top.edge >= 1 /\ Top.node \in 1 .. Len(graph.nodes) /\ Node = graph.nodes[Top.node]
      /\ Top.edge <= PairEdges(Node) => Top.edge % 2 = 1
  BY BuildingFacts, BuildingPhases DEF Node
<1>2. /\ Len(Node.edges) \in Nat /\ PairEdges(Node) \in Nat
      /\ PairEdges(Node) <= Len(Node.edges) /\ PairEdges(Node) % 2 = 0
      /\ \A e \in 1 .. Len(Node.edges) : RefValid(graph, Node.edges[e]) /\ Node.edges[e] \in References(graph)
  BY <1>1, PairFacts
<1>3. Top.edge + Len(Top.vals) \in 1 .. Len(Node.edges)
  <2> DEFINE i == Top.edge
             k == Len(Top.vals)
             pairs == PairEdges(Node)
             all == Len(Node.edges)
  <2>1. /\ i \in Nat /\ k \in Nat /\ pairs \in Nat /\ all \in Nat /\ i >= 1 /\ i <= all
        /\ pairs <= all /\ pairs % 2 = 0 /\ (i <= pairs => i % 2 = 1)
        /\ k < IF i <= pairs THEN 2 ELSE 1
    BY <1>1, <1>2 DEF Group
  <2> HIDE DEF i, k, pairs, all
  <2>2. CASE i <= pairs
    <3>1. i # pairs
      BY <2>1, <2>2
    <3> QED BY <2>1, <2>2, <3>1 DEF i, k, all
  <2>3. CASE ~(i <= pairs)
    <3>1. k = 0
      BY <2>1, <2>3
    <3> QED BY <2>1, <3>1 DEF i, k, all
  <2> QED BY <2>2, <2>3
<1> QED BY <1>2, <1>3

LEMMA DecodeEdgeRooted ==
  ASSUME VmInv, RootInv, ImportInv, DecodeEdge
  PROVE  RootInv'
<1> DEFINE graph == Top.graph
           ref == Node.edges[Top.edge + Len(Top.vals)]
           vals == Top.vals
<1>1. PICK v : Decoded(ref, v) /\ SetTop([Top EXCEPT !.vals = Append(vals, v)])
  BY Zenon DEF DecodeEdge, Continue, SetTop
<1>2. InImport /\ Top.phase = "edges" /\ Top.edge <= Len(Node.edges) /\ Len(Top.vals) < Group
  BY Zenon DEF DecodeEdge, Phase
<1>3. /\ vals \in Seq(ToSet(vals))
      /\ ToSet(vals) \cap Objects \subseteq ToSet(arena) \cup ToSet(Shells(Top, cells))
  BY <1>2, BuildingFacts
<1>4. ref \in References(graph) /\ RefValid(graph, ref) /\ Top.phase \in {"edges", "root"}
  BY <1>2, EdgeToDecode
<1>5. Decoded(ref, v) /\ SetTop([Top EXCEPT !.vals = Append(vals, v)])
  BY <1>1, Zenon
<1> HIDE DEF ref
<1>6. /\ HeapLive' /\ CellTypes' /\ Agree(arena', arena, Low(Top))
      /\ registered \subseteq registered' /\ ToSet(arena) \subseteq ToSet(arena')
      /\ \A f : f.table = Top.table => Shells(f, cells') = Shells(Top, cells)
      /\ {v} \cap Objects \subseteq ToSet(arena') \cup ToSet(Shells(Top, cells))
  BY <1>2, <1>4, <1>5, DecodesRooted, Zenon
<1> DEFINE l == Append(vals, v)
<1>7. l \in Seq(ToSet(l)) /\ ToSet(l) = ToSet(vals) \cup {v}
  <2>1. ToSet(l) = ToSet(vals) \cup {v}
    BY <1>3, Slots
  <2>2. l \in Seq(ToSet(vals) \cup {v})
    BY <1>3
  <2> QED BY <2>1, <2>2
<1>8. SetTop([Top EXCEPT !.vals = l])
  BY <1>5
<1> HIDE DEF l
<1>9. ToSet(l) \cap Objects \subseteq ToSet(arena') \cup ToSet(Shells(Top, cells))
  BY <1>3, <1>6, <1>7
<1>10. InImport
  BY <1>2
<1> QED BY <1>6, <1>7, <1>8, <1>9, <1>10, ValuesRooted, Zenon

\* The arena is cut back to the table, or stays, and nothing is at hand.
LEMMA ImportProceeds ==
  ASSUME VmInv, RootInv, ImportInv, InImport, Top.table \in Objects, NEW g, SetTop(g),
         g.kind = "import", g.graph = Top.graph, g.entry = Top.entry, g.table = Top.table,
         g.vals = <<>>, arena' \in {arena, Trimmed}, registered' = registered,
         HeapLive', CellTypes',
         LET nodes == g.graph.nodes
             shells == cells'[g.table].parts
         IN
         /\ g.phase = "shell" => g.node <= Len(shells) + 1
         /\ g.phase \in {"edges", "root"} => Len(nodes) <= Len(shells)
         /\ g.edge >= 1 /\ (g.phase \in {"table", "shell"} => g.edge = 1)
         /\ g.phase = "edges" /\ g.edge <= PairEdges(nodes[g.node]) => g.edge % 2 = 1
  PROVE  RootInv'
<1>1. /\ Top.entry \in 0 .. Len(arena) /\ Low(Top) = Top.entry /\ GraphValid(Top.graph)
      /\ {Top.table} \cap Objects \subseteq ToSet(arena)
  BY BuildingFacts
<1>2. Agree(arena', arena, Low(Top)) /\ Top.table \in ToSet(arena')
  <2>1. CASE arena' = arena
    BY <1>1, <2>1 DEF Agree
  <2>2. CASE arena' = Append(ArenaRestored(Top.entry), Top.table)
    <3> DEFINE idx == Top.entry
               v == Top.table
    <3>1. idx \in 0 .. Len(arena) /\ v \in Identities /\ arena' = Append(ArenaRestored(idx), v)
      BY <1>1, <2>2 DEF Identities
    <3> HIDE DEF idx, v
    <3>2. Agree(arena', arena, idx) /\ v \in ToSet(arena')
      BY <3>1, CutSlots
    <3> QED BY <1>1, <3>2 DEF idx, v
  <2> QED BY <2>1, <2>2 DEF Trimmed
<1>3. Shells(g, cells') = cells'[g.table].parts
  BY DEF Shells
<1>4. g.vals \in Seq(ToSet(g.vals)) /\ ToSet(g.vals) = {}
  BY DEF ToSet
<1>5. Building(g, arena', Shells(g, cells'))
  BY <1>1, <1>2, <1>3, <1>4 DEF Building
<1>6. Low(g) = Low(Top) /\ registered \subseteq registered'
  BY <1>1 DEF Low
<1> QED BY <1>2, <1>5, <1>6, RootedMoves

\* An object whose references, or flags, are written.
Contents(k, b, p, z, e) == [kind: {k}, bytes: {b}, parts: {p}, frozen: {z}, default: {e}]

LEMMA CellOf ==
  ASSUME NEW k, NEW b, NEW p, p \in Seq(ToSet(p)), NEW z, NEW e,
         NEW r, r \in Contents(k, b, p, z, e)
  PROVE  Cell(r) /\ r.parts = p
<1>1. r \in [kind: {r.kind}, bytes: {r.bytes}, parts: {r.parts}, frozen: {r.frozen},
              default: {r.default}]
  BY DEF Contents
<1>2. r.parts = p
  BY DEF Contents
<1> QED BY <1>1, <1>2, Zenon DEF Cell

Linked(c, q, d) == [c EXCEPT !.parts = q, !.default = d]
Relisted(c, q) == [c EXCEPT !.parts = q]
Flagged(c, d) == [c EXCEPT !.frozen = d]

LEMMA ChangedCell ==
  ASSUME NEW c, Cell(c), NEW q, q \in Seq(ToSet(q)), NEW d
  PROVE  /\ Cell(Linked(c, q, d)) /\ Linked(c, q, d).parts = q
         /\ Cell(Relisted(c, q)) /\ Relisted(c, q).parts = q
         /\ Cell(Flagged(c, d)) /\ Flagged(c, d).parts = c.parts
<1> DEFINE k == c.kind
           b == c.bytes
           l == c.parts
           z == c.frozen
           e == c.default
<1>1. c \in [kind: {k}, bytes: {b}, parts: {l}, frozen: {z}, default: {e}]
  BY DEF Cell
<1>2. l \in Seq(ToSet(l))
  BY DEF Cell
<1> HIDE DEF k, b, l, z, e
<1>3. /\ Linked(c, q, d) \in Contents(k, b, q, z, d)
      /\ Relisted(c, q) \in Contents(k, b, q, z, e)
      /\ Flagged(c, d) \in Contents(k, b, l, d, e)
  BY <1>1, Zenon DEF Linked, Relisted, Flagged, Contents
<1>4. Cell(Linked(c, q, d)) /\ Linked(c, q, d).parts = q
  BY <1>3, CellOf
<1>5. Cell(Relisted(c, q)) /\ Relisted(c, q).parts = q
  BY <1>3, CellOf
<1>6. Cell(Flagged(c, d)) /\ Flagged(c, d).parts = l
  BY <1>2, <1>3, CellOf
<1> QED BY <1>4, <1>5, <1>6 DEF l

LEMMA KeepShellRooted ==
  ASSUME VmInv, RootInv, ImportInv, KeepShell
  PROVE  RootInv'
<1> DEFINE t == Top.table
           v == Top.vals[1]
           c == cells[t]
           all == Top.node = Len(Top.graph.nodes)
           m == IF all THEN 1 ELSE Top.node + 1
           p == IF all THEN "edges" ELSE Top.phase
           l == <<>>
           g == [Top EXCEPT !.vals = l, !.node = m, !.phase = p]
           q == Append(c.parts, v)
<1>1. /\ InImport /\ Top.phase = "shell" /\ Top.vals # <<>> /\ arena' = Trimmed
      /\ UNCHANGED <<alive, exc, registered, stored, view>>
  BY Zenon DEF KeepShell, Phase
<1>2. SetTop(g)
  BY Zenon DEF KeepShell, Continue, SetTop
<1>3. /\ Top \in ImportFrames({Top.vals}) /\ Top.vals \in Seq(ToSet(Top.vals))
      /\ t \in Objects /\ t \in alive /\ Shells(Top, cells) = c.parts
      /\ ToSet(Top.vals) \cap Objects \subseteq alive
      /\ ToSet(c.parts) \cap Objects \subseteq alive
      /\ c.parts \in Seq(ToSet(c.parts)) /\ Len(c.parts) \in Nat
      /\ Top.entry \in 0 .. Len(arena)
  BY <1>1, BuildingFacts
<1>4. /\ Top.node <= Len(c.parts) + 1 /\ Top.edge = 1
      /\ Top.node \in 1 .. Len(Top.graph.nodes)
  BY <1>1, <1>3, BuildingPhases
<1>5. Cell(c) /\ HeapLive /\ CellTypes
  BY <1>3 DEF RootInv, CellTypes
<1>6. /\ q \in Seq(ToSet(q)) /\ ToSet(q) = ToSet(c.parts) \cup {v} /\ Len(q) = Len(c.parts) + 1
      /\ {v} \cap Objects \subseteq alive
  <2>1. v \in ToSet(Top.vals)
    BY <1>1, <1>3 DEF ToSet
  <2> HIDE DEF v, c
  <2>2. ToSet(q) = ToSet(c.parts) \cup {v}
    BY <1>3, Slots
  <2>3. q \in Seq(ToSet(c.parts) \cup {v}) /\ Len(q) = Len(c.parts) + 1
    BY <1>3
  <2> QED BY <1>3, <2>1, <2>2, <2>3
<1> DEFINE r == Relisted(c, q)
<1>7. cells' = [cells EXCEPT ![t] = r]
  BY Zenon DEF KeepShell, Relisted
<1>8. Cell(r) /\ r.parts = q
  <2> HIDE DEF c, q
  <2> QED BY <1>5, <1>6, ChangedCell
<1>9. ToSet(arena') \cap Objects \subseteq alive
  <2> HIDE DEF t
  <2>1. t \in Identities /\ arena' = Append(ArenaRestored(Top.entry), t)
    BY <1>1, <1>3 DEF Identities, Trimmed, t
  <2>2. ToSet(arena') \subseteq ToSet(arena) \cup {t}
    BY <1>3, <2>1, CutSlots
  <2> QED BY <1>3, <1>5, <2>2 DEF HeapLive
<1> HIDE DEF r, q
<1>10. HeapLive' /\ CellTypes' /\ cells'[t] = r
  <2>1. /\ ToSet(c.parts) \subseteq ToSet(r.parts) /\ Len(c.parts) <= Len(r.parts)
        /\ ToSet(r.parts) \cap Objects \subseteq alive
    <3> HIDE DEF c, v
    <3> QED BY <1>3, <1>6, <1>8
  <2> QED BY <1>1, <1>3, <1>5, <1>7, <1>8, <1>9, <2>1, HeapRewrites
<1>11. /\ g.kind = "import" /\ g.entry = Top.entry /\ g.graph = Top.graph /\ g.phase = p
       /\ g.table = t /\ g.vals = l /\ g.edge = Top.edge /\ g.node = m
  <2> HIDE DEF m, p, l
  <2> QED BY <1>3, Zenon DEF ImportFrames
<1> HIDE DEF g
<1>12. /\ p \in {"shell", "edges"} /\ (p = "shell" => m <= Len(q) + 1)
       /\ p = "edges" => Len(Top.graph.nodes) <= Len(q)
  <2> DEFINE size == Len(c.parts)
             n == Len(Top.graph.nodes)
             i == Top.node
  <2>1. size \in Nat /\ i \in 1 .. n /\ i <= size + 1 /\ Len(q) = size + 1
    BY <1>3, <1>4, <1>6
  <2>2. IF i = n THEN m = 1 /\ p = "edges" ELSE m = i + 1 /\ p = "shell"
    BY <1>1
  <2> HIDE DEF size, n, i, m, p, c
  <2>3. CASE i = n
    <3>1. n <= Len(q)
      BY <2>1, <2>3
    <3> QED BY <2>2, <2>3, <3>1 DEF n
  <2>4. CASE i # n
    <3>1. i + 1 <= Len(q) + 1
      BY <2>1
    <3> QED BY <2>2, <2>4, <3>1
  <2> QED BY <2>3, <2>4
<1>13. l = <<>> /\ arena' \in {arena, Trimmed}
  BY <1>1
<1> HIDE DEF m, p, l, c, v
<1>14. g.edge = 1 /\ 1 >= 1 /\ 1 % 2 = 1 /\ g.phase \in {"shell", "edges"}
  BY <1>4, <1>11, <1>12
<1>15. cells'[g.table].parts = q
  BY <1>8, <1>10, <1>11
<1> QED BY <1>1, <1>2, <1>3, <1>10, <1>11, <1>12, <1>13, <1>14, <1>15, ImportProceeds

\* The object of the node that is filled.
LEMMA NodeFacts ==
  ASSUME VmInv, RootInv, ImportInv, InImport, Top.phase = "edges"
  PROVE  /\ NodeObject \in Objects =>
              /\ NodeObject \in alive /\ Cell(cells[NodeObject])
              /\ ToSet(cells[NodeObject].parts) \cap Objects \subseteq alive
              /\ cells[NodeObject].parts \in Seq(ToSet(cells[NodeObject].parts))
         /\ Top.table \in Objects /\ Len(Top.graph.nodes) <= Len(cells[Top.table].parts)
         /\ Len(Top.graph.nodes) \in Nat /\ Top.node \in 1 .. Len(Top.graph.nodes)
<1> DEFINE nodes == Top.graph.nodes
           shells == Shells(Top, cells)
<1>1. /\ Top.table \in Objects /\ shells = cells[Top.table].parts
      /\ shells \in Seq(ToSet(shells)) /\ ToSet(shells) \cap Objects \subseteq alive
      /\ Top.graph \in Graphs
  BY BuildingFacts
<1>2. Len(nodes) \in Nat /\ Top.node \in 1 .. Len(nodes)
  BY <1>1, BuildingPhases, GraphLists
<1>3. Len(nodes) <= Len(shells)
  <2>1. nodes # <<>>
    BY <1>2
  <2> QED BY <2>1, BuildingPhases
<1>4. NodeObject = shells[Top.node]
  BY <1>1 DEF NodeObject, Table
<1> HIDE DEF nodes, shells
<1>5. NodeObject \in ToSet(shells)
  BY <1>1, <1>2, <1>3, <1>4 DEF ToSet
<1>6. ASSUME NodeObject \in Objects
      PROVE  /\ NodeObject \in alive /\ Cell(cells[NodeObject])
             /\ ToSet(cells[NodeObject].parts) \cap Objects \subseteq alive
  BY <1>1, <1>5, <1>6 DEF RootInv, HeapLive, CellTypes
<1>7. NodeObject \in Objects => cells[NodeObject].parts \in Seq(ToSet(cells[NodeObject].parts))
  BY <1>6 DEF Cell
<1> QED BY <1>1, <1>2, <1>3, <1>6, <1>7 DEF nodes, shells

\* A sequence and what follows it.
LEMMA JoinedElements ==
  ASSUME NEW s, NEW t, s \in Seq(ToSet(s)), t \in Seq(ToSet(t))
  PROVE  /\ s \o t \in Seq(ToSet(s \o t)) /\ ToSet(s \o t) = ToSet(s) \cup ToSet(t)
         /\ Len(s) <= Len(s \o t)
<1> DEFINE r == s \o t
<1>1. /\ s \in Seq(ToSet(s) \cup ToSet(t)) /\ t \in Seq(ToSet(s) \cup ToSet(t))
  OBVIOUS
<1>2. /\ r \in Seq(ToSet(s) \cup ToSet(t)) /\ Len(r) = Len(s) + Len(t)
      /\ \A i \in 1 .. Len(r) : r[i] = IF i <= Len(s) THEN s[i] ELSE t[i - Len(s)]
  BY <1>1, ConcatProperties
<1> HIDE DEF r
<1>3. Len(s) \in Nat /\ Len(t) \in Nat /\ DOMAIN s = 1 .. Len(s) /\ DOMAIN t = 1 .. Len(t)
      /\ DOMAIN r = 1 .. Len(r)
  BY <1>2
<1>4. ToSet(s) \subseteq ToSet(r)
  <2> SUFFICES ASSUME NEW i \in 1 .. Len(s)
               PROVE  s[i] \in ToSet(r)
    BY <1>3 DEF ToSet
  <2>1. i \in 1 .. Len(r) /\ i <= Len(s)
    BY <1>2, <1>3
  <2>2. r[i] = s[i]
    BY <1>2, <2>1
  <2> QED BY <1>3, <2>1, <2>2 DEF ToSet
<1>5. ToSet(t) \subseteq ToSet(r)
  <2> SUFFICES ASSUME NEW i \in 1 .. Len(t)
               PROVE  t[i] \in ToSet(r)
    BY <1>3 DEF ToSet
  <2>1. i + Len(s) \in 1 .. Len(r) /\ ~(i + Len(s) <= Len(s)) /\ i + Len(s) - Len(s) = i
    BY <1>2, <1>3
  <2>2. r[i + Len(s)] = t[i]
    BY <1>2, <2>1
  <2> QED BY <1>3, <2>1, <2>2 DEF ToSet
<1>6. ToSet(r) \subseteq ToSet(s) \cup ToSet(t)
  BY <1>2, <1>3 DEF ToSet
<1>7. ToSet(r) = ToSet(s) \cup ToSet(t) /\ Len(s) <= Len(r)
  BY <1>2, <1>3, <1>4, <1>5, <1>6
<1> QED BY <1>2, <1>7 DEF r

LEMMA CellLength ==
  ASSUME NEW c, Cell(c)
  PROVE  Len(c.parts) \in Nat
  BY DEF Cell

\* The object of a node has more references, and the arena is cut back.
LEMMA LinkEdgeRooted ==
  ASSUME VmInv, RootInv, ImportInv, InImport, Top.phase = "edges", Top.edge <= Len(Node.edges),
         NEW d, SetTop([Top EXCEPT !.vals = <<>>, !.edge = Top.edge + Group]),
         cells' = [cells EXCEPT ![NodeObject].parts = @ \o Top.vals, ![NodeObject].default = d],
         arena' = Trimmed, UNCHANGED <<alive, exc, registered, stored, view>>
  PROVE  RootInv'
<1> DEFINE o == NodeObject
           c == cells[o]
           more == Top.vals
           q == c.parts \o more
           r == Linked(c, q, d)
           e == Top.edge + Group
           l == <<>>
           g == [Top EXCEPT !.vals = l, !.edge = e]
           nodes == Top.graph.nodes
<1>1. SetTop(g)
  BY Zenon
<1>2. cells' = [cells EXCEPT ![o] = r]
  BY Zenon DEF Linked
<1>3. Top.phase = "edges" /\ Top.edge <= Len(Node.edges)
      /\ arena' = Trimmed /\ UNCHANGED <<alive, exc, registered, stored, view>>
  BY Zenon
<1>4. /\ Top \in ImportFrames({Top.vals}) /\ more \in Seq(ToSet(more)) /\ Top.table \in Objects
      /\ Top.table \in alive /\ ToSet(more) \cap Objects \subseteq alive
      /\ Top.entry \in 0 .. Len(arena) /\ Top.graph \in Graphs /\ GraphValid(Top.graph)
      /\ Top.edge \in Nat
  BY <1>3, BuildingFacts
<1>5. /\ o \in Objects => /\ o \in alive /\ Cell(c) /\ ToSet(c.parts) \cap Objects \subseteq alive
                          /\ c.parts \in Seq(ToSet(c.parts))
      /\ Len(nodes) <= Len(cells[Top.table].parts) /\ Len(nodes) \in Nat
      /\ Top.node \in 1 .. Len(nodes)
  BY <1>3, NodeFacts
<1>6. /\ Top.edge >= 1 /\ (Top.edge <= PairEdges(nodes[Top.node]) => Top.edge % 2 = 1)
      /\ Node = nodes[Top.node]
  BY <1>3, BuildingPhases DEF Node
<1>7. PairEdges(Node) \in Nat
  BY <1>4, <1>5, <1>6, PairFacts
<1>8. HeapLive /\ CellTypes
  BY DEF RootInv
<1>9. ToSet(arena') \cap Objects \subseteq alive
  <2> DEFINE t == Top.table
  <2>1. t \in Identities /\ arena' = Append(ArenaRestored(Top.entry), t)
    BY <1>3, <1>4 DEF Identities, Trimmed
  <2> HIDE DEF t
  <2>2. ToSet(arena') \subseteq ToSet(arena) \cup {t}
    BY <1>4, <2>1, CutSlots
  <2> QED BY <1>4, <1>8, <2>2 DEF HeapLive, t
<1>10. o \in Objects => /\ Cell(r) /\ r.parts = q /\ ToSet(c.parts) \subseteq ToSet(q)
                        /\ Len(c.parts) <= Len(q) /\ ToSet(q) \cap Objects \subseteq alive
  <2> SUFFICES ASSUME o \in Objects
               PROVE  /\ Cell(r) /\ r.parts = q /\ ToSet(c.parts) \subseteq ToSet(q)
                      /\ Len(c.parts) <= Len(q) /\ ToSet(q) \cap Objects \subseteq alive
    OBVIOUS
  <2>1. Cell(c) /\ c.parts \in Seq(ToSet(c.parts)) /\ ToSet(c.parts) \cap Objects \subseteq alive
    BY <1>5
  <2>2. q \in Seq(ToSet(q)) /\ ToSet(q) = ToSet(c.parts) \cup ToSet(more) /\ Len(c.parts) <= Len(q)
    <3> DEFINE s == c.parts
    <3>1. s \in Seq(ToSet(s)) /\ more \in Seq(ToSet(more))
      BY <1>4, <2>1
    <3> HIDE DEF s, more
    <3> QED BY <3>1, JoinedElements DEF s
  <2>3. Cell(r) /\ r.parts = q
    <3> HIDE DEF c, q
    <3> QED BY <2>1, <2>2, ChangedCell
  <2> HIDE DEF r, q, c, more
  <2> QED BY <1>4, <2>1, <2>2, <2>3
<1> HIDE DEF r
<1>11. /\ HeapLive' /\ CellTypes'
       /\ \A p \in Objects : Len(cells[p].parts) <= Len(cells'[p].parts)
  <2>1. o \in Objects => /\ o \in alive /\ Cell(r) /\ ToSet(cells[o].parts) \subseteq ToSet(r.parts)
                         /\ Len(cells[o].parts) <= Len(r.parts)
                         /\ ToSet(r.parts) \cap Objects \subseteq alive
    <3> HIDE DEF o, q
    <3> QED BY <1>5, <1>10
  <2> HIDE DEF o
  <2> QED BY <1>2, <1>3, <1>8, <1>9, <2>1, HeapRewrites
<1>12. /\ g.kind = "import" /\ g.entry = Top.entry /\ g.graph = Top.graph /\ g.phase = Top.phase
       /\ g.table = Top.table /\ g.vals = l /\ g.edge = e /\ g.node = Top.node
  <2> HIDE DEF e, l
  <2> QED BY <1>4, Zenon DEF ImportFrames
<1>13. e >= 1 /\ (e <= PairEdges(Node) => e % 2 = 1)
  <2> DEFINE i == Top.edge
             k == PairEdges(Node)
  <2>1. i \in Nat /\ k \in Nat /\ i >= 1 /\ (i <= k => i % 2 = 1)
        /\ e = IF i <= k THEN i + 2 ELSE i + 1
    BY <1>4, <1>6, <1>7 DEF Group
  <2> HIDE DEF i, k, e
  <2>2. e >= 1 /\ (e <= k => e % 2 = 1)
    BY <2>1
  <2> QED BY <2>2 DEF k
<1>14. Len(nodes) <= Len(cells'[Top.table].parts)
  <2> DEFINE t == Top.table
             m == Len(cells[t].parts)
             k == Len(cells'[t].parts)
  <2>1. t \in Objects /\ m <= k /\ Len(nodes) <= m /\ Len(nodes) \in Nat
    BY <1>4, <1>5, <1>11
  <2>2. Cell(cells[t]) /\ Cell(cells'[t])
    BY <1>8, <1>11, <2>1 DEF CellTypes, Cell, ToSet
  <2>3. m \in Nat /\ k \in Nat
    BY <2>2, CellLength
  <2> HIDE DEF m, k
  <2>4. Len(nodes) <= k
    BY <2>1, <2>3
  <2> QED BY <2>4 DEF k
<1>15. l = <<>>
  OBVIOUS
<1> HIDE DEF g, l, e
<1> QED BY <1>1, <1>3, <1>4, <1>6, <1>11, <1>12, <1>13, <1>14, <1>15, ImportProceeds

\* The object of a node is complete: a flag changes.
LEMMA NextNodeRooted ==
  ASSUME VmInv, RootInv, ImportInv, NextNode
  PROVE  RootInv'
<1> DEFINE all == Top.node = Len(Top.graph.nodes)
           m == IF all THEN 1 ELSE Top.node + 1
           p == IF all THEN "root" ELSE Top.phase
           e == 1
           g == [Top EXCEPT !.edge = e, !.node = m, !.phase = p]
           o == NodeObject
           c == cells[o]
           z == Node.frozen
           r == Flagged(c, z)
           nodes == Top.graph.nodes
<1>1. /\ InImport /\ Top.phase = "edges" /\ Top.edge > Len(Node.edges)
      /\ UNCHANGED <<alive, arena, exc, registered, stored, view>>
  BY Zenon DEF NextNode, Phase
<1>2. SetTop(g)
  BY Zenon DEF NextNode, Continue, SetTop
<1>3. cells' = [cells EXCEPT ![o] = r]
  BY Zenon DEF NextNode, Flagged
<1>4. /\ Top \in ImportFrames({Top.vals}) /\ Top.table \in Objects
      /\ Top.graph \in Graphs /\ Top.edge \in Nat
  BY <1>1, BuildingFacts
<1>5. /\ o \in Objects => o \in alive /\ Cell(c) /\ ToSet(c.parts) \cap Objects \subseteq alive
      /\ Len(nodes) <= Len(cells[Top.table].parts) /\ Len(nodes) \in Nat
      /\ Top.node \in 1 .. Len(nodes)
  BY <1>1, NodeFacts
<1>6. HeapLive /\ CellTypes
  BY DEF RootInv
<1>7. o \in Objects => Cell(r) /\ r.parts = c.parts
  <2> SUFFICES ASSUME o \in Objects
               PROVE  Cell(r) /\ r.parts = c.parts
    OBVIOUS
  <2>1. Cell(c) /\ <<>> \in Seq(ToSet(<<>>))
    BY <1>5
  <2> HIDE DEF c, z
  <2> QED BY <2>1, ChangedCell
<1> HIDE DEF r
<1>8. /\ HeapLive' /\ CellTypes'
      /\ \A k \in Objects : Len(cells[k].parts) <= Len(cells'[k].parts)
  <2>1. o \in Objects => /\ o \in alive /\ Cell(r) /\ ToSet(cells[o].parts) \subseteq ToSet(r.parts)
                         /\ Len(cells[o].parts) <= Len(r.parts)
                         /\ ToSet(r.parts) \cap Objects \subseteq alive
    <3> SUFFICES ASSUME o \in Objects
                 PROVE  /\ o \in alive /\ Cell(r) /\ ToSet(c.parts) \subseteq ToSet(r.parts)
                        /\ Len(c.parts) <= Len(r.parts)
                        /\ ToSet(r.parts) \cap Objects \subseteq alive
      OBVIOUS
    <3>1. Len(c.parts) \in Nat
      BY <1>5 DEF Cell
    <3> HIDE DEF c, o
    <3>2. Len(c.parts) <= Len(c.parts)
      BY <3>1
    <3> QED BY <1>5, <1>7, <3>2
  <2>2. ToSet(arena') \cap Objects \subseteq alive
    BY <1>1, <1>6 DEF HeapLive
  <2> HIDE DEF o
  <2> QED BY <1>1, <1>3, <1>6, <2>1, <2>2, HeapRewrites
<1>9. /\ g.kind = "import" /\ g.entry = Top.entry /\ g.graph = Top.graph /\ g.phase = p
      /\ g.table = Top.table /\ g.vals = Top.vals /\ g.edge = e /\ g.node = m
  <2> HIDE DEF e, m, p
  <2> QED BY <1>4, Zenon DEF ImportFrames
<1>10. Top.vals = <<>>
  <2>1. Top.vals # <<>> => Top.edge <= Len(nodes[Top.node].edges)
    BY <1>1, BuildingFacts, Zenon DEF ImportInv
  <2>2. Len(nodes[Top.node].edges) \in Nat /\ Node = nodes[Top.node]
    BY <1>4, <1>5, GraphLists DEF Node
  <2> QED BY <1>1, <1>4, <2>1, <2>2
<1>11. Len(nodes) <= Len(cells'[Top.table].parts)
  <2> DEFINE t == Top.table
             i == Len(cells[t].parts)
             k == Len(cells'[t].parts)
  <2>1. t \in Objects /\ i <= k /\ Len(nodes) <= i /\ Len(nodes) \in Nat
    BY <1>4, <1>5, <1>8
  <2>2. Cell(cells[t]) /\ Cell(cells'[t])
    BY <1>6, <1>8, <2>1 DEF CellTypes, Cell, ToSet
  <2>3. i \in Nat /\ k \in Nat
    BY <2>2, CellLength
  <2> HIDE DEF i, k
  <2>4. Len(nodes) <= k
    BY <2>1, <2>3
  <2> QED BY <2>4 DEF k
<1>12. g.edge = 1 /\ 1 >= 1 /\ 1 % 2 = 1 /\ g.phase \in {"edges", "root"}
  BY <1>1, <1>9
<1>13. arena' \in {arena, Trimmed}
  BY <1>1
<1> HIDE DEF g, m, p, e, o
<1> QED BY <1>1, <1>2, <1>4, <1>8, <1>9, <1>10, <1>11, <1>12, <1>13, ImportProceeds

\* The import is over, by a result or a failure.
LEMMA ImportPopsRooted ==
  ASSUME VmInv, RootInv, InImport, NEW v \in Identities, frames' = Front(frames),
         arena' \in {ArenaRestored(Top.entry), Append(ArenaRestored(Top.entry), v)},
         arena' = ArenaRestored(Top.entry) \/ {v} \cap Objects \subseteq alive',
         alive \subseteq alive', alive' \subseteq Objects, cells' = cells,
         exc' \in {exc, Nil}, UNCHANGED <<registered, stored, view>>
  PROVE  RootInv'
<1>1. /\ Len(frames) > 1 /\ Low(Top) = Top.entry /\ Top.entry \in 0 .. Len(arena)
  BY ImportTop
<1>2. /\ HeapLive /\ CellTypes /\ Nil \notin Objects /\ arena \in Seq(Identities)
  BY HeapAssumption, FrameLows DEF RootInv
<1> DEFINE idx == Top.entry
<1>3. /\ arena' \in Seq(Identities) /\ idx <= Len(arena') /\ Agree(arena', arena, idx)
      /\ ToSet(arena') \subseteq ToSet(arena) \cup {v}
  <2>1. idx \in 0 .. Len(arena) /\ arena' \in {ArenaRestored(idx), Append(ArenaRestored(idx), v)}
    BY <1>1
  <2> HIDE DEF idx
  <2> QED BY <2>1, CutSlots
<1>4. ToSet(arena') \cap Objects \subseteq alive'
  <2>1. CASE arena' = ArenaRestored(idx)
    <3>1. ToSet(ArenaRestored(idx)) \subseteq ToSet(arena)
      BY <1>1, <1>2, Slots DEF ArenaRestored
    <3> QED BY <1>2, <2>1, <3>1 DEF HeapLive
  <2>2. CASE {v} \cap Objects \subseteq alive'
    BY <1>2, <1>3, <2>2 DEF HeapLive
  <2> QED BY <2>1, <2>2
<1>5. HeapLive' /\ CellTypes'
  <2>1. registered' \cap Objects \subseteq alive' /\ {exc', stored', view'} \cap Objects \subseteq alive'
    BY <1>2 DEF HeapLive
  <2> QED BY <1>2, <1>4, <2>1, HeapGrows
<1> QED BY <1>1, <1>3, <1>5, RootedPops

LEMMA FailsRooted ==
  ASSUME VmInv, RootInv, InImport, NEW own, NEW refused, Fails(own, refused),
         alive \subseteq alive', alive' \subseteq Objects, cells' = cells
  PROVE  RootInv'
<1>1. /\ arena' = ArenaRestored(Top.entry) /\ exc' = Nil /\ frames' = Front(frames)
      /\ UNCHANGED <<registered, stored, view>> /\ NoMem \in Identities
  BY DEF Fails, Identities
<1> QED BY <1>1, ImportPopsRooted

LEMMA ReturnRooted ==
  ASSUME VmInv, RootInv, ImportInv, Return
  PROVE  RootInv'
<1> DEFINE value == Top.vals[1]
<1>1. InImport /\ Top.vals # <<>> /\ Completes(value) /\ UNCHANGED <<alive, cells>>
  BY DEF Return, Phase
<1>2. {value} \cap Objects \subseteq alive
  <2>1. Top.vals \in Seq(ToSet(Top.vals)) /\ ToSet(Top.vals) \cap Objects \subseteq alive
    BY <1>1, BuildingFacts
  <2>2. value \in ToSet(Top.vals)
    BY <1>1, <2>1 DEF ToSet
  <2> QED BY <2>1, <2>2
<1> HIDE DEF value
<1>3. alive \subseteq alive' /\ alive' \subseteq Objects /\ cells' = cells
  BY <1>1 DEF RootInv, CellTypes
<1>4. CASE PostludeRefused(value)
  <2>1. Fails(NoMem, FALSE)
    BY <1>4 DEF PostludeRefused, PostludeCaught
  <2> QED BY <1>1, <1>3, <2>1, FailsRooted
<1>5. CASE Fails(Top.stale, FALSE)
  BY <1>1, <1>3, <1>5, FailsRooted
<1>6. ASSUME IF value \in Objects THEN Protect(ArenaRestored(Top.entry), value)
             ELSE arena' = ArenaRestored(Top.entry) /\ UNCHANGED capacity,
             frames' = Front(frames), UNCHANGED <<exc, registered, stored, view>>
      PROVE  RootInv'
  <2>1. CASE value \in Objects
    <3>1. value \in Identities /\ arena' = Append(ArenaRestored(Top.entry), value)
          /\ {value} \cap Objects \subseteq alive'
      BY <1>1, <1>2, <1>6, <2>1 DEF Identities, Protect
    <3> QED BY <1>1, <1>3, <1>6, <3>1, ImportPopsRooted
  <2>2. CASE value \notin Objects
    <3>1. NoMem \in Identities /\ arena' = ArenaRestored(Top.entry)
      BY <1>6, <2>2 DEF Identities
    <3> QED BY <1>1, <1>3, <1>6, <3>1, ImportPopsRooted
  <2> QED BY <2>1, <2>2
<1> QED BY <1>1, <1>4, <1>5, <1>6, Zenon DEF Completes

LEMMA ImportRaisesRooted ==
  ASSUME VmInv, RootInv, ImportRaises
  PROVE  RootInv'
<1>1. \E e : Fails(e, FALSE)
  BY Zenon DEF ImportRaises, PostludeRefused, PostludeCaught
<1>2. InImport /\ cells' = cells /\ (UNCHANGED alive \/ \E o \in Fresh : alive' = alive \cup {o})
  BY Zenon DEF ImportRaises
<1>3. alive \subseteq alive' /\ alive' \subseteq Objects
  BY <1>2 DEF RootInv, CellTypes, Fresh
<1> QED BY <1>1, <1>2, <1>3, FailsRooted

\* A failure that a hash finds, or another edge.
LEMMA LinksRooted ==
  ASSUME VmInv, RootInv, ImportInv, LinkEdge
  PROVE  RootInv'
<1>1. InImport /\ Top.phase = "edges" /\ Top.edge <= Len(Node.edges)
  BY Zenon DEF LinkEdge, Phase
<1>2. CASE Invalid /\ UNCHANGED <<alive, cells>>
  <2>1. \E own, refused : Fails(own, refused)
    BY <1>2, Zenon DEF Invalid
  <2>2. alive \subseteq alive' /\ alive' \subseteq Objects /\ cells' = cells
    BY <1>2 DEF RootInv, CellTypes
  <2> QED BY <1>1, <2>1, <2>2, FailsRooted
<1>3. CASE ~(Invalid /\ UNCHANGED <<alive, cells>>)
  <2> DEFINE d == Node.kind = "hash" /\ Group = 1
  <2>1. /\ SetTop([Top EXCEPT !.vals = <<>>, !.edge = Top.edge + Group])
        /\ cells' = [cells EXCEPT ![NodeObject].parts = @ \o Top.vals, ![NodeObject].default = d]
        /\ arena' = Trimmed /\ UNCHANGED <<alive, exc, registered, stored, view>>
    BY <1>3, Zenon DEF LinkEdge, Continue, SetTop
  <2> HIDE DEF d
  <2> QED BY <1>1, <2>1, LinkEdgeRooted, Zenon
<1> QED BY <1>2, <1>3, Zenon

LEMMA ImportRootedNext ==
  ASSUME VmInv, RootInv, ImportInv, ImportNext
  PROVE  RootInv'
  BY ScalarRootRooted, NewTableRooted, NewShellRooted, KeepShellRooted, DecodeEdgeRooted,
     LinksRooted, NextNodeRooted, DecodeRootRooted, ReturnRooted, ImportRaisesRooted,
     CollectRooted, Zenon DEF ImportNext

---------------------------------------------------------------------------
(* The theorems *)

LEMMA RootedInit == SafeInit => RootInv
<1> SUFFICES ASSUME SafeInit
             PROVE  RootInv
  OBVIOUS
<1> DEFINE z == ZigFrame
           e == Empty
<1>1. z.kind = "zig"
  BY DEF ZigFrame
<1> HIDE DEF z, e
<1>2. /\ frames = <<z>> /\ alive = {} /\ arena = <<>> /\ exc = Nil /\ registered = {}
      /\ stored = Nil /\ view = Nil /\ cells = [o \in Objects |-> e]
  BY DEF SafeInit, InitHeap, z, e
<1>3. Top = z /\ Len(frames) = 1
  BY <1>2 DEF Top
<1>4. HeapLive
  BY <1>2, HeapAssumption DEF HeapLive, ToSet
<1>5. CellTypes
  <2>1. Cell(e) /\ e.parts = <<>>
    BY EmptyCell DEF e
  <2>2. \A o \in Objects : cells[o] = e
    BY <1>2
  <2>3. \A o \in Objects : Cell(cells[o]) /\ cells[o].parts = <<>>
    BY <2>1, <2>2
  <2> QED BY <1>2, <2>3 DEF CellTypes
<1>6. Secured(arena, registered)
  <2>1. 1 .. 1 - 1 = {}
    OBVIOUS
  <2> QED BY <1>3, <2>1, Zenon DEF Secured
<1>7. OpRooted /\ ImportRooted
  BY <1>1, <1>3 DEF OpRooted, ImportRooted
<1> QED BY <1>4, <1>5, <1>6, <1>7 DEF RootInv

LEMMA RootedNext ==
  ASSUME VmInv, RootInv, ImportInv, [SafeNext]_vmVars
  PROVE  RootInv'
<1>1. CASE UNCHANGED vmVars
  <2>1. UNCHANGED <<frames, arena, registered, stored, cells>> /\ UNCHANGED heapVars
    BY <1>1 DEF vmVars, callVars, heapVars
  <2>2. HeapLive' /\ CellTypes'
    BY <2>1, QuietHeap
  <2>3. ReadRoot(Top, stored') = ReadRoot(Top, stored) /\ Shells(Top, cells') = Shells(Top, cells)
    BY <2>1 DEF ReadRoot, Shells
  <2> QED BY <2>1, <2>2, <2>3, RootedStays
<1> QED BY <1>1, HostRooted, OpRootedNext, ImportRootedNext, Zenon DEF SafeNext

\* Whatever a frame uses is in a root, or in an object that is.
\* src/shim.c, mrz_protect_result, mrz_artifact_materialize; src/arena.zig.
THEOREM RootInvHolds == SafeSpec => []RootInv
<1>1. SafeInit => RootInv
  BY RootedInit
<1>2. VmInv /\ ImportInv /\ RootInv /\ [SafeNext]_vmVars => RootInv'
  BY RootedNext
<1> QED BY <1>1, <1>2, VmInvHolds, ImportInvHolds, PTL DEF SafeSpec

LEMMA AnchoredAlive ==
  ASSUME HeapLive, NEW f, NEW roots, roots \cap Objects \subseteq alive, arena \in Seq(Identities),
         f.entry \in 0 .. Len(arena), Anchored(f, arena, registered, roots)
  PROVE  ({f.arg, f.val} \cup Kept(f)) \cap Objects \subseteq alive
<1>1. Under(arena, f.entry) \subseteq ToSet(arena)
  BY Slots
<1> QED BY <1>1 DEF Anchored, HeapLive

\* What one frame uses.
Uses(f) ==
  IF f.kind = "op" THEN {f.arg, f.val} \cup Kept(f)
  ELSE IF f.kind = "import" THEN {f.table} \cup ToSet(f.vals)
  ELSE {}

LEMMA UsesAlive ==
  ASSUME VmInv, RootInv, NEW i \in 1 .. Len(frames)
  PROVE  Uses(frames[i]) \cap Objects \subseteq alive
<1> DEFINE f == frames[i]
           n == Len(frames)
<1>1. /\ n \in Nat /\ Len(arena) \in Nat /\ arena \in Seq(Identities)
      /\ Low(f) \in Nat /\ Low(f) <= Len(arena)
  BY FrameLows
<1>2. HeapLive /\ CellTypes
  BY DEF RootInv
<1>3. CASE f.kind = "op"
  <2>1. f.entry \in 0 .. Len(arena)
    BY <1>1, <1>3 DEF Low
  <2>2. \E roots : roots \cap Objects \subseteq alive /\ Anchored(f, arena, registered, roots)
    <3>1. CASE i = n
      <4>1. Anchored(f, arena, registered, ToSet(arena) \cup ReadRoot(f, stored))
        BY <1>3, <3>1 DEF RootInv, OpRooted, Top
      <4>2. (ToSet(arena) \cup ReadRoot(f, stored)) \cap Objects \subseteq alive
        BY <1>2 DEF HeapLive, ReadRoot
      <4> QED BY <4>1, <4>2
    <3>2. CASE i # n
      <4>1. i \in 1 .. n - 1 /\ i + 1 \in 1 .. n
        BY <1>1, <3>2
      <4> DEFINE m == Low(frames[i + 1])
      <4>2. Anchored(f, arena, registered, Under(arena, m))
        BY <1>3, <4>1 DEF RootInv, Secured
      <4>3. m \in 0 .. Len(arena)
        BY <4>1, FrameLows
      <4> HIDE DEF m
      <4>4. Under(arena, m) \cap Objects \subseteq alive
        BY <1>1, <1>2, <4>3, Slots DEF HeapLive
      <4> QED BY <4>2, <4>4
    <3> QED BY <3>1, <3>2
  <2>3. ({f.arg, f.val} \cup Kept(f)) \cap Objects \subseteq alive
    BY <1>1, <1>2, <2>1, <2>2, AnchoredAlive
  <2> QED BY <1>3, <2>3 DEF Uses
<1>4. CASE f.kind = "import"
  <2>1. i = n
    <3>1. i # n => Waits(f)
      BY <1>1, StackFacts DEF VmInv
    <3> QED BY <1>4, <3>1 DEF Waits
  <2>2. Building(f, arena, Shells(f, cells))
    BY <1>4, <2>1 DEF RootInv, ImportRooted, Top
  <2>3. /\ {f.table} \cap Objects \subseteq ToSet(arena)
        /\ ToSet(f.vals) \cap Objects \subseteq ToSet(arena) \cup ToSet(Shells(f, cells))
    BY <2>2, Zenon DEF Building
  <2>4. ToSet(Shells(f, cells)) \cap Objects \subseteq alive
    <3>1. CASE f.table \in Objects
      BY <1>2, <2>3, <3>1 DEF HeapLive, Shells
    <3>2. CASE f.table \notin Objects
      BY <3>2 DEF Shells, ToSet
    <3> QED BY <3>1, <3>2
  <2> QED BY <1>2, <1>4, <2>3, <2>4 DEF HeapLive, Uses
<1>5. CASE f.kind \notin {"op", "import"}
  BY <1>5 DEF Uses
<1> QED BY <1>3, <1>4, <1>5

\* No collection frees what Zig, a C body, the registry, the error view or an
\* unfinished graph refers to: the slots that mrb_protect_error, a scope and an
\* import leave are enough, whatever runs in between.  src/shim.c,
\* mrz_gc_arena_restore and mrz_artifact_trim_arena; src/arena.zig.
THEOREM NoDanglingHolds == SafeSpec => []NoDangling
<1>1. VmInv /\ RootInv => NoDangling
  <2> SUFFICES ASSUME VmInv, RootInv
               PROVE  NoDangling
    OBVIOUS
  <2>1. HeapLive
    BY DEF RootInv
  <2>2. InUse \cap Objects \subseteq alive
    <3>1. InUse = UNION {Uses(f) : f \in ToSet(frames)}
      BY Zenon DEF InUse, Uses, Kept
    <3>2. \A f \in ToSet(frames) : \E i \in 1 .. Len(frames) : f = frames[i]
      BY DEF VmInv, FrameInv, FrameTypes, ToSet
    <3>3. \A f \in ToSet(frames) : Uses(f) \cap Objects \subseteq alive
      BY <3>2, UsesAlive
    <3> QED BY <3>1, <3>3, Zenon
  <2>3. ASSUME NEW h \in Handles, handles[h] \in Objects
        PROVE  handles[h] \in alive
    BY <2>1, <2>3, HandlesRegistered DEF HeapLive
  <2>4. (UNION {ToSet(cells[o].parts) : o \in alive}) \cap Objects \subseteq alive
    BY <2>1 DEF HeapLive
  <2> QED BY <2>1, <2>2, <2>3, <2>4 DEF NoDangling, HeapLive
<1> QED BY <1>1, VmInvHolds, RootInvHolds, PTL

---------------------------------------------------------------------------
(* What an import has built *)

\* Decoding ref gave w, when the table lists these shells.
Denotes(ref, w, shells, in) ==
  IF ref[1] = "node" THEN w = shells[ref[2]]
  ELSE IF ref[1] = "boxed" THEN w \in Objects /\ in[w].kind = "boxed" /\ in[w].bytes = ref[2]
  ELSE w = ref

\* The object o of a node has its first k references.
Filled(node, o, k, shells, in) ==
  /\ o \in Objects
  /\ in[o].kind = node.kind /\ in[o].bytes = node.bytes
  /\ in[o].default = IF k = Len(node.edges) THEN node.default ELSE FALSE
  /\ k \in 0 .. Len(node.edges) /\ Len(in[o].parts) = k
  /\ \A i \in 1 .. k : Denotes(node.edges[i], in[o].parts[i], shells, in)

\* Node n is complete; how many of its references are resolved.
Past(f, n) == f.phase = "root" \/ (f.phase = "edges" /\ n < f.node)
Resolved(f, n) ==
  IF Past(f, n) THEN Len(f.graph.nodes[n].edges)
  ELSE IF f.phase = "edges" /\ n = f.node THEN f.edge - 1
  ELSE 0

\* The table lists a different object for each node so far, filled so far.
Listed(f, shells, in) ==
  LET nodes == f.graph.nodes IN
  /\ f.table \in Objects /\ in[f.table].kind = "table"
  /\ Len(shells) = IF f.phase = "shell" THEN f.node - 1 ELSE Len(nodes)
  /\ \A m, n \in 1 .. Len(shells) : shells[m] = shells[n] => m = n
  /\ \A n \in 1 .. Len(shells) : Filled(nodes[n], shells[n], Resolved(f, n), shells, in)
  /\ \A n \in 1 .. Len(shells) : Past(f, n) => in[shells[n]].frozen = nodes[n].frozen

\* What the values at hand are.
AtHand(f, shells, in) ==
  LET nodes == f.graph.nodes IN
  /\ f.phase = "shell" /\ f.vals # <<>> =>
       /\ \A n \in 1 .. Len(shells) : shells[n] # f.vals[1]
       /\ Filled(nodes[f.node], f.vals[1], 0, shells, in)
  /\ f.phase = "edges" =>
       \A i \in 1 .. Len(f.vals) :
         Denotes(nodes[f.node].edges[f.edge + (i - 1)], f.vals[i], shells, in)
  /\ f.phase = "root" /\ f.vals # <<>> => Denotes(f.graph.root, f.vals[1], shells, in)

Built(f, shells, in) ==
  /\ f.phase # "table" /\ f.graph.nodes # <<>> => Listed(f, shells, in)
  /\ AtHand(f, shells, in)

BuiltInv == Top.kind = "import" => Built(Top, Shells(Top, cells), cells)

---------------------------------------------------------------------------
(* What other steps leave as it is *)

\* Kinds and bytes are never changed.
SameKinds(live, in, out) == \A o \in live : out[o].kind = in[o].kind /\ out[o].bytes = in[o].bytes

LEMMA DenotesStill ==
  ASSUME NEW ref, NEW w, NEW shells, NEW in, NEW out, NEW live, SameKinds(live, in, out),
         {w} \cap Objects \subseteq live, Denotes(ref, w, shells, in)
  PROVE  Denotes(ref, w, shells, out)
BY DEF Denotes, SameKinds

LEMMA FilledStill ==
  ASSUME NEW node, NEW o, NEW k, NEW shells, NEW in, NEW out, NEW live,
         SameKinds(live, in, out), out[o] = in[o], in[o].parts \in Seq(ToSet(in[o].parts)),
         ToSet(in[o].parts) \cap Objects \subseteq live, Filled(node, o, k, shells, in)
  PROVE  Filled(node, o, k, shells, out)
<1> DEFINE p == in[o].parts
<1>1. p \in Seq(ToSet(p)) /\ Len(p) = k /\ ToSet(p) \cap Objects \subseteq live
  BY DEF Filled
<1>2. \A i \in 1 .. k : Denotes(node.edges[i], p[i], shells, in)
  BY DEF Filled
<1>3. \A i \in 1 .. k : {p[i]} \cap Objects \subseteq live
  <2> HIDE DEF p
  <2> QED BY <1>1 DEF ToSet
<1> HIDE DEF p
<1>4. \A i \in 1 .. k : Denotes(node.edges[i], p[i], shells, out)
  BY <1>2, <1>3, DenotesStill
<1>5. \A i \in 1 .. k : Denotes(node.edges[i], out[o].parts[i], shells, out)
  BY <1>4 DEF p
<1> QED BY <1>5, Zenon DEF Filled

\* Without references it does not matter what the table lists.
LEMMA FilledEmpty ==
  ASSUME NEW node, NEW o, NEW shells, NEW more, NEW in, NEW out,
         Filled(node, o, 0, shells, in), out[o] = in[o]
  PROVE  Filled(node, o, 0, more, out)
<1>1. 1 .. 0 = {}
  OBVIOUS
<1> QED BY <1>1 DEF Filled

\* The contents of what is alive stay.
Untouched(live, in, out) ==
  /\ \A o \in live : out[o] = in[o]
  /\ \A o \in live : /\ in[o].parts \in Seq(ToSet(in[o].parts))
                     /\ ToSet(in[o].parts) \cap Objects \subseteq live

LEMMA ListedStill ==
  ASSUME NEW f, NEW g, NEW shells, NEW in, NEW out, NEW live, Listed(f, shells, in),
         Untouched(live, in, out), f.table \in live, shells \in Seq(ToSet(shells)),
         ToSet(shells) \cap Objects \subseteq live,
         g.table = f.table, g.graph = f.graph, g.phase = f.phase, g.node = f.node, g.edge = f.edge
  PROVE  Listed(g, shells, out)
<1> DEFINE nodes == f.graph.nodes
<1>1. SameKinds(live, in, out)
  BY DEF Untouched, SameKinds
<1>2. \A n \in 1 .. Len(shells) : shells[n] \in live
  <2> SUFFICES ASSUME NEW n \in 1 .. Len(shells)
               PROVE  shells[n] \in live
    OBVIOUS
  <2>1. shells[n] \in ToSet(shells)
    BY DEF ToSet
  <2>2. Filled(nodes[n], shells[n], Resolved(f, n), shells, in)
    BY DEF Listed
  <2> QED BY <2>1, <2>2 DEF Filled
<1>3. \A n : Resolved(g, n) = Resolved(f, n) /\ (Past(g, n) <=> Past(f, n))
  BY DEF Resolved, Past
<1>4. ASSUME NEW n \in 1 .. Len(shells)
      PROVE  Filled(nodes[n], shells[n], Resolved(f, n), shells, out)
  <2> DEFINE o == shells[n]
             k == Resolved(f, n)
             v == nodes[n]
  <2>1. Filled(v, o, k, shells, in)
    BY DEF Listed
  <2>2. /\ out[o] = in[o] /\ in[o].parts \in Seq(ToSet(in[o].parts))
        /\ ToSet(in[o].parts) \cap Objects \subseteq live
    BY <1>2 DEF Untouched
  <2> HIDE DEF o, k, v
  <2>3. Filled(v, o, k, shells, out)
    BY <1>1, <2>1, <2>2, FilledStill
  <2> QED BY <2>3 DEF o, k, v
<1>5. \A n \in 1 .. Len(shells) : Past(g, n) => out[shells[n]].frozen = nodes[n].frozen
  <2>1. \A n \in 1 .. Len(shells) : Past(f, n) => in[shells[n]].frozen = nodes[n].frozen
    BY Zenon DEF Listed
  <2>2. \A n \in 1 .. Len(shells) : out[shells[n]] = in[shells[n]]
    BY <1>2 DEF Untouched
  <2> QED BY <1>3, <2>1, <2>2
<1>6. out[f.table] = in[f.table]
  BY DEF Untouched
<1>7. /\ f.table \in Objects /\ in[f.table].kind = "table"
      /\ Len(shells) = IF f.phase = "shell" THEN f.node - 1 ELSE Len(nodes)
      /\ \A m, n \in 1 .. Len(shells) : shells[m] = shells[n] => m = n
  BY Zenon DEF Listed
<1>8. \A n \in 1 .. Len(shells) : Filled(g.graph.nodes[n], shells[n], Resolved(g, n), shells, out)
  BY <1>3, <1>4
<1> QED BY <1>5, <1>6, <1>7, <1>8, Zenon DEF Listed

---------------------------------------------------------------------------
(* The frame that runs *)

LEMMA BuiltFrom ==
  ASSUME VmInv, NEW g, SetTop(g), Built(g, Shells(g, cells'), cells')
  PROVE  BuiltInv'
<1>1. Top' = g
  BY TopAfter
<1> QED BY <1>1 DEF BuiltInv

LEMMA BuiltPhases ==
  ASSUME BuiltInv, InImport
  PROVE  LET nodes == Top.graph.nodes
             shells == Shells(Top, cells)
         IN
         /\ Top.phase # "table" /\ nodes # <<>> => Listed(Top, shells, cells)
         /\ AtHand(Top, shells, cells)
<1>1. Built(Top, Shells(Top, cells), cells)
  BY DEF BuiltInv, InImport
<1> QED BY <1>1 DEF Built

\* The contents of live objects do not change, nor does the table, and other values
\* may be at hand.
LEMMA ValuesBuilt ==
  ASSUME VmInv, RootInv, ImportInv, BuiltInv, InImport,
         NEW l, SetTop([Top EXCEPT !.vals = l]),
         \A p \in alive : cells'[p] = cells[p],
         \A f : f.table = Top.table => Shells(f, cells') = Shells(Top, cells),
         \A f : f.vals = l /\ f.graph = Top.graph /\ f.phase = Top.phase
                /\ f.node = Top.node /\ f.edge = Top.edge
                => AtHand(f, Shells(Top, cells), cells')
  PROVE  BuiltInv'
<1> DEFINE g == [Top EXCEPT !.vals = l]
           shells == Shells(Top, cells)
<1>1. /\ Top \in ImportFrames({Top.vals})
      /\ {Top.table} \cap Objects \subseteq alive /\ ToSet(shells) \cap Objects \subseteq alive
      /\ shells \in Seq(ToSet(shells))
  BY BuildingFacts, Zenon
<1>2. SetTop(g)
  BY Zenon
<1>3. /\ g.graph = Top.graph /\ g.phase = Top.phase
      /\ g.table = Top.table /\ g.vals = l /\ g.edge = Top.edge /\ g.node = Top.node
  BY <1>1, Zenon DEF ImportFrames
<1>4. Untouched(alive, cells, cells')
  <2>1. \A p \in alive : cells'[p] = cells[p]
    BY Zenon
  <2>2. \A p \in alive : /\ cells[p].parts \in Seq(ToSet(cells[p].parts))
                         /\ ToSet(cells[p].parts) \cap Objects \subseteq alive
    BY Zenon DEF RootInv, HeapLive, CellTypes, Cell
  <2> QED BY <2>1, <2>2, Zenon DEF Untouched
<1>5. Shells(g, cells') = shells
  BY <1>3, Zenon
<1>6. AtHand(g, shells, cells')
  BY <1>3, Zenon
<1>7. g.phase # "table" /\ g.graph.nodes # <<>> => Listed(g, shells, cells')
  <2> SUFFICES ASSUME g.phase # "table", g.graph.nodes # <<>>
               PROVE  Listed(g, shells, cells')
    OBVIOUS
  <2> HIDE DEF g
  <2>1. Listed(Top, shells, cells)
    BY <1>3, BuiltPhases, Zenon
  <2>2. Top.table \in alive
    BY <1>1, <2>1 DEF Listed
  <2> HIDE DEF shells
  <2> QED BY <1>1, <1>3, <1>4, <2>1, <2>2, ListedStill, Zenon
<1> HIDE DEF g
<1>8. Built(g, Shells(g, cells'), cells')
  BY <1>5, <1>6, <1>7, Zenon DEF Built
<1> QED BY <1>2, <1>8, BuiltFrom, Zenon

\* What an allocation leaves.
LEMMA AllocationKeeps ==
  ASSUME VmInv, RootInv, ImportInv, InImport, NEW o, NEW c, Allocate(o, c), Cell(c), c.parts = <<>>,
         UNCHANGED <<exc, registered, stored, view>>
  PROVE  /\ \A p \in alive : cells'[p] = cells[p]
         /\ \A f : f.table = Top.table => Shells(f, cells') = Shells(Top, cells)
         /\ o \in Objects /\ o \notin alive /\ cells'[o] = c
<1>1. /\ o \in Objects /\ o \notin alive /\ \A p \in Objects : p # o => cells'[p] = cells[p]
  BY HeapAllocates DEF RootInv
<1>2. \A f : f.table = Top.table => Shells(f, cells') = Shells(Top, cells)
  BY ImportAllocation
<1>3. cells'[o] = c /\ alive \subseteq Objects
  BY <1>1 DEF Allocate, RootInv, CellTypes
<1> QED BY <1>1, <1>2, <1>3

LEMMA ScalarRootBuilt ==
  ASSUME VmInv, RootInv, ImportInv, ScalarRoot
  PROVE  BuiltInv'
<1> DEFINE p == "root"
           g == [Top EXCEPT !.phase = p]
<1>1. InImport /\ Top.phase = "table" /\ Top.graph.nodes = <<>> /\ SetTop(g)
  BY Zenon DEF ScalarRoot, Phase, Continue, SetTop
<1>2. Top \in ImportFrames({Top.vals}) /\ Top.vals = <<>>
  BY <1>1, BuildingFacts, BuildingPhases
<1>3. g.graph = Top.graph /\ g.phase = p /\ g.vals = Top.vals
  <2> HIDE DEF p
  <2> QED BY <1>2, Zenon DEF ImportFrames
<1> HIDE DEF g
<1>4. Built(g, Shells(g, cells'), cells')
  BY <1>1, <1>2, <1>3, Zenon DEF Built, AtHand
<1> QED BY <1>1, <1>4, BuiltFrom, Zenon

LEMMA NewTableBuilt ==
  ASSUME VmInv, RootInv, ImportInv, NewTable
  PROVE  BuiltInv'
<1> DEFINE k == "table"
           c == [Empty EXCEPT !.kind = k]
<1>1. PICK o \in Objects : /\ Allocate(o, c)
                           /\ SetTop([Top EXCEPT !.phase = "shell", !.table = o])
  BY Zenon DEF NewTable, Continue, SetTop
<1>2. InImport /\ UNCHANGED <<exc, registered, stored, view>> /\ Top.phase = "table"
  BY Zenon DEF NewTable, Phase
<1> DEFINE p == "shell"
           g == [Top EXCEPT !.phase = p, !.table = o]
<1>3. Allocate(o, c) /\ Cell(c) /\ c.parts = <<>>
  BY <1>1, NewCell, Zenon
<1>4. c.kind = k
  <2> HIDE DEF k
  <2> QED BY DEF Empty
<1> HIDE DEF c
<1>5. SetTop(g)
  BY <1>1, Zenon
<1>6. /\ Top \in ImportFrames({Top.vals}) /\ Top.vals = <<>> /\ Top.node = 1
  BY <1>2, BuildingFacts, BuildingPhases
<1>7. /\ g.graph = Top.graph /\ g.phase = p
      /\ g.table = o /\ g.vals = Top.vals /\ g.edge = Top.edge /\ g.node = Top.node
  <2> HIDE DEF p
  <2> QED BY <1>6, Zenon DEF ImportFrames
<1> HIDE DEF g
<1>8. /\ o \in Objects /\ cells'[o] = c /\ Shells(g, cells') = <<>>
  BY <1>2, <1>3, <1>7, ImportAllocation, AllocationKeeps
<1>9. Listed(g, <<>>, cells')
  BY <1>4, <1>6, <1>7, <1>8 DEF Listed
<1>10. AtHand(g, <<>>, cells')
  BY <1>6, <1>7 DEF AtHand
<1>11. Built(g, Shells(g, cells'), cells')
  BY <1>8, <1>9, <1>10, Zenon DEF Built
<1> QED BY <1>5, <1>11, BuiltFrom, Zenon

---------------------------------------------------------------------------
(* Nodes *)

\* What a valid node is, and where its default is.
LEMMA NodeShape ==
  ASSUME NEW g \in Graphs, GraphValid(g), NEW n \in 1 .. Len(g.nodes)
  PROVE  LET node == g.nodes[n] IN
         /\ node.kind \in {"string", "array", "hash"} /\ node.default \in BOOLEAN
         /\ node.kind # "hash" => ~node.default /\ PairEdges(node) = 0
         /\ node.kind = "hash" =>
              PairEdges(node) = IF node.default THEN Len(node.edges) - 1 ELSE Len(node.edges)
         /\ node.default => Len(node.edges) >= 1
<1> DEFINE node == g.nodes[n]
<1>1. /\ n \in DOMAIN g.nodes /\ Len(node.edges) \in Nat /\ PairEdges(node) \in Nat
  BY PairFacts
<1>2. NodeValid(node) /\ node.default \in BOOLEAN
  BY <1>1, GraphAssumption DEF GraphValid
<1> HIDE DEF node
<1>3. node.kind \in {"string", "array", "hash"} /\ (node.kind # "hash" => ~node.default)
  BY <1>2 DEF NodeValid
<1>4. node.kind # "hash" => PairEdges(node) = 0
  BY DEF PairEdges
<1>5. node.kind = "hash" =>
        PairEdges(node) = IF node.default THEN Len(node.edges) - 1 ELSE Len(node.edges)
  BY <1>1 DEF PairEdges, Defaults
<1>6. node.default => Len(node.edges) >= 1
  <2> DEFINE k == PairEdges(node)
             m == Len(node.edges)
  <2>1. node.default => k = m - 1 /\ k \in Nat /\ m \in Nat
    BY <1>1, <1>3, <1>5
  <2> HIDE DEF k, m
  <2>2. node.default => m >= 1
    BY <2>1
  <2> QED BY <2>2 DEF m
<1> QED BY <1>2, <1>3, <1>4, <1>5, <1>6 DEF node

\* The contents of a new object, with neither references nor flags that matter.
Blank(c, k, b) == Cell(c) /\ c.parts = <<>> /\ c.kind = k /\ c.bytes = b /\ c.default = FALSE

LEMMA BlankCell ==
  ASSUME NEW k, NEW b, NEW z
  PROVE  Blank([Empty EXCEPT !.kind = k, !.bytes = b], k, b) /\ Blank(NewContents(k, b, z), k, b)
<1> DEFINE e == Empty
           none == <<>>
<1>1. e \in [kind: {"opaque"}, bytes: {0}, parts: {none}, frozen: {FALSE}, default: {FALSE}]
  BY DEF Empty
<1> HIDE DEF e, none
<1>2. /\ [e EXCEPT !.kind = k, !.bytes = b] \in
           [kind: {k}, bytes: {b}, parts: {none}, frozen: {FALSE}, default: {FALSE}]
      /\ [e EXCEPT !.kind = k, !.bytes = b, !.frozen = z] \in
           [kind: {k}, bytes: {b}, parts: {none}, frozen: {z}, default: {FALSE}]
  BY <1>1, Zenon
<1>3. ASSUME NEW c, NEW y, c \in [kind: {k}, bytes: {b}, parts: {none}, frozen: {y}, default: {FALSE}]
      PROVE  c.kind = k /\ c.bytes = b /\ c.default = FALSE
  BY <1>3, Zenon
<1>4. /\ Cell([e EXCEPT !.kind = k, !.bytes = b]) /\ [e EXCEPT !.kind = k, !.bytes = b].parts = <<>>
      /\ Cell(NewContents(k, b, z)) /\ NewContents(k, b, z).parts = <<>>
  BY NewCell, Zenon DEF e
<1>5. Blank([e EXCEPT !.kind = k, !.bytes = b], k, b)
  BY <1>2, <1>3, <1>4, Zenon DEF Blank
<1>6. Blank([e EXCEPT !.kind = k, !.bytes = b, !.frozen = z], k, b)
  <2>1. NewContents(k, b, z) = [e EXCEPT !.kind = k, !.bytes = b, !.frozen = z]
    BY Zenon DEF e, NewContents
  <2> QED BY <1>2, <1>3, <1>4, <2>1, Zenon DEF Blank
<1> QED BY <1>5, <1>6, Zenon DEF e, NewContents

---------------------------------------------------------------------------
(* Shells and references *)

LEMMA NewShellBuilt ==
  ASSUME VmInv, RootInv, ImportInv, BuiltInv, NewShell
  PROVE  BuiltInv'
<1> DEFINE k == Node.kind
           b == Node.bytes
           shells == Shells(Top, cells)
<1>1. PICK o, c, z : /\ c = NewContents(k, b, z) /\ Allocate(o, c)
                     /\ SetTop([Top EXCEPT !.vals = <<o>>])
  BY Zenon DEF NewShell, Continue, SetTop, NewContents
<1>2. InImport /\ UNCHANGED <<exc, registered, stored, view>> /\ Top.phase = "shell"
  BY Zenon DEF NewShell, Phase
<1>3. Allocate(o, c) /\ Blank(c, k, b)
  <2>1. c = NewContents(k, b, z) /\ Allocate(o, c)
    BY <1>1, Zenon
  <2> HIDE DEF k, b
  <2> QED BY <2>1, BlankCell, Zenon
<1>4. /\ \A p \in alive : cells'[p] = cells[p]
      /\ \A f : f.table = Top.table => Shells(f, cells') = shells
      /\ o \in Objects /\ o \notin alive /\ cells'[o] = c
  BY <1>2, <1>3, AllocationKeeps DEF Blank
<1> DEFINE l == <<o>>
           node == Top.graph.nodes[Top.node]
<1>5. SetTop([Top EXCEPT !.vals = l])
  BY <1>1, Zenon
<1>6. l[1] = o
  OBVIOUS
<1>7. Filled(node, o, 0, shells, cells')
  <2>1. /\ Len(node.edges) \in Nat /\ node.default \in BOOLEAN
        /\ node.default => Len(node.edges) >= 1
    <3>1. Top.graph \in Graphs /\ GraphValid(Top.graph) /\ Top.node \in 1 .. Len(Top.graph.nodes)
      BY <1>2, BuildingFacts, BuildingPhases
    <3> QED BY <3>1, PairFacts, NodeShape
  <2>2. k = node.kind /\ b = node.bytes
    BY DEF Node
  <2> HIDE DEF node, k, b
  <2>3. 0 \in 0 .. Len(node.edges) /\ 1 .. 0 = {} /\ Len(<<>>) = 0
    BY <2>1
  <2>4. c.default = IF 0 = Len(node.edges) THEN node.default ELSE FALSE
    <3>1. node.default = FALSE \/ 0 # Len(node.edges)
      BY <2>1
    <3> QED BY <1>3, <3>1, Zenon DEF Blank
  <2> QED BY <1>3, <1>4, <2>2, <2>3, <2>4 DEF Filled, Blank
<1>8. \A n \in 1 .. Len(shells) : shells[n] # o
  <2>1. ToSet(shells) \cap Objects \subseteq alive /\ shells \in Seq(ToSet(shells))
    BY <1>2, BuildingFacts
  <2> HIDE DEF shells
  <2> QED BY <1>4, <2>1 DEF ToSet
<1> HIDE DEF l, shells
<1>9. \A f : f.vals = l /\ f.graph = Top.graph /\ f.phase = Top.phase
             /\ f.node = Top.node /\ f.edge = Top.edge
             => AtHand(f, shells, cells')
  BY <1>2, <1>6, <1>7, <1>8 DEF AtHand
<1> QED BY <1>2, <1>4, <1>5, <1>9, ValuesBuilt, Zenon DEF shells

\* A reference that was decoded is denoted.
LEMMA DecodesBuilt ==
  ASSUME VmInv, RootInv, ImportInv, InImport, Top.phase \in {"edges", "root"},
         NEW ref, ref \in References(Top.graph), RefValid(Top.graph, ref),
         NEW v, Decoded(ref, v)
  PROVE  /\ \A p \in alive : cells'[p] = cells[p]
         /\ \A f : f.table = Top.table => Shells(f, cells') = Shells(Top, cells)
         /\ Denotes(ref, v, Shells(Top, cells), cells')
<1> DEFINE shells == Shells(Top, cells)
<1>1. ASSUME UNCHANGED heapVars
      PROVE  /\ \A p \in alive : cells'[p] = cells[p]
             /\ \A f : f.table = Top.table => Shells(f, cells') = shells
  BY <1>1 DEF heapVars, Shells
<1>2. CASE ref[1] = "node" /\ v = NodeValue(ref[2]) /\ UNCHANGED heapVars
  <2> DEFINE nodes == Top.graph.nodes
  <2>1. ref[2] \in DOMAIN nodes
    BY <1>2 DEF RefValid
  <2>2. Top.graph \in Graphs
    BY BuildingFacts
  <2>3. nodes # <<>>
    BY <2>1, <2>2, GraphAssumption
  <2>4. Top.table \in Objects
    BY <2>3, BuildingPhases
  <2>5. v = shells[ref[2]]
    BY <1>2, <2>4 DEF NodeValue, Table, Shells
  <2> HIDE DEF shells
  <2>6. Denotes(ref, v, shells, cells')
    BY <1>2, <2>5 DEF Denotes
  <2> QED BY <1>1, <1>2, <2>6 DEF shells
<1>3. CASE ref[1] = "boxed" /\ UNCHANGED <<exc, registered, stored, view>>
           /\ Allocate(v, [Empty EXCEPT !.kind = "boxed", !.bytes = ref[2]])
  <2> DEFINE b == ref[2]
             k == "boxed"
             c == [Empty EXCEPT !.kind = k, !.bytes = b]
  <2>1. Allocate(v, c) /\ UNCHANGED <<exc, registered, stored, view>>
    BY <1>3, Zenon
  <2>2. Blank(c, k, b)
    <3> HIDE DEF b, k
    <3> QED BY BlankCell, Zenon
  <2> HIDE DEF c
  <2>3. /\ \A p \in alive : cells'[p] = cells[p]
        /\ \A f : f.table = Top.table => Shells(f, cells') = shells
        /\ v \in Objects /\ cells'[v] = c
    BY <2>1, <2>2, AllocationKeeps DEF Blank
  <2> HIDE DEF shells
  <2>4. Denotes(ref, v, shells, cells')
    BY <1>3, <2>2, <2>3 DEF Denotes, Blank
  <2> QED BY <2>3, <2>4 DEF shells
<1>4. CASE ref[1] \notin {"node", "boxed"} /\ v = ref /\ UNCHANGED heapVars
  <2>1. Denotes(ref, v, shells, cells')
    BY <1>4 DEF Denotes
  <2> QED BY <1>1, <1>4, <2>1
<1> QED BY <1>2, <1>3, <1>4, Zenon DEF Decoded

LEMMA DecodeRootBuilt ==
  ASSUME VmInv, RootInv, ImportInv, BuiltInv, DecodeRoot
  PROVE  BuiltInv'
<1> DEFINE ref == Top.graph.root
           shells == Shells(Top, cells)
<1>1. PICK v : Decoded(ref, v) /\ SetTop([Top EXCEPT !.vals = <<v>>])
  BY Zenon DEF DecodeRoot, Continue, SetTop
<1>2. InImport /\ Top.phase = "root" /\ Top.phase \in {"edges", "root"}
  <2>1. InImport /\ Top.phase = "root"
    BY Zenon DEF DecodeRoot, Phase
  <2> QED BY <2>1
<1>3. ref \in References(Top.graph) /\ RefValid(Top.graph, ref)
  BY <1>2, BuildingFacts DEF References, GraphValid
<1>4. Decoded(ref, v)
  BY <1>1, Zenon
<1> HIDE DEF ref
<1>5. /\ \A p \in alive : cells'[p] = cells[p]
      /\ \A f : f.table = Top.table => Shells(f, cells') = shells
      /\ Denotes(ref, v, shells, cells')
  BY <1>2, <1>3, <1>4, DecodesBuilt, Zenon
<1> DEFINE l == <<v>>
<1>6. SetTop([Top EXCEPT !.vals = l]) /\ l[1] = v
  BY <1>1, Zenon
<1> HIDE DEF l, shells
<1>7. \A f : f.vals = l /\ f.graph = Top.graph /\ f.phase = Top.phase
             /\ f.node = Top.node /\ f.edge = Top.edge
             => AtHand(f, shells, cells')
  BY <1>2, <1>5, <1>6 DEF AtHand, ref
<1> QED BY <1>2, <1>5, <1>6, <1>7, ValuesBuilt, Zenon DEF shells

LEMMA DecodeEdgeBuilt ==
  ASSUME VmInv, RootInv, ImportInv, BuiltInv, DecodeEdge
  PROVE  BuiltInv'
<1> DEFINE graph == Top.graph
           ref == Node.edges[Top.edge + Len(Top.vals)]
           vals == Top.vals
           shells == Shells(Top, cells)
           l(v) == Append(vals, v)
<1>1. PICK v : Decoded(ref, v) /\ SetTop([Top EXCEPT !.vals = Append(vals, v)])
  BY Zenon DEF DecodeEdge, Continue, SetTop
<1>2. InImport /\ Top.phase = "edges" /\ Top.edge <= Len(Node.edges) /\ Len(Top.vals) < Group
  BY Zenon DEF DecodeEdge, Phase
<1>3. /\ vals \in Seq(ToSet(vals)) /\ Top.edge \in Nat /\ Node = graph.nodes[Top.node]
      /\ ToSet(vals) \cap Objects \subseteq alive
  BY <1>2, BuildingFacts DEF Node
<1>4. ref \in References(graph) /\ RefValid(graph, ref) /\ Top.phase \in {"edges", "root"}
  BY <1>2, EdgeToDecode
<1>5. Decoded(ref, v) /\ SetTop([Top EXCEPT !.vals = Append(vals, v)])
  BY <1>1, Zenon
<1>6. Node.edges[Top.edge + ((Len(vals) + 1) - 1)] = ref
  <2> DEFINE n == Len(vals)
             e == Top.edge
  <2>1. n \in Nat /\ e \in Nat
    BY <1>3
  <2> HIDE DEF n, e
  <2>2. e + ((n + 1) - 1) = e + n
    BY <2>1
  <2> QED BY <2>2 DEF n, e
<1> HIDE DEF ref
<1>7. /\ \A p \in alive : cells'[p] = cells[p]
      /\ \A f : f.table = Top.table => Shells(f, cells') = shells
      /\ Denotes(ref, v, shells, cells')
  BY <1>2, <1>4, <1>5, DecodesBuilt, Zenon
<1> DEFINE all == Append(vals, v)
           edge(i) == graph.nodes[Top.node].edges[Top.edge + (i - 1)]
<1>8. Len(all) = Len(vals) + 1 /\ all[Len(vals) + 1] = v /\ Len(vals) \in Nat
      /\ \A i \in 1 .. Len(vals) : all[i] = vals[i] /\ vals[i] \in ToSet(vals)
  BY <1>3 DEF ToSet
<1>9. \A i \in 1 .. Len(vals) : Denotes(edge(i), vals[i], shells, cells)
  <2>1. AtHand(Top, shells, cells)
    BY <1>2, BuiltPhases
  <2> QED BY <1>2, <2>1 DEF AtHand
<1>10. SameKinds(alive, cells, cells')
  BY <1>7 DEF SameKinds
<1>11. \A i \in 1 .. Len(vals) : Denotes(edge(i), vals[i], shells, cells')
  <2> SUFFICES ASSUME NEW i \in 1 .. Len(vals)
               PROVE  Denotes(edge(i), vals[i], shells, cells')
    OBVIOUS
  <2> DEFINE w == vals[i]
             d == edge(i)
  <2>1. {w} \cap Objects \subseteq alive /\ Denotes(d, w, shells, cells)
    BY <1>3, <1>8, <1>9
  <2> HIDE DEF w, d, shells
  <2>2. Denotes(d, w, shells, cells')
    BY <1>10, <2>1, DenotesStill
  <2> QED BY <2>2 DEF w, d
<1>12. Denotes(edge(Len(vals) + 1), v, shells, cells')
  BY <1>3, <1>6, <1>7
<1>13. SetTop([Top EXCEPT !.vals = all])
  BY <1>5
<1> HIDE DEF all, shells
<1>14. \A i \in 1 .. Len(all) : Denotes(edge(i), all[i], shells, cells')
  BY <1>8, <1>11, <1>12
<1>15. \A f : f.vals = all /\ f.graph = Top.graph /\ f.phase = Top.phase
              /\ f.node = Top.node /\ f.edge = Top.edge
              => AtHand(f, shells, cells')
  BY <1>2, <1>14 DEF AtHand
<1>16. InImport
  BY <1>2
<1> QED BY <1>7, <1>13, <1>15, <1>16, ValuesBuilt, Zenon DEF shells

\* What a change of contents leaves.
LEMMA RelistedKind ==
  ASSUME NEW c, Cell(c), NEW q
  PROVE  Relisted(c, q).kind = c.kind /\ Relisted(c, q).bytes = c.bytes
<1> DEFINE k == c.kind
           b == c.bytes
           l == c.parts
           z == c.frozen
           e == c.default
<1>1. c \in [kind: {k}, bytes: {b}, parts: {l}, frozen: {z}, default: {e}]
  BY DEF Cell
<1> HIDE DEF k, b, l, z, e
<1>2. Relisted(c, q) \in Contents(k, b, q, z, e)
  BY <1>1, Zenon DEF Relisted, Contents
<1>3. Relisted(c, q).kind = k /\ Relisted(c, q).bytes = b
  BY <1>2, Zenon DEF Contents
<1> QED BY <1>3, Zenon DEF k, b

LEMMA LinkedKind ==
  ASSUME NEW c, Cell(c), NEW q, NEW d
  PROVE  /\ Linked(c, q, d).kind = c.kind /\ Linked(c, q, d).bytes = c.bytes
         /\ Linked(c, q, d).default = d
<1> DEFINE k == c.kind
           b == c.bytes
           l == c.parts
           z == c.frozen
           e == c.default
<1>1. c \in [kind: {k}, bytes: {b}, parts: {l}, frozen: {z}, default: {e}]
  BY DEF Cell
<1> HIDE DEF k, b, l, z, e
<1>2. Linked(c, q, d) \in Contents(k, b, q, z, d)
  BY <1>1, Zenon DEF Linked, Contents
<1>3. Linked(c, q, d).kind = k /\ Linked(c, q, d).bytes = b /\ Linked(c, q, d).default = d
  BY <1>2, Zenon DEF Contents
<1> QED BY <1>3, Zenon DEF k, b

LEMMA LinkedCell ==
  ASSUME NEW c, Cell(c), NEW q, q \in Seq(ToSet(q)), NEW d
  PROVE  /\ Cell(Linked(c, q, d)) /\ Linked(c, q, d).parts = q
         /\ Linked(c, q, d).kind = c.kind /\ Linked(c, q, d).bytes = c.bytes
         /\ Linked(c, q, d).default = d
<1>1. Cell(Linked(c, q, d)) /\ Linked(c, q, d).parts = q
  BY ChangedCell
<1>2. /\ Linked(c, q, d).kind = c.kind /\ Linked(c, q, d).bytes = c.bytes
      /\ Linked(c, q, d).default = d
  BY LinkedKind
<1> QED BY <1>1, <1>2

LEMMA FlaggedKind ==
  ASSUME NEW c, Cell(c), NEW d
  PROVE  /\ Flagged(c, d).kind = c.kind /\ Flagged(c, d).bytes = c.bytes
         /\ Flagged(c, d).default = c.default /\ Flagged(c, d).frozen = d
<1> DEFINE k == c.kind
           b == c.bytes
           l == c.parts
           z == c.frozen
           e == c.default
<1>1. c \in [kind: {k}, bytes: {b}, parts: {l}, frozen: {z}, default: {e}]
  BY DEF Cell
<1> HIDE DEF k, b, l, z, e
<1>2. Flagged(c, d) \in Contents(k, b, l, d, e)
  BY <1>1, Zenon DEF Flagged, Contents
<1>3. /\ Flagged(c, d).kind = k /\ Flagged(c, d).bytes = b
      /\ Flagged(c, d).default = e /\ Flagged(c, d).frozen = d
  BY <1>2, Zenon DEF Contents
<1> QED BY <1>3, Zenon DEF k, b, e

\* The objects of the nodes are not the table.
LEMMA NoShellIsTable ==
  ASSUME VmInv, RootInv, ImportInv, InImport, NEW n \in 1 .. Len(Top.graph.nodes), NEW o, NEW k,
         NEW shells, Filled(Top.graph.nodes[n], o, k, shells, cells), cells[Top.table].kind = "table"
  PROVE  o # Top.table
<1>1. Top.graph \in Graphs /\ GraphValid(Top.graph)
  BY BuildingFacts
<1>2. Top.graph.nodes[n].kind \in {"string", "array", "hash"}
  BY <1>1, NodeShape
<1>3. cells[o].kind = Top.graph.nodes[n].kind
  BY DEF Filled
<1> QED BY <1>2, <1>3

LEMMA KeepShellBuilt ==
  ASSUME VmInv, RootInv, ImportInv, BuiltInv, KeepShell
  PROVE  BuiltInv'
<1> DEFINE t == Top.table
           v == Top.vals[1]
           c == cells[t]
           nodes == Top.graph.nodes
           all == Top.node = Len(Top.graph.nodes)
           m == IF all THEN 1 ELSE Top.node + 1
           p == IF all THEN "edges" ELSE Top.phase
           l == <<>>
           g == [Top EXCEPT !.vals = l, !.node = m, !.phase = p]
           shells == Shells(Top, cells)
           q == Append(c.parts, v)
           r == Relisted(c, q)
<1>1. InImport /\ Top.phase = "shell" /\ Top.vals # <<>>
  BY Zenon DEF KeepShell, Phase
<1>2. SetTop(g)
  BY Zenon DEF KeepShell, Continue, SetTop
<1>3. cells' = [cells EXCEPT ![t] = r]
  BY Zenon DEF KeepShell, Relisted
<1>4. /\ Top \in ImportFrames({Top.vals}) /\ t \in Objects /\ shells = c.parts
      /\ shells \in Seq(ToSet(shells)) /\ Len(shells) \in Nat
      /\ Top.graph \in Graphs /\ GraphValid(Top.graph)
  BY <1>1, BuildingFacts
<1>5. Cell(c) /\ DOMAIN cells = Objects
  BY <1>4 DEF RootInv, CellTypes
<1>6. Top.edge = 1 /\ Top.node \in 1 .. Len(nodes) /\ Len(nodes) \in Nat
  BY <1>1, <1>4, BuildingPhases, GraphLists
<1>7. Listed(Top, shells, cells) /\ AtHand(Top, shells, cells)
  <2>1. nodes # <<>>
    BY <1>6
  <2> QED BY <1>1, <2>1, BuiltPhases
<1>8. /\ Len(q) = Len(shells) + 1 /\ q[Len(q)] = v
      /\ \A n \in 1 .. Len(shells) : q[n] = shells[n]
  <2> HIDE DEF shells, v
  <2>1. q = Append(shells, v)
    BY <1>4
  <2> HIDE DEF q
  <2> QED BY <1>4, <2>1
<1>9. Cell(r) /\ r.parts = q /\ r.kind = c.kind
  <2>1. q \in Seq(ToSet(q))
    <3> HIDE DEF v, shells
    <3> DEFINE s == c.parts
    <3>1. s \in Seq(ToSet(s))
      BY <1>5 DEF Cell
    <3> HIDE DEF s
    <3>2. ToSet(Append(s, v)) = ToSet(s) \cup {v} /\ Append(s, v) \in Seq(ToSet(s) \cup {v})
      BY <3>1, Slots
    <3> QED BY <3>2 DEF s
  <2> HIDE DEF c, q
  <2> QED BY <1>5, <2>1, ChangedCell, RelistedKind
<1> HIDE DEF r
<1>10. cells'[t] = r /\ \A o : o # t => cells'[o] = cells[o]
  BY <1>3, <1>4, <1>5
<1>11. /\ g.graph = Top.graph /\ g.phase = p
       /\ g.table = t /\ g.vals = l /\ g.edge = Top.edge /\ g.node = m
  <2> HIDE DEF m, p, l
  <2> QED BY <1>4, Zenon DEF ImportFrames
<1> HIDE DEF g
<1>12. Shells(g, cells') = q
  BY <1>4, <1>9, <1>10, <1>11 DEF Shells
<1>13. /\ c.kind = "table" /\ Len(shells) = Top.node - 1
       /\ \A i, n \in 1 .. Len(shells) : shells[i] = shells[n] => i = n
       /\ \A n \in 1 .. Len(shells) : Filled(nodes[n], shells[n], 0, shells, cells)
  BY <1>1, <1>7 DEF Listed, Resolved, Past
<1>14. /\ \A n \in 1 .. Len(shells) : shells[n] # v
       /\ Filled(nodes[Top.node], v, 0, shells, cells)
  BY <1>1, <1>7 DEF AtHand
<1>15. Len(q) = Top.node
  <2> DEFINE i == Top.node
             k == Len(shells)
  <2>1. i \in Nat /\ k = i - 1 /\ Len(q) = k + 1
    BY <1>6, <1>8, <1>13
  <2> HIDE DEF i, k, q
  <2>2. Len(q) = i
    BY <2>1
  <2> QED BY <2>2 DEF i
<1>16. \A n \in 1 .. Len(q) : Filled(nodes[n], q[n], 0, q, cells')
  <2> SUFFICES ASSUME NEW n \in 1 .. Len(q)
               PROVE  Filled(nodes[n], q[n], 0, q, cells')
    OBVIOUS
  <2>1. Filled(nodes[n], q[n], 0, shells, cells)
    <3>1. CASE n = Len(q)
      BY <1>8, <1>14, <1>15, <3>1
    <3>2. CASE n # Len(q)
      <4>1. n \in 1 .. Len(shells)
        <5> DEFINE k == Len(shells)
        <5>1. k \in Nat /\ Len(q) = k + 1
          BY <1>4, <1>8
        <5> HIDE DEF k, q
        <5>2. n \in 1 .. k
          BY <3>2, <5>1
        <5> QED BY <5>2 DEF k
      <4> QED BY <1>8, <1>13, <4>1
    <3> QED BY <3>1, <3>2
  <2>2. n \in 1 .. Len(nodes)
    BY <1>6, <1>15
  <2> DEFINE o == q[n]
             node == nodes[n]
  <2>3. o # t
    <3>1. Filled(node, o, 0, shells, cells) /\ cells[Top.table].kind = "table"
      BY <1>13, <2>1
    <3> HIDE DEF o, shells
    <3> QED BY <1>1, <2>2, <3>1, NoShellIsTable, Zenon
  <2>4. cells'[o] = cells[o]
    BY <1>10, <2>3
  <2> HIDE DEF o, node, shells, q
  <2>5. Filled(node, o, 0, q, cells')
    BY <2>1, <2>4, FilledEmpty DEF o, node
  <2> QED BY <2>5 DEF o, node
<1>17. \A i, n \in 1 .. Len(q) : q[i] = q[n] => i = n
  <2> HIDE DEF q, shells, v
  <2> QED BY <1>4, <1>8, <1>13, <1>14
<1>18. \/ p = "shell" /\ m = Top.node + 1 /\ Top.node # Len(nodes)
       \/ p = "edges" /\ m = 1 /\ Top.node = Len(nodes)
  BY <1>1
<1> HIDE DEF p, m, q, shells, c, v
<1>19. \A n \in 1 .. Len(q) : Resolved(g, n) = 0 /\ ~Past(g, n)
  <2>1. \A n \in 1 .. Len(q) : ~(n < 1)
    BY <1>4, <1>8
  <2> QED BY <1>6, <1>11, <1>18, <2>1 DEF Resolved, Past
<1>20. Len(q) = IF g.phase = "shell" THEN g.node - 1 ELSE Len(nodes)
  <2> DEFINE i == Top.node
  <2>1. i \in Nat /\ Len(q) = i
    BY <1>6, <1>15
  <2> HIDE DEF i
  <2>2. (i + 1) - 1 = i
    BY <2>1
  <2> QED BY <1>11, <1>18, <2>1, <2>2 DEF i
<1>21. Listed(g, q, cells')
  <2>1. t \in Objects /\ cells'[t].kind = "table"
    BY <1>4, <1>9, <1>10, <1>13
  <2> QED BY <1>11, <1>16, <1>17, <1>19, <1>20, <2>1 DEF Listed
<1>22. AtHand(g, q, cells')
  <2>1. \A i \in 1 .. Len(l) : FALSE
    OBVIOUS
  <2> QED BY <1>11, <1>18, <2>1 DEF AtHand
<1>23. Built(g, Shells(g, cells'), cells')
  BY <1>12, <1>21, <1>22, Zenon DEF Built
<1> QED BY <1>2, <1>23, BuiltFrom, Zenon

---------------------------------------------------------------------------
(* The node that is filled *)

\* It is in the table like the others, with the references resolved so far.
LEMMA NodeBuilt ==
  ASSUME VmInv, RootInv, ImportInv, BuiltInv, InImport, Top.phase = "edges"
  PROVE  LET nodes == Top.graph.nodes
             shells == Shells(Top, cells)
             o == NodeObject
         IN
         /\ shells \in Seq(ToSet(shells)) /\ Len(shells) = Len(nodes) /\ Len(nodes) \in Nat
         /\ Top.node \in 1 .. Len(nodes) /\ Node = nodes[Top.node]
         /\ o = shells[Top.node] /\ o \in alive /\ o # Top.table /\ Cell(cells[o])
         /\ Top.table \in Objects /\ Listed(Top, shells, cells) /\ AtHand(Top, shells, cells)
         /\ Filled(Node, o, Top.edge - 1, shells, cells)
<1> DEFINE nodes == Top.graph.nodes
           shells == Shells(Top, cells)
           o == NodeObject
<1>1. /\ shells \in Seq(ToSet(shells)) /\ Top.table \in Objects /\ shells = cells[Top.table].parts
      /\ Top.graph \in Graphs
  BY BuildingFacts
<1>2. Len(nodes) \in Nat /\ Top.node \in 1 .. Len(nodes) /\ Node = nodes[Top.node]
  BY <1>1, BuildingPhases, GraphLists DEF Node
<1>3. o = shells[Top.node]
  BY <1>1 DEF NodeObject, Table
<1>4. Listed(Top, shells, cells) /\ AtHand(Top, shells, cells)
  <2>1. nodes # <<>>
    BY <1>2
  <2> QED BY <2>1, BuiltPhases
<1>5. Len(shells) = Len(nodes) /\ cells[Top.table].kind = "table"
  BY <1>4 DEF Listed
<1>6. Filled(Node, o, Top.edge - 1, shells, cells)
  <2>1. Resolved(Top, Top.node) = Top.edge - 1
    <3>1. ~(Top.node < Top.node)
      BY <1>2
    <3> QED BY <3>1 DEF Resolved, Past
  <2> HIDE DEF shells
  <2> QED BY <1>2, <1>3, <1>4, <1>5, <2>1 DEF Listed
<1>7. o # Top.table
  <2> HIDE DEF shells, o
  <2> QED BY <1>2, <1>5, <1>6, NoShellIsTable, Zenon
<1>8. o \in alive /\ Cell(cells[o])
  <2>1. o \in Objects
    BY <1>6 DEF Filled
  <2> QED BY <2>1, NodeFacts
<1> QED BY <1>1, <1>2, <1>3, <1>4, <1>5, <1>6, <1>7, <1>8

\* The contents of its object change, and the others stay as they are.
LEMMA OthersBuilt ==
  ASSUME VmInv, RootInv, ImportInv, BuiltInv, InImport, Top.phase = "edges",
         NEW r, cells' = [cells EXCEPT ![NodeObject] = r],
         r.kind = cells[NodeObject].kind, r.bytes = cells[NodeObject].bytes
  PROVE  LET nodes == Top.graph.nodes
             shells == Shells(Top, cells)
         IN
         /\ \A f : f.table = Top.table => Shells(f, cells') = shells
         /\ cells'[NodeObject] = r /\ cells'[Top.table].kind = "table"
         /\ SameKinds(alive, cells, cells')
         /\ \A n \in 1 .. Len(shells) : n # Top.node =>
              /\ Filled(nodes[n], shells[n], Resolved(Top, n), shells, cells')
              /\ Past(Top, n) => cells'[shells[n]].frozen = nodes[n].frozen
<1> DEFINE nodes == Top.graph.nodes
           shells == Shells(Top, cells)
           o == NodeObject
           t == Top.table
<1>1. /\ Len(shells) = Len(nodes) /\ Top.node \in 1 .. Len(nodes)
      /\ o = shells[Top.node] /\ o \in alive /\ o # t /\ t \in Objects
      /\ Listed(Top, shells, cells)
  BY NodeBuilt
<1>2. alive \subseteq Objects /\ DOMAIN cells = Objects
  BY DEF RootInv, CellTypes
<1>3. cells'[o] = r /\ \A w : w # o => cells'[w] = cells[w]
  <2> HIDE DEF o
  <2> QED BY <1>1, <1>2 DEF o
<1>4. \A f : f.table = t => Shells(f, cells') = shells
  <2> HIDE DEF o
  <2> QED BY <1>1, <1>3 DEF Shells
<1>5. SameKinds(alive, cells, cells')
  BY <1>3 DEF SameKinds
<1>6. cells'[t].kind = "table"
  BY <1>1, <1>3 DEF Listed
<1>7. ASSUME NEW n \in 1 .. Len(shells), n # Top.node
      PROVE  /\ Filled(nodes[n], shells[n], Resolved(Top, n), shells, cells')
             /\ Past(Top, n) => cells'[shells[n]].frozen = nodes[n].frozen
  <2> DEFINE w == shells[n]
             k == Resolved(Top, n)
             v == nodes[n]
  <2> HIDE DEF shells, o
  <2>1. w # o
    BY <1>1, <1>7 DEF Listed
  <2>2. cells'[w] = cells[w]
    BY <1>3, <2>1
  <2>3. Filled(v, w, k, shells, cells) /\ (Past(Top, n) => cells[w].frozen = v.frozen)
    BY <1>1 DEF Listed
  <2>4. w \in alive
    <3>1. w \in ToSet(shells) /\ w \in Objects
      BY <2>3 DEF Filled, ToSet
    <3>2. ToSet(shells) \cap Objects \subseteq alive
      BY BuildingFacts DEF shells
    <3> QED BY <3>1, <3>2
  <2>5. cells[w].parts \in Seq(ToSet(cells[w].parts)) /\ ToSet(cells[w].parts) \cap Objects \subseteq alive
    BY <1>2, <2>4 DEF RootInv, HeapLive, CellTypes, Cell
  <2> HIDE DEF w, k, v
  <2>6. Filled(v, w, k, shells, cells')
    BY <1>5, <2>2, <2>3, <2>5, FilledStill
  <2>7. Past(Top, n) => cells'[w].frozen = v.frozen
    BY <2>2, <2>3
  <2> QED BY <2>6, <2>7 DEF v, w, k
<1> QED BY <1>3, <1>4, <1>5, <1>6, <1>7

LEMMA NextNodeBuilt ==
  ASSUME VmInv, RootInv, ImportInv, BuiltInv, NextNode
  PROVE  BuiltInv'
<1> DEFINE all == Top.node = Len(Top.graph.nodes)
           m == IF all THEN 1 ELSE Top.node + 1
           p == IF all THEN "root" ELSE Top.phase
           e == 1
           g == [Top EXCEPT !.edge = e, !.node = m, !.phase = p]
           o == NodeObject
           c == cells[o]
           z == Node.frozen
           r == Flagged(c, z)
           nodes == Top.graph.nodes
           shells == Shells(Top, cells)
           i == Top.node
<1>1. InImport /\ Top.phase = "edges" /\ Top.edge > Len(Node.edges)
  BY Zenon DEF NextNode, Phase
<1>2. SetTop(g)
  BY Zenon DEF NextNode, Continue, SetTop
<1>3. cells' = [cells EXCEPT ![o] = r]
  BY Zenon DEF NextNode, Flagged
<1>4. /\ Top \in ImportFrames({Top.vals}) /\ Top.edge \in Nat /\ Top.graph \in Graphs
      /\ Len(Node.edges) \in Nat
  <2>1. Top \in ImportFrames({Top.vals}) /\ Top.edge \in Nat /\ Top.graph \in Graphs
    BY <1>1, BuildingFacts
  <2>2. Len(Node.edges) \in Nat
    BY <1>1, <2>1, NodeBuilt, GraphLists
  <2> QED BY <2>1, <2>2
<1>5. /\ Len(shells) = Len(nodes) /\ Len(nodes) \in Nat /\ i \in 1 .. Len(nodes)
      /\ Node = nodes[i] /\ o = shells[i] /\ Cell(c) /\ Top.table \in Objects
      /\ Listed(Top, shells, cells) /\ Filled(Node, o, Top.edge - 1, shells, cells)
      /\ o \in alive /\ AtHand(Top, shells, cells)
  BY <1>1, NodeBuilt
<1>6. /\ r.kind = c.kind /\ r.bytes = c.bytes /\ r.default = c.default /\ r.frozen = z
      /\ r.parts = c.parts
  <2>1. <<>> \in Seq(ToSet(<<>>))
    OBVIOUS
  <2>2. Cell(c)
    BY <1>5
  <2> HIDE DEF c, z
  <2>3. r.parts = c.parts
    BY <2>1, <2>2, ChangedCell
  <2>4. r.kind = c.kind /\ r.bytes = c.bytes /\ r.default = c.default /\ r.frozen = z
    BY <2>2, FlaggedKind, Zenon
  <2> QED BY <2>3, <2>4
<1> HIDE DEF r
<1>7. /\ \A f : f.table = Top.table => Shells(f, cells') = shells
      /\ cells'[o] = r /\ cells'[Top.table].kind = "table"
      /\ SameKinds(alive, cells, cells')
      /\ \A n \in 1 .. Len(shells) : n # i =>
           /\ Filled(nodes[n], shells[n], Resolved(Top, n), shells, cells')
           /\ Past(Top, n) => cells'[shells[n]].frozen = nodes[n].frozen
  <2> HIDE DEF shells
  <2> QED BY <1>1, <1>3, <1>6, OthersBuilt DEF shells
<1>8. /\ g.graph = Top.graph /\ g.phase = p
      /\ g.table = Top.table /\ g.vals = Top.vals /\ g.edge = e /\ g.node = m
  <2> HIDE DEF e, m, p
  <2> QED BY <1>4, Zenon DEF ImportFrames
<1>9. Top.vals = <<>>
  <2>1. Top.vals # <<>> => Top.edge <= Len(nodes[i].edges)
    BY <1>1, BuildingFacts, Zenon DEF ImportInv
  <2> QED BY <1>1, <1>4, <1>5, <2>1
<1> HIDE DEF g
<1>10. Filled(Node, o, Len(Node.edges), shells, cells')
  <2> DEFINE k == Len(Node.edges)
             j == Top.edge
             v == Node
  <2> HIDE DEF shells
  <2>1. j - 1 = k
    <3>1. j \in Nat /\ k \in Nat /\ j > k /\ j - 1 \in 0 .. k
      BY <1>1, <1>4, <1>5 DEF Filled
    <3> HIDE DEF j, k
    <3> QED BY <3>1
  <2>2. Filled(v, o, k, shells, cells)
    BY <1>5, <2>1
  <2>3. c.parts \in Seq(ToSet(c.parts)) /\ ToSet(c.parts) \cap Objects \subseteq alive
    BY <1>5 DEF Cell, RootInv, HeapLive
  <2> DEFINE l == c.parts
  <2>4. l \in Seq(ToSet(l)) /\ ToSet(l) \cap Objects \subseteq alive /\ Len(l) = k
        /\ \A a \in 1 .. k : Denotes(v.edges[a], l[a], shells, cells)
    BY <2>2, <2>3 DEF Filled
  <2> HIDE DEF l
  <2>5. \A a \in 1 .. k : {l[a]} \cap Objects \subseteq alive
    BY <2>4 DEF ToSet
  <2> HIDE DEF v, k
  <2>6. \A a \in 1 .. k : Denotes(v.edges[a], l[a], shells, cells')
    BY <1>7, <2>4, <2>5, DenotesStill
  <2>7. cells'[o].parts = l /\ l = cells[o].parts
    BY <1>6, <1>7 DEF l
  <2>8. cells'[o].kind = c.kind /\ cells'[o].bytes = c.bytes /\ cells'[o].default = c.default
    BY <1>6, <1>7
  <2>9. Filled(v, o, k, shells, cells')
    <3> HIDE DEF o
    <3> QED BY <2>2, <2>6, <2>7, <2>8, Zenon DEF Filled
  <2> QED BY <2>9 DEF v, k
<1>11. \/ p = "edges" /\ m = i + 1 /\ i # Len(nodes)
       \/ p = "root" /\ m = 1 /\ i = Len(nodes)
  BY <1>1
<1> HIDE DEF p, m, e, o, c, z, shells, nodes
<1>12. ASSUME NEW n \in 1 .. Len(shells), n # i
       PROVE  Resolved(g, n) = Resolved(Top, n) /\ (Past(g, n) => Past(Top, n))
  <2>1. /\ n < i => Past(g, n) /\ Past(Top, n)
        /\ ~(n < i) => ~Past(g, n) /\ ~Past(Top, n)
    BY <1>1, <1>5, <1>8, <1>11, <1>12 DEF Past
  <2>2. ~(n < i) => Resolved(Top, n) = 0 /\ Resolved(g, n) = 0
    BY <1>1, <1>5, <1>8, <1>11, <1>12, <2>1 DEF Resolved, e
  <2>3. n < i => Resolved(g, n) = Resolved(Top, n)
    BY <1>8, <2>1 DEF Resolved
  <2> QED BY <2>1, <2>2, <2>3
<1>13. Resolved(g, i) = Len(nodes[i].edges)
  <2>1. Past(g, i)
    BY <1>5, <1>8, <1>11 DEF Past
  <2> QED BY <1>8, <2>1 DEF Resolved, nodes
<1>14. \A n \in 1 .. Len(shells) : Filled(nodes[n], shells[n], Resolved(g, n), shells, cells')
  BY <1>5, <1>7, <1>10, <1>12, <1>13
<1>15. \A n \in 1 .. Len(shells) : Past(g, n) => cells'[shells[n]].frozen = nodes[n].frozen
  BY <1>5, <1>6, <1>7, <1>12 DEF z
<1>16. Shells(g, cells') = shells
  BY <1>7, <1>8
<1>17. Listed(g, shells, cells')
  <2>1. \A a, n \in 1 .. Len(shells) : shells[a] = shells[n] => a = n
    BY <1>5 DEF Listed
  <2> QED BY <1>5, <1>7, <1>8, <1>11, <1>14, <1>15, <2>1 DEF Listed, nodes
<1>18. AtHand(g, shells, cells')
  <2>1. \A a \in 1 .. Len(<<>>) : FALSE
    OBVIOUS
  <2> QED BY <1>8, <1>9, <1>11, <2>1 DEF AtHand
<1>19. Built(g, Shells(g, cells'), cells')
  BY <1>16, <1>17, <1>18, Zenon DEF Built
<1> QED BY <1>2, <1>19, BuiltFrom, Zenon

\* How far the references of a node are when those at hand are linked, and whether
\* the last was its default.
LEMMA GroupFacts ==
  ASSUME VmInv, RootInv, ImportInv, InImport, Top.phase = "edges", Top.edge <= Len(Node.edges)
  PROVE  LET k == Top.edge - 1 + Group IN
         /\ Group \in {1, 2} /\ k \in 0 .. Len(Node.edges) /\ Len(Node.edges) \in Nat
         /\ Top.edge \in Nat /\ Top.edge >= 1
         /\ (Node.kind = "hash" /\ Group = 1) <=> (k = Len(Node.edges) /\ Node.default)
         /\ Node.default \in BOOLEAN
<1> DEFINE v == Node
           i == Top.edge
           pairs == PairEdges(v)
           all == Len(v.edges)
           d == v.default
           hash == v.kind = "hash"
<1>1. /\ Top.graph \in Graphs /\ GraphValid(Top.graph) /\ i \in Nat /\ i >= 1 /\ i <= all
      /\ Top.node \in 1 .. Len(Top.graph.nodes) /\ v = Top.graph.nodes[Top.node]
      /\ i <= pairs => i % 2 = 1
  BY BuildingFacts, BuildingPhases DEF Node
<1>2. all \in Nat /\ pairs \in Nat /\ pairs <= all /\ pairs % 2 = 0
  BY <1>1, PairFacts
<1>3. /\ d \in BOOLEAN /\ (~hash => ~d /\ pairs = 0)
      /\ hash => pairs = IF d THEN all - 1 ELSE all
  BY <1>1, NodeShape
<1>4. Group = IF i <= pairs THEN 2 ELSE 1
  BY DEF Group
<1>5. CASE i <= pairs
  <2>1. hash /\ Group = 2
    <3> HIDE DEF hash, v
    <3> QED BY <1>1, <1>3, <1>4, <1>5
  <2>2. i + 1 <= pairs
    <3> HIDE DEF i, pairs
    <3> QED BY <1>1, <1>2, <1>5
  <2>3. i - 1 + 2 \in 0 .. all /\ (d => i - 1 + 2 # all)
    <3> HIDE DEF i, pairs, all, d
    <3>1. d => pairs = all - 1
      BY <1>3, <2>1
    <3> QED BY <1>1, <1>2, <2>2, <3>1
  <2> HIDE DEF i, all, d
  <2> QED BY <1>1, <1>2, <1>3, <2>1, <2>3 DEF i, all, d
<1>6. CASE ~(i <= pairs)
  <2>1. Group = 1
    BY <1>4, <1>6
  <2>2. i - 1 + 1 = i /\ i \in 0 .. all
    <3> HIDE DEF i, all
    <3> QED BY <1>1, <1>2
  <2>3. hash <=> (i = all /\ d)
    <3> HIDE DEF i, pairs, all
    <3>1. CASE hash /\ d
      <4>1. pairs = all - 1
        BY <1>3, <3>1
      <4>2. i = all
        BY <1>1, <1>2, <1>6, <4>1
      <4> QED BY <3>1, <4>2
    <3>2. CASE hash /\ ~d
      <4>1. pairs = all
        BY <1>3, <3>2
      <4> QED BY <1>1, <1>2, <1>6, <4>1
    <3>3. CASE ~hash
      BY <1>3, <3>3
    <3> QED BY <3>1, <3>2, <3>3
  <2> HIDE DEF i, all
  <2> QED BY <1>1, <1>2, <1>3, <2>1, <2>2, <2>3 DEF i, all
<1> QED BY <1>5, <1>6

\* The contents of the node's object with the references at hand.
LEMMA LinkedContents ==
  ASSUME VmInv, RootInv, ImportInv, BuiltInv, InImport, Top.phase = "edges", NEW d
  PROVE  LET c == cells[NodeObject]
             q == c.parts \o Top.vals
             r == Linked(c, q, d)
         IN
         /\ Cell(r) /\ r.parts = q /\ r.kind = c.kind /\ r.bytes = c.bytes /\ r.default = d
         /\ q \in Seq(ToSet(q)) /\ ToSet(q) \cap Objects \subseteq alive
         /\ Len(q) = Len(c.parts) + Len(Top.vals) /\ Len(c.parts) \in Nat /\ Len(Top.vals) \in Nat
         /\ \A i \in 1 .. Len(q) :
              q[i] = IF i <= Len(c.parts) THEN c.parts[i] ELSE Top.vals[i - Len(c.parts)]
<1> DEFINE c == cells[NodeObject]
           l == c.parts
           w == Top.vals
           q == l \o w
<1>1. w \in Seq(ToSet(w)) /\ ToSet(w) \cap Objects \subseteq alive
  BY BuildingFacts
<1>2. Cell(c) /\ l \in Seq(ToSet(l)) /\ ToSet(l) \cap Objects \subseteq alive
  <2>1. NodeObject \in alive /\ Cell(c)
    BY NodeBuilt
  <2> QED BY <2>1 DEF Cell, RootInv, HeapLive
<1>3. /\ q \in Seq(ToSet(q)) /\ ToSet(q) \cap Objects \subseteq alive
      /\ Len(q) = Len(l) + Len(w) /\ Len(l) \in Nat /\ Len(w) \in Nat
      /\ \A i \in 1 .. Len(q) : q[i] = IF i <= Len(l) THEN l[i] ELSE w[i - Len(l)]
  <2> HIDE DEF l, w
  <2>1. q \in Seq(ToSet(q)) /\ ToSet(q) = ToSet(l) \cup ToSet(w)
    BY <1>1, <1>2, JoinedElements
  <2>2. l \in Seq(ToSet(l) \cup ToSet(w)) /\ w \in Seq(ToSet(l) \cup ToSet(w))
    BY <1>1, <1>2
  <2>3. /\ Len(q) = Len(l) + Len(w)
        /\ \A i \in 1 .. Len(q) : q[i] = IF i <= Len(l) THEN l[i] ELSE w[i - Len(l)]
    BY <2>2, ConcatProperties
  <2> HIDE DEF q
  <2> QED BY <1>1, <1>2, <2>1, <2>3
<1>4. LET r == Linked(c, q, d) IN
      Cell(r) /\ r.parts = q /\ r.kind = c.kind /\ r.bytes = c.bytes /\ r.default = d
  <2>1. Cell(c) /\ q \in Seq(ToSet(q))
    BY <1>2, <1>3
  <2> HIDE DEF c, q
  <2> QED BY <2>1, LinkedCell
<1> QED BY <1>3, <1>4

\* What the references are then.
LEMMA LinkedDenotes ==
  ASSUME VmInv, RootInv, ImportInv, BuiltInv, InImport, Top.phase = "edges",
         Top.edge <= Len(Node.edges), Len(Top.vals) = Group
  PROVE  LET q == cells[NodeObject].parts \o Top.vals IN
         /\ Len(q) = Top.edge - 1 + Group
         /\ \A i \in 1 .. Len(q) : /\ {q[i]} \cap Objects \subseteq alive
                                   /\ Denotes(Node.edges[i], q[i], Shells(Top, cells), cells)
<1> DEFINE v == Node
           o == NodeObject
           l == cells[o].parts
           w == Top.vals
           q == l \o w
           shells == Shells(Top, cells)
           e == Top.edge
           nodes == Top.graph.nodes
<1>1. /\ AtHand(Top, shells, cells) /\ v = nodes[Top.node]
      /\ Filled(v, o, e - 1, shells, cells)
  BY NodeBuilt
<1>2. /\ q \in Seq(ToSet(q)) /\ ToSet(q) \cap Objects \subseteq alive
      /\ Len(q) = Len(l) + Len(w) /\ Len(l) \in Nat /\ Len(w) \in Nat
      /\ \A i \in 1 .. Len(q) : q[i] = IF i <= Len(l) THEN l[i] ELSE w[i - Len(l)]
  BY LinkedContents
<1>3. Group \in {1, 2} /\ e \in Nat
  BY GroupFacts
<1> HIDE DEF q, shells
<1>4. Len(l) = e - 1 /\ \A i \in 1 .. Len(l) : Denotes(v.edges[i], l[i], shells, cells)
  BY <1>1 DEF Filled
<1>5. Len(w) = Group /\ \A i \in 1 .. Len(w) : Denotes(v.edges[e + (i - 1)], w[i], shells, cells)
  BY <1>1 DEF AtHand
<1> HIDE DEF l, w, v, e
<1>6. Len(q) = e - 1 + Group
  BY <1>2, <1>3, <1>4, <1>5
<1>7. ASSUME NEW i \in 1 .. Len(q)
      PROVE  {q[i]} \cap Objects \subseteq alive /\ Denotes(v.edges[i], q[i], shells, cells)
  <2>1. CASE i <= Len(l)
    <3>1. i \in 1 .. Len(l) /\ q[i] = l[i]
      BY <1>2, <2>1
    <3> QED BY <1>2, <1>4, <3>1 DEF ToSet
  <2>2. CASE ~(i <= Len(l))
    <3> DEFINE j == i - Len(l)
    <3>1. j \in 1 .. Len(w) /\ q[i] = w[j] /\ e + (j - 1) = i
      <4> DEFINE a == Len(l)
                 b == Len(w)
                 n == Len(q)
      <4>1. /\ a \in Nat /\ b \in Nat /\ n = a + b /\ a = e - 1 /\ e \in Nat
            /\ i \in 1 .. n /\ ~(i <= a)
        BY <1>2, <1>3, <1>4, <2>2
      <4>2. q[i] = w[j]
        BY <1>2, <2>2
      <4> HIDE DEF a, b, n
      <4>3. i - a \in 1 .. b /\ e + (i - a - 1) = i
        BY <4>1
      <4> QED BY <4>2, <4>3 DEF a, b
    <3> HIDE DEF j
    <3> QED BY <1>2, <1>5, <3>1 DEF ToSet
  <2> QED BY <2>1, <2>2
<1> QED BY <1>6, <1>7 DEF q, l, w, v, e, shells

\* The object of the node gets the references at hand.
LEMMA LinkedFilled ==
  ASSUME VmInv, RootInv, ImportInv, BuiltInv, InImport, Top.phase = "edges",
         Top.edge <= Len(Node.edges), Len(Top.vals) = Group,
         NEW r, cells' = [cells EXCEPT ![NodeObject] = r],
         r.kind = cells[NodeObject].kind, r.bytes = cells[NodeObject].bytes,
         r.parts = cells[NodeObject].parts \o Top.vals,
         r.default = IF Top.edge - 1 + Group = Len(Node.edges) THEN Node.default ELSE FALSE
  PROVE  Filled(Node, NodeObject, Top.edge - 1 + Group, Shells(Top, cells), cells')
<1> DEFINE v == Node
           o == NodeObject
           c == cells[o]
           q == c.parts \o Top.vals
           shells == Shells(Top, cells)
           k == Top.edge - 1 + Group
<1>1. o \in alive /\ Filled(v, o, Top.edge - 1, shells, cells)
  BY NodeBuilt
<1>2. alive \subseteq Objects /\ DOMAIN cells = Objects
  BY DEF RootInv, CellTypes
<1>3. cells'[o] = r /\ \A p : p # o => cells'[p] = cells[p]
  <2> HIDE DEF o
  <2> QED BY <1>1, <1>2 DEF o
<1>4. SameKinds(alive, cells, cells')
  BY <1>3 DEF SameKinds
<1>5. Len(q) = k /\ \A i \in 1 .. Len(q) : /\ {q[i]} \cap Objects \subseteq alive
                                           /\ Denotes(v.edges[i], q[i], shells, cells)
  BY LinkedDenotes
<1> HIDE DEF q, shells
<1>6. \A i \in 1 .. Len(q) : Denotes(v.edges[i], q[i], shells, cells')
  <2> SUFFICES ASSUME NEW i \in 1 .. Len(q)
               PROVE  Denotes(v.edges[i], q[i], shells, cells')
    OBVIOUS
  <2> DEFINE x == q[i]
             y == v.edges[i]
  <2>1. {x} \cap Objects \subseteq alive /\ Denotes(y, x, shells, cells)
    BY <1>5
  <2> HIDE DEF x, y
  <2>2. Denotes(y, x, shells, cells')
    BY <1>4, <2>1, DenotesStill
  <2> QED BY <2>2 DEF x, y
<1>7. k \in 0 .. Len(v.edges)
  BY GroupFacts
<1>8. o \in Objects /\ c.kind = v.kind /\ c.bytes = v.bytes
  BY <1>1 DEF Filled
<1>9. /\ r.kind = c.kind /\ r.bytes = c.bytes /\ r.parts = q
      /\ r.default = IF k = Len(v.edges) THEN v.default ELSE FALSE
  BY Zenon DEF q
<1> HIDE DEF o, c, v, k
<1>10. Filled(v, o, k, shells, cells')
  BY <1>3, <1>5, <1>6, <1>7, <1>8, <1>9, Zenon DEF Filled
<1> QED BY <1>10, Zenon DEF o, v, k, shells

LEMMA LinkEdgeBuilt ==
  ASSUME VmInv, RootInv, ImportInv, BuiltInv, InImport, Top.phase = "edges",
         Top.edge <= Len(Node.edges), Len(Top.vals) = Group,
         NEW r, cells' = [cells EXCEPT ![NodeObject] = r],
         r.kind = cells[NodeObject].kind, r.bytes = cells[NodeObject].bytes,
         r.parts = cells[NodeObject].parts \o Top.vals,
         r.default = (Node.kind = "hash" /\ Group = 1),
         SetTop([Top EXCEPT !.vals = <<>>, !.edge = Top.edge + Group])
  PROVE  BuiltInv'
<1> DEFINE o == NodeObject
           c == cells[o]
           e == Top.edge + Group
           k == Top.edge - 1 + Group
           l == <<>>
           g == [Top EXCEPT !.vals = l, !.edge = e]
           nodes == Top.graph.nodes
           shells == Shells(Top, cells)
           i == Top.node
<1>1. SetTop(g)
  BY Zenon
<1>2. cells' = [cells EXCEPT ![o] = r] /\ r.kind = c.kind /\ r.bytes = c.bytes
  BY Zenon
<1>3. /\ k \in 0 .. Len(Node.edges) /\ Top.edge \in Nat /\ Group \in {1, 2}
      /\ (Node.kind = "hash" /\ Group = 1) <=> (k = Len(Node.edges) /\ Node.default)
      /\ Node.default \in BOOLEAN
  BY GroupFacts
<1>4. r.default = IF k = Len(Node.edges) THEN Node.default ELSE FALSE
  <2> DEFINE a == Node.kind = "hash" /\ Group = 1
             d == Node.default
             j == k = Len(Node.edges)
  <2>1. (a <=> j /\ d) /\ d \in BOOLEAN
    BY <1>3
  <2>2. r.default = a
    BY Zenon
  <2>3. a \in BOOLEAN /\ j \in BOOLEAN
    OBVIOUS
  <2> HIDE DEF a, d, j
  <2>4. r.default = IF j THEN d ELSE FALSE
    BY <2>1, <2>2, <2>3
  <2> QED BY <2>4, Zenon DEF d, j
<1>5. Filled(Node, o, k, shells, cells')
  BY <1>4, LinkedFilled, Zenon
<1>6. /\ Len(shells) = Len(nodes) /\ Len(nodes) \in Nat /\ i \in 1 .. Len(nodes)
      /\ Node = nodes[i] /\ o = shells[i] /\ Top.table \in Objects
      /\ Listed(Top, shells, cells) /\ o \in alive
  BY NodeBuilt
<1>7. cells'[o] = r
  <2>1. alive \subseteq Objects /\ DOMAIN cells = Objects
    BY DEF RootInv, CellTypes
  <2> HIDE DEF o
  <2> QED BY <1>2, <1>6, <2>1
<1>8. /\ \A f : f.table = Top.table => Shells(f, cells') = shells
      /\ cells'[Top.table].kind = "table"
      /\ \A n \in 1 .. Len(shells) : n # i =>
           /\ Filled(nodes[n], shells[n], Resolved(Top, n), shells, cells')
           /\ Past(Top, n) => cells'[shells[n]].frozen = nodes[n].frozen
  <2> HIDE DEF shells
  <2> QED BY <1>2, <1>7, OthersBuilt DEF shells
<1>9. /\ Top \in ImportFrames({Top.vals})
  BY BuildingFacts
<1>10. /\ g.graph = Top.graph /\ g.phase = "edges"
       /\ g.table = Top.table /\ g.vals = l /\ g.edge = e /\ g.node = i
  <2> HIDE DEF e, l
  <2> QED BY <1>9, Zenon DEF ImportFrames
<1> HIDE DEF g
<1>11. e - 1 = k
  BY <1>3
<1>12. ~(i < i)
  <2>1. i \in Nat
    BY BuildingFacts
  <2> HIDE DEF i
  <2> QED BY <2>1
<1> HIDE DEF e, k, o, c, shells, nodes, i
<1>13. \A n : n # i => Resolved(g, n) = Resolved(Top, n)
  BY <1>10 DEF Resolved, Past, i
<1>14. \A n : Past(g, n) <=> Past(Top, n)
  BY <1>10 DEF Past, i
<1>15. Resolved(g, i) = k /\ ~Past(Top, i)
  BY <1>10, <1>11, <1>12 DEF Resolved, Past, i
<1>16. \A n \in 1 .. Len(shells) : Filled(nodes[n], shells[n], Resolved(g, n), shells, cells')
  BY <1>5, <1>6, <1>8, <1>13, <1>15
<1>17. \A n \in 1 .. Len(shells) : Past(g, n) => cells'[shells[n]].frozen = nodes[n].frozen
  BY <1>8, <1>14, <1>15
<1>18. Listed(g, shells, cells')
  <2>1. \A a, n \in 1 .. Len(shells) : shells[a] = shells[n] => a = n
    BY <1>6 DEF Listed
  <2> QED BY <1>6, <1>8, <1>10, <1>16, <1>17, <2>1 DEF Listed, nodes
<1>19. AtHand(g, shells, cells')
  <2>1. \A a \in 1 .. Len(l) : FALSE
    OBVIOUS
  <2> QED BY <1>10, <2>1 DEF AtHand
<1>20. Built(g, Shells(g, cells'), cells')
  BY <1>8, <1>10, <1>18, <1>19, Zenon DEF Built
<1> QED BY <1>1, <1>20, BuiltFrom, Zenon

\* A failure, or another reference.
LEMMA LinksBuilt ==
  ASSUME VmInv, RootInv, ImportInv, BuiltInv, LinkEdge
  PROVE  BuiltInv' \/ \E own, refused : Fails(own, refused)
<1>1. /\ InImport /\ Top.phase = "edges" /\ Top.edge <= Len(Node.edges)
      /\ Len(Top.vals) = Group
  BY Zenon DEF LinkEdge, Phase
<1>2. CASE Invalid /\ UNCHANGED <<alive, cells>>
  BY <1>2, Zenon DEF Invalid
<1>3. CASE ~(Invalid /\ UNCHANGED <<alive, cells>>)
  <2> DEFINE d == Node.kind = "hash" /\ Group = 1
             o == NodeObject
             c == cells[o]
             q == c.parts \o Top.vals
             r == Linked(c, q, d)
  <2>1. /\ SetTop([Top EXCEPT !.vals = <<>>, !.edge = Top.edge + Group])
        /\ cells' = [cells EXCEPT ![o] = r]
    BY <1>3, Zenon DEF LinkEdge, Continue, SetTop, Linked
  <2>2. r.parts = q /\ r.kind = c.kind /\ r.bytes = c.bytes /\ r.default = d
    <3> HIDE DEF d
    <3> QED BY <1>1, LinkedContents
  <2>3. r.parts = cells[NodeObject].parts \o Top.vals
    BY <2>2, Zenon
  <2>4. r.default = (Node.kind = "hash" /\ Group = 1)
    BY <2>2, Zenon
  <2>5. /\ cells' = [cells EXCEPT ![NodeObject] = r]
        /\ r.kind = cells[NodeObject].kind /\ r.bytes = cells[NodeObject].bytes
    BY <2>1, <2>2, Zenon
  <2> HIDE DEF r
  <2> QED BY <1>1, <2>1, <2>3, <2>4, <2>5, LinkEdgeBuilt, Zenon
<1> QED BY <1>2, <1>3, Zenon

---------------------------------------------------------------------------
(* The other steps *)

\* A collection leaves the contents of what it keeps.
LEMMA CollectionKeeps ==
  ASSUME VmInv, RootInv, CollectGarbage({})
  PROVE  /\ \A o \in alive' : cells'[o] = cells[o]
         /\ \A o \in alive' : ToSet(cells[o].parts) \cap Objects \subseteq alive'
         /\ ToSet(arena) \cap Objects \subseteq alive' /\ alive' \subseteq Objects
<1> DEFINE roots == ToSet(arena) \cup registered \cup {exc, stored, view} \cup {}
           kept == Reachable(roots)
<1>1. /\ alive' = kept
      /\ cells' = [o \in Objects |-> IF o \in kept THEN cells[o] ELSE Empty]
  BY DEF CollectGarbage
<1>2. /\ kept \subseteq Objects /\ roots \cap Objects \subseteq kept
      /\ \A o \in kept : ToSet(cells[o].parts) \cap Objects \subseteq kept
  BY ReachableCloses
<1>3. ToSet(arena) \cap Objects \subseteq kept
  BY <1>2 DEF roots
<1> HIDE DEF kept
<1> QED BY <1>1, <1>2, <1>3

LEMMA CollectBuilt ==
  ASSUME VmInv, RootInv, ImportInv, BuiltInv, CollectInImport
  PROVE  BuiltInv'
<1> DEFINE t == Top.table
           shells == Shells(Top, cells)
           nodes == Top.graph.nodes
<1>1. InImport /\ CollectGarbage({}) /\ UNCHANGED frames
  BY DEF CollectInImport, callVars
<1>2. Top' = Top
  BY <1>1, TopAfter
<1>3. /\ \A o \in alive' : cells'[o] = cells[o]
      /\ \A o \in alive' : ToSet(cells[o].parts) \cap Objects \subseteq alive'
      /\ ToSet(arena) \cap Objects \subseteq alive' /\ alive' \subseteq Objects
  BY <1>1, CollectionKeeps
<1>4. /\ {t} \cap Objects \subseteq ToSet(arena) /\ shells \in Seq(ToSet(shells))
      /\ ToSet(Top.vals) \cap Objects \subseteq ToSet(arena) \cup ToSet(shells)
      /\ Top.vals \in Seq(ToSet(Top.vals))
  BY <1>1, BuildingFacts
<1>5. t \in Objects => t \in alive' /\ shells = cells[t].parts /\ cells'[t] = cells[t]
  BY <1>3, <1>4 DEF Shells
<1>6. t \notin Objects => shells = <<>>
  BY DEF Shells
<1>7. Shells(Top, cells') = shells
  BY <1>5 DEF Shells
<1>8. ToSet(shells) \cap Objects \subseteq alive'
  <2>1. CASE t \in Objects
    BY <1>3, <1>5, <2>1
  <2>2. CASE t \notin Objects
    BY <1>6, <2>2 DEF ToSet
  <2> QED BY <2>1, <2>2
<1>9. ToSet(Top.vals) \cap Objects \subseteq alive'
  BY <1>3, <1>4, <1>8
<1>10. Untouched(alive', cells, cells')
  <2>1. \A o \in Objects : cells[o].parts \in Seq(ToSet(cells[o].parts))
    BY DEF RootInv, CellTypes, Cell
  <2> QED BY <1>3, <2>1, Zenon DEF Untouched
<1>11. SameKinds(alive', cells, cells')
  BY <1>3 DEF SameKinds
<1> HIDE DEF shells
<1>12. ASSUME Top.phase # "table", nodes # <<>>
       PROVE  Listed(Top, shells, cells')
  <2>1. Listed(Top, shells, cells)
    BY <1>1, <1>12, BuiltPhases DEF shells
  <2>2. t \in alive'
    BY <1>5, <2>1 DEF Listed
  <2> QED BY <1>4, <1>8, <1>10, <2>1, <2>2, ListedStill, Zenon
<1>13. AtHand(Top, shells, cells')
  <2> DEFINE l == Top.vals
  <2>1. AtHand(Top, shells, cells)
    BY <1>1, BuiltPhases DEF shells
  <2>2. \A i \in 1 .. Len(l) : {l[i]} \cap Objects \subseteq alive'
    <3>1. l \in Seq(ToSet(l)) /\ ToSet(l) \cap Objects \subseteq alive'
      BY <1>4, <1>9
    <3> HIDE DEF l
    <3> QED BY <3>1 DEF ToSet
  <2>3. l # <<>> => 1 \in 1 .. Len(l)
    <3>1. l \in Seq(ToSet(l))
      BY <1>4
    <3> HIDE DEF l
    <3> QED BY <3>1
  <2>4. ASSUME Top.phase = "shell", l # <<>>
        PROVE  /\ \A n \in 1 .. Len(shells) : shells[n] # l[1]
               /\ Filled(nodes[Top.node], l[1], 0, shells, cells')
    <3> DEFINE o == l[1]
               v == nodes[Top.node]
    <3>1. Filled(v, o, 0, shells, cells) /\ \A n \in 1 .. Len(shells) : shells[n] # o
      BY <2>1, <2>4, Zenon DEF AtHand
    <3>2. cells'[o] = cells[o]
      BY <1>3, <2>2, <2>3, <2>4, <3>1 DEF Filled
    <3> HIDE DEF o, v
    <3>3. Filled(v, o, 0, shells, cells')
      BY <3>1, <3>2, FilledEmpty
    <3> QED BY <3>1, <3>3, Zenon DEF o, v
  <2>5. ASSUME Top.phase = "edges", NEW i \in 1 .. Len(l)
        PROVE  Denotes(nodes[Top.node].edges[Top.edge + (i - 1)], l[i], shells, cells')
    <3> DEFINE w == l[i]
               ref == nodes[Top.node].edges[Top.edge + (i - 1)]
    <3>1. Denotes(ref, w, shells, cells) /\ {w} \cap Objects \subseteq alive'
      BY <2>1, <2>2, <2>5, Zenon DEF AtHand
    <3> HIDE DEF w, ref
    <3>2. Denotes(ref, w, shells, cells')
      BY <1>11, <3>1, DenotesStill
    <3> QED BY <3>2 DEF w, ref
  <2>6. ASSUME Top.phase = "root", l # <<>>
        PROVE  Denotes(Top.graph.root, l[1], shells, cells')
    <3> DEFINE w == l[1]
               ref == Top.graph.root
    <3>1. Denotes(ref, w, shells, cells) /\ {w} \cap Objects \subseteq alive'
      BY <2>1, <2>2, <2>3, <2>6, Zenon DEF AtHand
    <3> HIDE DEF w, ref
    <3>2. Denotes(ref, w, shells, cells')
      BY <1>11, <3>1, DenotesStill
    <3> QED BY <3>2 DEF w, ref
  <2> QED BY <2>4, <2>5, <2>6, Zenon DEF AtHand
<1>14. Built(Top', Shells(Top', cells'), cells')
  BY <1>2, <1>7, <1>12, <1>13, Zenon DEF Built
<1> QED BY <1>14, Zenon DEF BuiltInv

LEMMA ImportKeepsBuilt ==
  ASSUME VmInv, RootInv, ImportInv, BuiltInv, ImportNext
  PROVE  BuiltInv'
<1>1. ASSUME InImport, frames' = Front(frames)
      PROVE  BuiltInv'
  BY <1>1, ImportTop, TopAfter DEF BuiltInv
<1>2. ASSUME InImport, NEW own, NEW refused, Fails(own, refused)
      PROVE  BuiltInv'
  BY <1>1, <1>2, Zenon DEF Fails
<1>3. CASE LinkEdge
  <2>1. InImport
    BY <1>3, Zenon DEF LinkEdge, Phase
  <2> QED BY <1>2, <1>3, <2>1, LinksBuilt, Zenon
<1>4. CASE Return
  <2>1. InImport /\ Completes(Top.vals[1])
    BY <1>4, Zenon DEF Return, Phase
  <2> QED BY <1>1, <1>2, <2>1, Zenon DEF Completes, PostludeRefused, PostludeCaught
<1>5. CASE ImportRaises
  BY <1>2, <1>5, Zenon DEF ImportRaises, PostludeRefused, PostludeCaught
<1> QED BY <1>3, <1>4, <1>5, ScalarRootBuilt, NewTableBuilt, NewShellBuilt, KeepShellBuilt,
      DecodeEdgeBuilt, NextNodeBuilt, DecodeRootBuilt, CollectBuilt, Zenon DEF ImportNext

\* An operation or a guest has no import on top, neither before nor after its step.
LEMMA OpKeepsBuilt ==
  ASSUME VmInv, OpNext
  PROVE  BuiltInv'
<1>1. ASSUME NEW g, SetTop(g), g.kind = "op"
      PROVE  BuiltInv'
  BY <1>1, TopAfter DEF BuiltInv
<1>2. ASSUME Top.kind # "import", UNCHANGED frames
      PROVE  BuiltInv'
  BY <1>2, TopAfter DEF BuiltInv
<1>3. ASSUME frames' = Front(frames), Len(frames) > 1
      PROVE  BuiltInv'
  BY <1>3, TopAfter DEF BuiltInv
<1>4. ASSUME frames' = Append(frames, ZigFrame)
      PROVE  BuiltInv'
  <2> DEFINE f == ZigFrame
  <2>1. f.kind = "zig" /\ frames' = Append(frames, f)
    BY <1>4 DEF ZigFrame
  <2> HIDE DEF f
  <2> QED BY <2>1, TopAfter DEF BuiltInv
<1>5. ASSUME InOp, NEW v, Advanced(v)
      PROVE  BuiltInv'
  <2> DEFINE p == Top.pc + 1
             g == [Top EXCEPT !.pc = p, !.val = v]
  <2>1. Top \in OpFrames
    BY <1>5, OpTop
  <2>2. SetTop(g)
    BY <1>5, Zenon DEF Advanced
  <2>3. g.kind = "op"
    <3> HIDE DEF p
    <3> QED BY <2>1, Zenon DEF OpFrames
  <2> HIDE DEF g
  <2> QED BY <1>1, <2>2, <2>3
<1>6. ASSUME InOp, NEW result, NEW raised, Ends(result, raised)
      PROVE  BuiltInv'
  <2>1. Len(frames) > 1 /\ Top.kind # "import"
    BY <1>6, OpTop DEF InOp
  <2> QED BY <1>2, <1>3, <1>6, <2>1, Zenon DEF Ends, Returned, PostludeEscapes
<1>7. ASSUME Absent
      PROVE  BuiltInv'
  <2> DEFINE p == Len(Top.op.body) + 1
             r == Top.op.strict
             g == [Top EXCEPT !.pc = p, !.val = Nil, !.refused = r]
  <2>1. InOp /\ (Advanced(Top.val) \/ SetTop(g))
    BY <1>7, Zenon DEF Absent, At
  <2>2. Top \in OpFrames
    BY <2>1, OpTop
  <2>3. g.kind = "op"
    <3> HIDE DEF p, r
    <3> QED BY <2>2, Zenon DEF OpFrames
  <2> HIDE DEF g
  <2> QED BY <1>1, <1>5, <2>1, <2>3
<1>8. ASSUME LoadFails
      PROVE  BuiltInv'
  <2>1. PICK o : SetTop([Top EXCEPT !.pc = @ + 1, !.val = Nil, !.own = o])
    BY <1>8, Zenon DEF LoadFails
  <2> DEFINE p == Top.pc + 1
             g == [Top EXCEPT !.pc = p, !.val = Nil, !.own = o]
  <2>2. SetTop(g)
    BY <2>1, Zenon
  <2>3. Top \in OpFrames
    BY <1>8, OpTop DEF LoadFails, At
  <2>4. g.kind = "op"
    <3> HIDE DEF p
    <3> QED BY <2>3, Zenon DEF OpFrames
  <2> HIDE DEF g
  <2> QED BY <1>1, <2>2, <2>4
<1>9. InOp \/ InZig => Top.kind # "import"
  BY DEF InOp, InZig
<1> QED BY <1>2, <1>3, <1>4, <1>5, <1>6, <1>7, <1>8, <1>9, Zenon DEF OpNext, EndBody, BodyDone,
      OutOfMemory, Check, Memory, Object, Read, Link, Register, GuestStores, GuestReturns,
      GuestRaises, CallHost, ReturnToGuest, GuestHandles, Collect, RaisesNew, Raises, callVars,
      InGuest, At

\* An import starts with nothing built.
LEMMA HostKeepsBuilt ==
  ASSUME VmInv, Host
  PROVE  BuiltInv'
<1>1. ASSUME InZig, UNCHANGED frames
      PROVE  BuiltInv'
  BY <1>1, TopAfter DEF BuiltInv, InZig
<1>2. ASSUME NEW op, NEW arg, NEW after, Call(op, arg, after)
      PROVE  BuiltInv'
  <2> DEFINE h == [Top EXCEPT !.after = after]
             g == OpFrame(op, arg)
  <2>1. frames' = Append([frames EXCEPT ![Len(frames)] = h], g)
    BY <1>2, Zenon DEF Call, Top
  <2>2. g.kind = "op"
    BY DEF OpFrame
  <2> HIDE DEF g, h
  <2> QED BY <2>1, <2>2, TopAfter DEF BuiltInv
<1>3. ASSUME NEW g, Import(g)
      PROVE  BuiltInv'
  <2>1. CASE ~GraphValid(g)
    BY <1>1, <1>3, <2>1 DEF Import
  <2>2. CASE GraphValid(g)
    <3> DEFINE f == ImportFrame(g)
    <3>1. frames' = Append(frames, f)
      BY <1>3, <2>2 DEF Import
    <3>2. f.phase = "table" /\ f.vals = <<>>
      BY DEF ImportFrame
    <3> HIDE DEF f
    <3>3. Top' = f
      BY <3>1, TopAfter
    <3>4. Built(f, Shells(f, cells'), cells')
      BY <3>2, Zenon DEF Built, AtHand
    <3> QED BY <3>3, <3>4 DEF BuiltInv
  <2> QED BY <2>1, <2>2
<1>4. ASSUME InZig, NEW a, SetTop([Top EXCEPT !.after = a]) \/ SetTop([Top EXCEPT !.scopes = a])
      PROVE  BuiltInv'
  <2>1. Top \in ZigFrames
    <3>1. InZig
      BY <1>4, Zenon
    <3> QED BY <3>1, ZigTop
  <2> DEFINE g == [Top EXCEPT !.after = a]
             h == [Top EXCEPT !.scopes = a]
  <2>2. g.kind = "zig" /\ h.kind = "zig"
    BY <2>1, Zenon DEF ZigFrames
  <2>3. SetTop(g) \/ SetTop(h)
    BY <1>4, Zenon
  <2> HIDE DEF g, h
  <2> QED BY <2>2, <2>3, TopAfter DEF BuiltInv
<1> QED BY <1>1, <1>2, <1>3, <1>4, Zenon DEF Host, CallOperation, ReadDetails, FailCallback,
      ImportGraph, Unroot, Root, RootReturns, OpenScope, CloseScope, ClearError,
      CaptureErrorView, ClearErrorView, callVars

LEMMA BuiltInit == SafeInit => BuiltInv
<1> SUFFICES ASSUME SafeInit
             PROVE  BuiltInv
  OBVIOUS
<1> DEFINE z == ZigFrame
<1>1. z.kind = "zig"
  BY DEF ZigFrame
<1> HIDE DEF z
<1>2. frames = <<z>>
  BY DEF SafeInit, z
<1>3. Top = z
  BY <1>2 DEF Top
<1> QED BY <1>1, <1>3 DEF BuiltInv

LEMMA BuiltNext ==
  ASSUME VmInv, RootInv, ImportInv, BuiltInv, [SafeNext]_vmVars
  PROVE  BuiltInv'
<1>1. CASE UNCHANGED vmVars
  <2>1. UNCHANGED <<frames, cells>>
    BY <1>1 DEF vmVars, callVars, heapVars
  <2>2. Top' = Top
    BY <2>1, TopAfter
  <2>3. Shells(Top', cells') = Shells(Top, cells)
    BY <2>1, <2>2
  <2> QED BY <2>1, <2>2, <2>3, Zenon DEF BuiltInv
<1> QED BY <1>1, HostKeepsBuilt, OpKeepsBuilt, ImportKeepsBuilt, Zenon DEF SafeNext

\* What an import has built is what the graph says.
THEOREM BuiltInvHolds == SafeSpec => []BuiltInv
<1>1. SafeInit => BuiltInv
  BY BuiltInit
<1>2. VmInv /\ RootInv /\ ImportInv /\ BuiltInv /\ [SafeNext]_vmVars => BuiltInv'
  BY BuiltNext
<1> QED BY <1>1, <1>2, VmInvHolds, ImportInvHolds, RootInvHolds, PTL DEF SafeSpec

---------------------------------------------------------------------------
(* The finished graph *)

Image(object, ref, w, in) ==
  CASE ref[1] = "node"  -> w = object[ref[2]]
    [] ref[1] = "boxed" -> w \in Objects /\ in[w].kind = "boxed" /\ in[w].bytes = ref[2]
    [] OTHER -> w = ref

\* A reference that was decoded is the image of what the graph says.
LEMMA DenotesImage ==
  ASSUME NEW g, NEW ref, RefValid(g, ref), NEW w, NEW shells, NEW in, Denotes(ref, w, shells, in),
         NEW object, \A n \in DOMAIN g.nodes : object[n] = shells[n]
  PROVE  Image(object, ref, w, in)
<1>1. CASE ref[1] = "node"
  <2>1. ref[2] \in DOMAIN g.nodes /\ w = shells[ref[2]]
    BY <1>1 DEF RefValid, Denotes
  <2>2. w = object[ref[2]]
    BY <2>1
  <2> QED BY <1>1, <2>2 DEF Image
<1>2. CASE ref[1] = "boxed"
  BY <1>2 DEF Image, Denotes
<1>3. CASE ref[1] # "node" /\ ref[1] # "boxed"
  BY <1>3 DEF Image, Denotes
<1> QED BY <1>1, <1>2, <1>3

\* At the end every node is complete.
LEMMA ListedNodes ==
  ASSUME VmInv, RootInv, ImportInv, BuiltInv, InImport, Top.phase = "root",
         NEW n \in DOMAIN Top.graph.nodes
  PROVE  LET nodes == Top.graph.nodes
             shells == Shells(Top, cells)
             c == cells[shells[n]]
         IN
         /\ nodes # <<>> /\ DOMAIN nodes = 1 .. Len(nodes) /\ Listed(Top, shells, cells)
         /\ shells[n] \in Objects
         /\ c.kind = nodes[n].kind /\ c.bytes = nodes[n].bytes
         /\ c.frozen = nodes[n].frozen /\ c.default = nodes[n].default
         /\ DOMAIN c.parts = DOMAIN nodes[n].edges
         /\ \A i \in DOMAIN c.parts :
              /\ RefValid(Top.graph, nodes[n].edges[i])
              /\ Denotes(nodes[n].edges[i], c.parts[i], shells, cells)
<1> DEFINE nodes == Top.graph.nodes
           shells == Shells(Top, cells)
           o == shells[n]
           v == nodes[n]
           k == Len(v.edges)
<1>1. Top.graph \in Graphs /\ GraphValid(Top.graph)
  BY BuildingFacts
<1>2. /\ nodes \in Seq(ToSet(nodes)) /\ v.edges \in Seq(ToSet(v.edges))
  BY <1>1, GraphAssumption
<1>3. nodes # <<>> /\ DOMAIN nodes = 1 .. Len(nodes)
  <2> HIDE DEF nodes
  <2> QED BY <1>2 DEF nodes
<1>4. DOMAIN v.edges = 1 .. k
  <2> DEFINE l == v.edges
  <2>1. l \in Seq(ToSet(l))
    BY <1>2
  <2> HIDE DEF l
  <2>2. DOMAIN l = 1 .. Len(l)
    BY <2>1
  <2> QED BY <2>2 DEF l
<1>5. Listed(Top, shells, cells)
  BY <1>3, BuiltPhases
<1>6. Past(Top, n) /\ Resolved(Top, n) = k
  BY DEF Past, Resolved
<1>7. n \in 1 .. Len(shells)
  BY <1>3, <1>5 DEF Listed
<1> HIDE DEF shells
<1>8. Filled(v, o, k, shells, cells) /\ cells[o].frozen = v.frozen
  BY <1>5, <1>6, <1>7, Zenon DEF Listed
<1> HIDE DEF v, o, nodes
<1>9. /\ o \in Objects /\ cells[o].kind = v.kind /\ cells[o].bytes = v.bytes
      /\ Len(cells[o].parts) = k
      /\ \A i \in 1 .. k : Denotes(v.edges[i], cells[o].parts[i], shells, cells)
  BY <1>8, Zenon DEF Filled
<1>10. cells[o].default = v.default
  BY <1>8, Zenon DEF Filled, k
<1>11. DOMAIN cells[o].parts = 1 .. k
  <2> DEFINE l == cells[o].parts
  <2>1. l \in Seq(ToSet(l)) /\ Len(l) = k
    BY <1>9 DEF RootInv, CellTypes, Cell
  <2> HIDE DEF l, k
  <2>2. DOMAIN l = 1 .. k
    BY <2>1
  <2> QED BY <2>2 DEF l, k
<1>12. \A i \in 1 .. k : RefValid(Top.graph, v.edges[i])
  BY <1>1, <1>4 DEF GraphValid, v, nodes
<1> HIDE DEF k
<1> QED BY <1>3, <1>4, <1>5, <1>8, <1>9, <1>10, <1>11, <1>12, Zenon DEF v, o, nodes, shells

LEMMA FinishedGraph ==
  ASSUME VmInv, RootInv, ImportInv, BuiltInv, InImport, Top.phase = "root", Top.vals # <<>>
  PROVE  Represents(Top.graph, Top.vals[1], cells)
<1> DEFINE graph == Top.graph
           nodes == graph.nodes
           shells == Shells(Top, cells)
           object == [n \in DOMAIN nodes |-> shells[n]]
           w == Top.vals[1]
<1>1. GraphValid(graph)
  BY BuildingFacts
<1>2. Denotes(graph.root, w, shells, cells) /\ RefValid(graph, graph.root)
  BY <1>1, BuiltPhases, Zenon DEF AtHand, GraphValid
<1>3. object \in [DOMAIN nodes -> Objects]
  <2>1. \A n \in DOMAIN nodes : shells[n] \in Objects
    BY ListedNodes
  <2> QED BY <2>1
<1>4. \A n \in DOMAIN nodes : object[n] = shells[n]
  OBVIOUS
<1>5. ASSUME NEW m \in DOMAIN nodes, NEW n \in DOMAIN nodes, m # n
      PROVE  object[m] # object[n]
  <2>1. Listed(Top, shells, cells) /\ DOMAIN nodes = 1 .. Len(nodes)
    BY ListedNodes
  <2>2. m \in 1 .. Len(shells) /\ n \in 1 .. Len(shells)
    BY <2>1 DEF Listed
  <2> HIDE DEF shells
  <2>3. shells[m] # shells[n]
    BY <1>5, <2>1, <2>2, Zenon DEF Listed
  <2> QED BY <2>3
<1> HIDE DEF object, shells
<1>6. Image(object, graph.root, w, cells)
  BY <1>2, <1>4, DenotesImage
<1>7. ASSUME NEW n \in DOMAIN nodes
      PROVE  LET c == cells[object[n]] IN
             /\ c.kind = nodes[n].kind /\ c.bytes = nodes[n].bytes
             /\ c.frozen = nodes[n].frozen /\ c.default = nodes[n].default
             /\ DOMAIN c.parts = DOMAIN nodes[n].edges
             /\ \A i \in DOMAIN c.parts : Image(object, nodes[n].edges[i], c.parts[i], cells)
  <2> DEFINE o == object[n]
             c == cells[o]
             v == nodes[n]
  <2>1. o = shells[n]
    BY <1>4
  <2>2. /\ cells[shells[n]].kind = v.kind /\ cells[shells[n]].bytes = v.bytes
        /\ cells[shells[n]].frozen = v.frozen /\ cells[shells[n]].default = v.default
        /\ DOMAIN cells[shells[n]].parts = DOMAIN v.edges
        /\ \A i \in DOMAIN cells[shells[n]].parts :
             /\ RefValid(graph, v.edges[i])
             /\ Denotes(v.edges[i], cells[shells[n]].parts[i], shells, cells)
    BY ListedNodes, Zenon DEF shells
  <2> HIDE DEF o, v
  <2>3. /\ c.kind = v.kind /\ c.bytes = v.bytes
        /\ c.frozen = v.frozen /\ c.default = v.default /\ DOMAIN c.parts = DOMAIN v.edges
        /\ \A i \in DOMAIN c.parts : RefValid(graph, v.edges[i]) /\ Denotes(v.edges[i], c.parts[i], shells, cells)
    BY <2>1, <2>2, Zenon
  <2>4. ASSUME NEW i \in DOMAIN c.parts
        PROVE  Image(object, v.edges[i], c.parts[i], cells)
    <3> DEFINE x == v.edges[i]
               y == c.parts[i]
    <3>1. RefValid(graph, x) /\ Denotes(x, y, shells, cells)
      BY <2>3
    <3> HIDE DEF x, y
    <3>2. Image(object, x, y, cells)
      BY <1>4, <3>1, DenotesImage
    <3> QED BY <3>2 DEF x, y
  <2> HIDE DEF c
  <2> QED BY <2>3, <2>4, Zenon DEF o, v, c
<1> HIDE DEF w
<1>8. Represents(graph, w, cells)
  BY <1>3, <1>5, <1>6, <1>7, Zenon DEF Represents, Image
<1> QED BY <1>8 DEF w

Faithful ==
  Len(frames') < Len(frames) /\ Top.kind = "import" /\ last'.ok =>
    Represents(Top.graph, Top.vals[1], cells')

LEMMA ImportStepFaithful ==
  ASSUME VmInv, RootInv, ImportInv, BuiltInv, ImportNext
  PROVE  Faithful
<1> SUFFICES ASSUME Len(frames') < Len(frames), last'.ok
             PROVE  Represents(Top.graph, Top.vals[1], cells')
  BY DEF Faithful
<1>1. ASSUME NEW g, SetTop(g)
      PROVE  FALSE
  <2>1. Len(frames') = Len(frames) /\ Len(frames) \in Nat
    BY <1>1 DEF SetTop, VmInv, FrameInv, FrameTypes
  <2> QED BY <2>1
<1>2. ASSUME UNCHANGED frames
      PROVE  FALSE
  <2>1. Len(frames') = Len(frames) /\ Len(frames) \in Nat
    BY <1>2 DEF VmInv, FrameInv, FrameTypes
  <2> QED BY <2>1
<1>3. ASSUME NEW own, NEW refused, Fails(own, refused)
      PROVE  FALSE
  BY <1>3 DEF Fails, Reported
<1>4. Return
  BY <1>1, <1>2, <1>3, Zenon DEF ImportNext, ScalarRoot, NewTable, NewShell, KeepShell, DecodeEdge,
     LinkEdge, NextNode, DecodeRoot, ImportRaises, CollectInImport, Invalid,
     PostludeRefused, PostludeCaught, Continue, SetTop, Phase, callVars
<1>5. InImport /\ Top.phase = "root" /\ Top.vals # <<>> /\ cells' = cells
  BY <1>4, Zenon DEF Return, Phase
<1> QED BY <1>5, FinishedGraph

\* An import that succeeds returns the graph of the capsule, every node once,
\* with its kind, bytes, flags and references, whatever ran and was collected in
\* between (src/shim.c, mrz_artifact_materialize_body).
THEOREM ImportFaithfulHolds == SafeSpec => ImportFaithful
<1>1. VmInv /\ RootInv /\ ImportInv /\ BuiltInv /\ [SafeNext]_vmVars => [Faithful]_vmVars
  <2> SUFFICES ASSUME VmInv, RootInv, ImportInv, BuiltInv, SafeNext
               PROVE  Faithful
    BY Zenon
  <2>1. CASE Host
    <3>1. Top.kind # "import" \/ UNCHANGED frames
      <4>1. InZig => Top.kind # "import"
        BY DEF InZig
      <4> QED BY <2>1, <4>1, Zenon DEF Host, CallOperation, ReadDetails, FailCallback, ImportGraph,
            Unroot, Root, RootReturns, OpenScope, CloseScope, ClearError, CaptureErrorView,
            ClearErrorView, Call, Import, callVars
    <3>2. UNCHANGED frames => ~(Len(frames') < Len(frames))
      <4>1. Len(frames) \in Nat
        BY DEF VmInv, FrameInv, FrameTypes
      <4> QED BY <4>1
    <3> QED BY <3>1, <3>2, Zenon DEF Faithful
  <2>2. CASE OpNext
    <3>1. InOp \/ InZig => Top.kind # "import"
      BY DEF InOp, InZig
    <3>2. Top.kind # "import"
      BY <2>2, <3>1, Zenon DEF OpNext, EndBody, BodyDone, OutOfMemory, Check, Memory, Object, Read,
         Link, Register, Absent, GuestStores, GuestReturns, GuestRaises, LoadFails, CallHost,
         ReturnToGuest, GuestHandles, Collect, InGuest, At
    <3> QED BY <3>2, Zenon DEF Faithful
  <2>3. CASE ImportNext
    BY <2>3, ImportStepFaithful
  <2> QED BY <2>1, <2>2, <2>3, Zenon DEF SafeNext
<1>2. SafeSpec => [][Faithful]_vmVars
  BY <1>1, VmInvHolds, ImportInvHolds, RootInvHolds, BuiltInvHolds, PTL DEF SafeSpec
<1> QED BY <1>2, Zenon DEF ImportFaithful, Faithful
=============================================================================
