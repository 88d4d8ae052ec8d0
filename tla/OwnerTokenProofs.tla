-------------------------- MODULE OwnerTokenProofs --------------------------
(***************************************************************************)
(* What the owner token promises, for any number of threads, cells and     *)
(* blocks and all caps: LedgerExact, RefsExact, TokenOutlivesUse, CapsHeld *)
(* and RefusalReported.                                                    *)
(*                                                                         *)
(* A call sees the header of its block once, before the backing allocator  *)
(* runs.  The strengthening says how that copy relates to the header at    *)
(* each stage, and that no two calls work on one block; from it follows    *)
(* that each step moves at most one block and one call in or out of a      *)
(* token's count.                                                          *)
(***************************************************************************)
EXTENDS OwnerToken, FiniteSetTheorems, SequenceTheorems, TLAPS

Types ==
  /\ attached \in [Cells -> BOOLEAN]
  /\ refs \in [Cells -> Int]
  /\ live_bytes \in [Cells -> Nat] /\ live_allocs \in [Cells -> Nat]
  /\ oom_bits \in [Cells -> SUBSET {"soft", "hard"}]
  /\ noted \in [Cells -> BOOLEAN]
  /\ header \in [Blocks -> Headers]
  /\ attribution \in [Threads -> Seq(Cells)]
  /\ call \in [Threads -> Calls]
  /\ overlap \in [Cells -> BOOLEAN]

\* What a call knows of its block at its stage.
Consistent(k) ==
  /\ k.at = "idle" => k = Idle
  /\ k.at # "idle" => k.block \in Blocks /\ k.old.owner \in {NoCell, k.owner}
  /\ k.at \in {"notify", "account", "release"} => k.owner \in Cells
  /\ k.at \in {"notify", "backing"} => header[k.block] = k.old
  /\ k.at = "account" => header[k.block] = [size |-> k.size, owner |-> k.owner]
  /\ k.at = "release" => header[k.block] = NoHeader /\ k.old.owner = k.owner

CallInv ==
  /\ \A t \in Threads : Consistent(call[t])
  /\ \A t, u \in Threads : t # u /\ call[t].block \in Blocks =>
       call[t].block # call[u].block

\* A guard is taken on a live cell, which is retired only without guards.
GuardInv ==
  \A t \in Threads : \A i \in DOMAIN attribution[t] : attached[attribution[t][i]]

\* As long as calls on a cell do not overlap, the one that was admitted fits when
\* it is accounted: in between, other calls can only give bytes back.
Fits(bytes, c) == bytes <= SoftCap[c] /\ bytes <= HardCap[c]

CapsInv ==
  \A c \in Cells : attached[c] /\ ~overlap[c] =>
    /\ Fits(live_bytes[c], c)
    /\ \A t \in Threads : Admitted(t, c) =>
         /\ Fits(ProjectedLive(call[t].old, call[t].size, c), c)
         /\ \A u \in Threads : Admitted(u, c) => u = t

TokenInv ==
  Types /\ CallInv /\ GuardInv /\ CapsInv /\ LedgerExact /\ RefsExact
  /\ RefusalReported

----------------------------------------------------------------------------
(***************************************************************************)
(* One call on one block.                                                  *)
(***************************************************************************)
\* A step in which t is the only thread at work on b, and on nothing else.
WorksOn(t, b) ==
  /\ \A u \in Threads \ {t} : call'[u] = call[u] /\ call[u].block # b
  /\ call[t].block \in {b, NoBlock} /\ call'[t].block \in {b, NoBlock}
  /\ \A x \in Blocks \ {b} : header'[x] = header[x]

\* Other calls keep their block, and what they know of it.
LEMMA CallStep ==
  ASSUME CallInv, Types, NEW t \in Threads, NEW b \in Blocks, WorksOn(t, b),
         Consistent(call[t])'
  PROVE  CallInv'
<1>1. ASSUME NEW u \in Threads \ {t}
      PROVE  Consistent(call[u])'
  <2>1. call'[u] = call[u] /\ Consistent(call[u]) /\ call[u].block # b
    BY DEF CallInv, WorksOn
  <2>2. call[u].at # "idle" => header'[call[u].block] = header[call[u].block]
    BY <2>1 DEF Consistent, WorksOn
  <2> QED BY <2>1, <2>2 DEF Consistent
<1>2. \A u \in Threads : Consistent(call[u])'
  BY <1>1
<1>3. ASSUME NEW u \in Threads, NEW v \in Threads, u # v, call'[u].block \in Blocks
      PROVE  call'[u].block # call'[v].block
  BY <1>3, OwnerTokenAssumption DEF CallInv, WorksOn
<1> QED BY <1>2, <1>3 DEF CallInv

\* The call that CHOOSE finds.
LEMMA ChosenCall ==
  ASSUME NEW f, NEW t \in Threads, NEW b, f[t].block = b,
         \A u \in Threads : f[u].block = b => u = t
  PROVE  (CHOOSE u \in Threads : f[u].block = b) = t
  OBVIOUS

\* What is counted for a block that a call is at work on.
LEMMA CountedAt ==
  ASSUME CallInv, NEW t \in Threads, call[t].block \in Blocks
  PROVE  Counted(call[t].block) = call[t].old
<1>1. (CHOOSE u \in Threads : call[u].block = call[t].block) = t
  BY ChosenCall DEF CallInv
<1> QED BY <1>1 DEF Counted, Untouched

\* Such a step changes what is counted for no other block.
LEMMA CountedStep ==
  ASSUME CallInv, NEW t \in Threads, NEW b \in Blocks, WorksOn(t, b)
  PROVE  /\ Counted(b) = IF call[t].block = b THEN call[t].old ELSE header[b]
         /\ Counted(b)' = IF call'[t].block = b THEN call'[t].old ELSE header'[b]
         /\ \A x \in Blocks \ {b} : Counted(x)' = Counted(x)
<1>1. Counted(b) = IF call[t].block = b THEN call[t].old ELSE header[b]
  <2>1. CASE call[t].block = b
    BY <2>1, CountedAt
  <2>2. CASE call[t].block # b
    BY <2>2 DEF Counted, Untouched, WorksOn
  <2> QED BY <2>1, <2>2
<1>2. Counted(b)' = IF call'[t].block = b THEN call'[t].old ELSE header'[b]
  <2>1. CASE call'[t].block = b
    <3>1. \A u \in Threads : call'[u].block = b => u = t
      BY DEF WorksOn
    <3>2. (CHOOSE u \in Threads : call'[u].block = b) = t
      BY <2>1, <3>1, ChosenCall
    <3> QED BY <2>1, <3>2 DEF Counted, Untouched
  <2>2. CASE call'[t].block # b
    BY <2>2 DEF Counted, Untouched, WorksOn
  <2> QED BY <2>1, <2>2
<1>3. ASSUME NEW x \in Blocks \ {b}
      PROVE  Counted(x)' = Counted(x)
  <2>1. call[t].block # x /\ call'[t].block # x
    BY OwnerTokenAssumption DEF WorksOn
  <2>2. \A u \in Threads : (call'[u].block = x) <=> (call[u].block = x)
    BY <2>1 DEF WorksOn
  <2>3. CASE Untouched(x)
    BY <2>2, <2>3 DEF Counted, Untouched, WorksOn
  <2>4. CASE ~Untouched(x)
    <3>1. PICK u \in Threads : call[u].block = x
      BY <2>4 DEF Untouched
    <3>2. \A v \in Threads : call[v].block = x => v = u
      BY <3>1 DEF CallInv
    <3>3. (CHOOSE v \in Threads : call'[v].block = x) = u
      BY <2>2, <3>1, <3>2, ChosenCall
    <3>4. Counted(x)' = call'[u].old
      BY <2>2, <3>1, <3>3 DEF Counted, Untouched
    <3>5. Counted(x) = call[u].old
      BY <3>1, CountedAt
    <3>6. call'[u] = call[u]
      BY <2>1, <3>1 DEF WorksOn
    <3> QED BY <3>4, <3>5, <3>6
  <2> QED BY <2>3, <2>4
<1> QED BY <1>1, <1>2, <1>3

----------------------------------------------------------------------------
(***************************************************************************)
(* References.                                                             *)
(***************************************************************************)
Bit(p) == IF p THEN 1 ELSE 0

\* The calls that took a reference for a header they have yet to write.
Pending(c) == {t \in Threads : Admitted(t, c) /\ call[t].old.owner = NoCell}

\* What block b, and the call k on it, contribute to the references of c.
Share(k, h, b, c) ==
  Bit((IF k.block = b THEN k.old ELSE h[b]).owner = c)
  + Bit(k.at \in {"backing", "account"} /\ k.owner = c /\ k.old.owner = NoCell)

\* Sets that differ at most in e differ by at most one element.
LEMMA CardinalityStep ==
  ASSUME NEW S, IsFiniteSet(S), NEW e, NEW T, T \ {e} = S \ {e}
  PROVE  /\ Cardinality(S) \in Nat /\ Cardinality(T) \in Nat
         /\ Cardinality(T) = Cardinality(S) + Bit(e \in T) - Bit(e \in S)
<1> DEFINE R == S \ {e}
<1>1. IsFiniteSet(R) /\ Cardinality(R) \in Nat
  BY FS_RemoveElement, FS_CardinalityType
<1>2. ASSUME NEW X, X \ {e} = R
      PROVE  Cardinality(X) = Cardinality(R) + Bit(e \in X)
  <2>1. CASE e \in X
    <3>1. X = R \cup {e} /\ e \notin R
      BY <1>2, <2>1
    <3>2. Cardinality(X) = Cardinality(R) + 1
      BY <1>1, <3>1, FS_AddElement
    <3> QED BY <2>1, <3>2 DEF Bit
  <2>2. CASE e \notin X
    <3>1. X = R
      BY <1>2, <2>2
    <3> QED BY <1>1, <2>2, <3>1 DEF Bit
  <2> QED BY <2>1, <2>2
<1>3. /\ Cardinality(S) = Cardinality(R) + Bit(e \in S)
      /\ Cardinality(T) = Cardinality(R) + Bit(e \in T)
  BY <1>2
<1>4. Bit(e \in S) \in Nat /\ Bit(e \in T) \in Nat
  BY DEF Bit
<1> HIDE DEF R
<1> QED BY <1>1, <1>3, <1>4

\* The sets whose sizes are counted are finite.
LEMMA CountedFinite ==
  ASSUME NEW c
  PROVE  IsFiniteSet(Holding(c)) /\ IsFiniteSet(Pending(c))
<1>1. Holding(c) \in SUBSET Blocks /\ Pending(c) \in SUBSET Threads
  BY DEF Holding, Pending
<1> QED BY <1>1, OwnerTokenAssumption, FS_Subset

\* The references stay exact when they change by what the block and its call do.
LEMMA RefsStep ==
  ASSUME CallInv, Types, RefsExact, NEW t \in Threads, NEW b \in Blocks,
         WorksOn(t, b), attached' = attached,
         \A c \in Cells : refs'[c] = refs[c] + Share(call'[t], header', b, c)
                                              - Share(call[t], header, b, c)
  PROVE  RefsExact'
<1> SUFFICES ASSUME NEW c \in Cells
             PROVE  refs'[c] = (IF attached'[c] THEN 1 ELSE 0)
                               + Cardinality(Holding(c)') + Cardinality(Pending(c)')
  BY DEF RefsExact, Pending
<1>1. refs[c] = (IF attached[c] THEN 1 ELSE 0)
                + Cardinality(Holding(c)) + Cardinality(Pending(c))
  BY DEF RefsExact, Pending
<1>2. Holding(c)' \ {b} = Holding(c) \ {b}
  BY CountedStep DEF Holding
<1>3. Pending(c)' \ {t} = Pending(c) \ {t}
  BY DEF Pending, Admitted, WorksOn
<1>4. /\ Cardinality(Holding(c)) \in Nat /\ Cardinality(Holding(c)') \in Nat
      /\ Cardinality(Holding(c)') = Cardinality(Holding(c))
           + Bit(b \in Holding(c)') - Bit(b \in Holding(c))
  BY <1>2, CountedFinite, CardinalityStep
<1>5. /\ Cardinality(Pending(c)) \in Nat /\ Cardinality(Pending(c)') \in Nat
      /\ Cardinality(Pending(c)') = Cardinality(Pending(c))
           + Bit(t \in Pending(c)') - Bit(t \in Pending(c))
  BY <1>3, CountedFinite, CardinalityStep
<1>6. /\ (b \in Holding(c)) <=>
           (IF call[t].block = b THEN call[t].old ELSE header[b]).owner = c
      /\ (b \in Holding(c)') <=>
           (IF call'[t].block = b THEN call'[t].old ELSE header'[b]).owner = c
  BY CountedStep DEF Holding
<1>7. /\ Bit(b \in Holding(c)) + Bit(t \in Pending(c)) = Share(call[t], header, b, c)
      /\ Bit(b \in Holding(c)') + Bit(t \in Pending(c)')
           = Share(call'[t], header', b, c)
  BY <1>6 DEF Share, Bit, Pending, Admitted
<1>8. /\ Bit(b \in Holding(c)) \in Nat /\ Bit(t \in Pending(c)) \in Nat
      /\ Bit(b \in Holding(c)') \in Nat /\ Bit(t \in Pending(c)') \in Nat
  BY DEF Bit
<1> QED BY <1>1, <1>4, <1>5, <1>7, <1>8

----------------------------------------------------------------------------
(***************************************************************************)
(* The ledger.  A sum is a count of units, which needs no induction but    *)
(* the one that says the fold is that count.                               *)
(***************************************************************************)
\* One element for every unit that the elements of S weigh.
Units(w, S) == {p \in S \X Nat : 1 <= p[2] /\ p[2] <= w[p[1]]}

\* The equation that the fold solves.
Solves(w, S, g) ==
  g = [s \in SUBSET S |-> IF s = {} THEN 0
         ELSE w[CHOOSE x \in s : TRUE] + g[s \ {CHOOSE x \in s : TRUE}]]

LEMMA IntervalSize ==
  ASSUME NEW n \in Nat
  PROVE  IsFiniteSet(1 .. n) /\ Cardinality(1 .. n) = n
<1>1. 1 \in Int /\ n \in Int
  OBVIOUS
<1>2. IsFiniteSet(1 .. n) /\ Cardinality(1 .. n) = IF 1 > n THEN 0 ELSE n - 1 + 1
  BY <1>1, FS_Interval
<1>3. (IF 1 > n THEN 0 ELSE n - 1 + 1) = n
  OBVIOUS
<1> QED BY <1>2, <1>3

\* An element adds its weight.
LEMMA UnitsStep ==
  ASSUME NEW S, IsFiniteSet(S), NEW n \in Nat, NEW w, \A s \in S : w[s] \in 0 .. n,
         NEW x \in S
  PROVE  /\ Cardinality(Units(w, S)) \in Nat
         /\ Cardinality(Units(w, S \ {x})) \in Nat
         /\ Cardinality(Units(w, S)) = w[x] + Cardinality(Units(w, S \ {x}))
<1> DEFINE X == {x} \X (1 .. w[x])
           R == Units(w, S \ {x})
<1>1. w[x] \in 0 .. n /\ w[x] \in Nat
  OBVIOUS
<1>2. IsFiniteSet(X) /\ Cardinality(X) = w[x]
  <2>1. IsFiniteSet({x}) /\ Cardinality({x}) = 1
    BY FS_Singleton
  <2>2. IsFiniteSet(1 .. w[x]) /\ Cardinality(1 .. w[x]) = w[x]
    BY <1>1, IntervalSize
  <2>3. IsFiniteSet(X) /\ Cardinality(X) = 1 * w[x]
    BY <2>1, <2>2, FS_Product
  <2> QED BY <1>1, <2>3
<1>3. IsFiniteSet(R)
  <2>1. IsFiniteSet(S \X (1 .. n))
    BY IntervalSize, FS_Product
  <2>2. ASSUME NEW p \in R
        PROVE  p \in S \X (1 .. n)
    <3>1. /\ p \in (S \ {x}) \X Nat /\ p[1] \in S /\ p[2] \in Nat
          /\ p = <<p[1], p[2]>> /\ 1 <= p[2] /\ p[2] <= w[p[1]]
      BY DEF Units
    <3>2. w[p[1]] \in 0 .. n
      BY <3>1
    <3>3. p[2] \in 1 .. n
      BY <3>1, <3>2
    <3> QED BY <3>1, <3>3
  <2>3. R \in SUBSET (S \X (1 .. n))
    BY <2>2
  <2> QED BY <2>1, <2>3, FS_Subset
<1>4. Units(w, S) = X \cup R /\ X \cap R = {}
  <2>1. ASSUME NEW p
        PROVE  (p \in Units(w, S)) <=> (p \in X \/ p \in R)
    <3>1. (p \in X) <=> (p \in {x} \X Nat /\ 1 <= p[2] /\ p[2] <= w[x])
      BY <1>1
    <3> QED BY <3>1 DEF Units
  <2> QED BY <2>1 DEF Units
<1>5. Cardinality(R) \in Nat
  BY <1>3, FS_CardinalityType
<1>6. Cardinality(X \cup R) = w[x] + Cardinality(R)
  <2>1. Cardinality(X \cup R) = Cardinality(X) + Cardinality(R) - Cardinality({})
    <3> HIDE DEF X, R
    <3> QED BY <1>2, <1>3, <1>4, FS_Union
  <2> HIDE DEF X, R
  <2> QED BY <1>1, <1>2, <1>5, <2>1, FS_EmptySet
<1> HIDE DEF X, R
<1> QED BY <1>1, <1>4, <1>5, <1>6 DEF R

\* The count solves the equation of the fold.
LEMMA UnitsFold ==
  ASSUME NEW S, IsFiniteSet(S), NEW n \in Nat, NEW w, \A s \in S : w[s] \in 0 .. n
  PROVE  Solves(w, S, [s \in SUBSET S |-> Cardinality(Units(w, s))])
<1> DEFINE g == [s \in SUBSET S |-> Cardinality(Units(w, s))]
<1>1. ASSUME NEW s \in SUBSET S
      PROVE  g[s] = IF s = {} THEN 0
                    ELSE w[CHOOSE x \in s : TRUE] + g[s \ {CHOOSE x \in s : TRUE}]
  <2>1. CASE s = {}
    <3>1. Units(w, s) = {}
      BY <2>1 DEF Units
    <3> QED BY <2>1, <3>1, FS_EmptySet
  <2>2. CASE s # {}
    <3> DEFINE x == CHOOSE x \in s : TRUE
    <3>1. x \in s
      BY <2>2
    <3> HIDE DEF x
    <3>2. IsFiniteSet(s) /\ \A y \in s : w[y] \in 0 .. n
      BY FS_Subset
    <3>3. Cardinality(Units(w, s)) = w[x] + Cardinality(Units(w, s \ {x}))
      BY <3>1, <3>2, UnitsStep
    <3>4. g[s] = w[x] + g[s \ {x}]
      BY <3>3
    <3> QED BY <2>2, <3>4 DEF x
  <2> QED BY <2>1, <2>2
<1> QED BY <1>1 DEF Solves

\* Nothing else does: the smallest subset with another value would have a smaller
\* one.
LEMMA FoldUnique ==
  ASSUME NEW S, IsFiniteSet(S), NEW w, NEW g, NEW h, Solves(w, S, g), Solves(w, S, h)
  PROVE  g[S] = h[S]
<1> DEFINE T == {s \in SUBSET S : g[s] # h[s]}
<1> SUFFICES ASSUME T # {} PROVE FALSE
  OBVIOUS
<1>1. IsWellFoundedOn(StrictSubsetOrdering(S), SUBSET S)
  BY FS_StrictSubsetOrderingWellFounded, FS_FiniteSubsetsOfFinite
<1>2. T \subseteq SUBSET S
  OBVIOUS
<1> HIDE DEF T
<1>3. PICK s \in T : \A r \in T : ~(<<r, s>> \in StrictSubsetOrdering(S))
  BY <1>1, <1>2, WFMin
<1> USE DEF T
<1> DEFINE x == CHOOSE x \in s : TRUE
<1>4. s \in SUBSET S /\ g[s] # h[s]
  BY <1>3
<1>5. s # {}
  BY <1>4 DEF Solves
<1>6. x \in s
  BY <1>5
<1> HIDE DEF x
<1>7. g[s \ {x}] = h[s \ {x}]
  <2>1. <<s \ {x}, s>> \in StrictSubsetOrdering(S)
    BY <1>4, <1>6 DEF StrictSubsetOrdering
  <2>2. s \ {x} \in SUBSET S
    BY <1>4
  <2> QED BY <1>3, <2>1, <2>2
<1>8. g[s] = w[x] + g[s \ {x}] /\ h[s] = w[x] + h[s \ {x}]
  BY <1>4, <1>5 DEF Solves, x
<1> QED BY <1>4, <1>7, <1>8

\* What the sum of the community modules is.
LEMMA SumIsCount ==
  ASSUME NEW S, IsFiniteSet(S), NEW n \in Nat, NEW w, \A s \in S : w[s] \in 0 .. n
  PROVE  SumFunctionOnSet(w, S) = Cardinality(Units(w, S))
<1> DEFINE f == CHOOSE g : Solves(w, S, g)
           g == [s \in SUBSET S |-> Cardinality(Units(w, s))]
<1>1. SumFunctionOnSet(w, S) = f[S]
  BY DEF SumFunctionOnSet, FoldFunctionOnSet, MapThenFoldSet, Solves
<1>2. Solves(w, S, g)
  BY UnitsFold
<1>3. Solves(w, S, f)
  BY <1>2
<1> HIDE DEF f
<1>4. f[S] = g[S]
  BY <1>2, <1>3, FoldUnique
<1> QED BY <1>1, <1>4

\* Sums over sets, and of weights, that differ at most in e differ by its weight.
LEMMA SumStep ==
  ASSUME NEW B, IsFiniteSet(B), NEW n \in Nat,
         NEW v \in [B -> 0 .. n], NEW w \in [B -> 0 .. n],
         NEW S \in SUBSET B, NEW T \in SUBSET B, NEW e \in B,
         S \ {e} = T \ {e}, \A x \in B \ {e} : v[x] = w[x]
  PROVE  \E rest \in Nat :
           /\ SumFunctionOnSet(v, S) = rest + (IF e \in S THEN v[e] ELSE 0)
           /\ SumFunctionOnSet(w, T) = rest + (IF e \in T THEN w[e] ELSE 0)
<1> DEFINE R == S \ {e}
<1>1. ASSUME NEW X \in SUBSET B, NEW u \in [B -> 0 .. n], X \ {e} = R
      PROVE  /\ Cardinality(Units(u, R)) \in Nat
             /\ SumFunctionOnSet(u, X)
                  = Cardinality(Units(u, R)) + (IF e \in X THEN u[e] ELSE 0)
  <2>1. IsFiniteSet(X) /\ \A x \in X : u[x] \in 0 .. n
    BY FS_Subset
  <2>2. SumFunctionOnSet(u, X) = Cardinality(Units(u, X))
    BY <2>1, SumIsCount
  <2>3. CASE e \in X
    <3>1. /\ Cardinality(Units(u, R)) \in Nat
          /\ Cardinality(Units(u, X)) = u[e] + Cardinality(Units(u, R))
      BY <1>1, <2>1, <2>3, UnitsStep
    <3> QED BY <2>2, <2>3, <3>1
  <2>4. CASE e \notin X
    <3>1. X = R
      BY <1>1, <2>4
    <3>2. X \cup {e} \in SUBSET B /\ (X \cup {e}) \ {e} = R
      BY <2>4, <3>1
    <3>3. IsFiniteSet(X \cup {e}) /\ \A x \in X \cup {e} : u[x] \in 0 .. n
      BY <3>2, FS_Subset
    <3>4. Cardinality(Units(u, R)) \in Nat
      BY <3>2, <3>3, UnitsStep
    <3> QED BY <2>2, <2>4, <3>1, <3>4
  <2> QED BY <2>3, <2>4
<1>2. Units(v, R) = Units(w, R)
  BY DEF Units
<1> QED BY <1>1, <1>2

----------------------------------------------------------------------------
(***************************************************************************)
(* The actions.                                                            *)
(***************************************************************************)
\* Saturating subtraction is monotone.
LEMMA MinusFacts ==
  ASSUME NEW x \in Nat, NEW y \in Nat
  PROVE  /\ Minus(x, y) \in Nat /\ Minus(x, y) <= x
         /\ \A z \in Nat : Minus(Minus(x, y), z) <= Minus(x, z)
  BY DEF Minus

\* What a call that enters finds.
LEMMA EntryFacts ==
  ASSUME Types, NEW t \in Threads, NEW b \in Blocks
  PROVE  /\ header[b] \in Headers /\ OwnerOf(t, header[b]) \in Owners
         /\ header[b].owner \in {NoCell, OwnerOf(t, header[b])}
         /\ NoHeader \in Headers /\ Idle \in Calls
         /\ CurrentOwner(t) \in Owners
<1>1. header[b] \in Headers
  BY DEF Types
<1>2. CurrentOwner(t) \in Owners
  <2>1. attribution[t] \in Seq(Cells)
    BY DEF Types
  <2>2. attribution[t] # <<>> => Head(attribution[t]) \in Cells
    BY <2>1, HeadTailProperties
  <2> QED BY <2>2 DEF CurrentOwner, Owners
<1>3. OwnerOf(t, header[b]) \in Owners /\ header[b].owner \in {NoCell, OwnerOf(t, header[b])}
  BY <1>1, <1>2 DEF OwnerOf, Owners, Headers
<1>4. NoHeader \in Headers /\ Idle \in Calls
  BY OwnerTokenAssumption DEF NoHeader, Idle, Headers, Calls, Owners, Stages
<1> QED BY <1>1, <1>2, <1>3, <1>4

\* The types of one call.
LEMMA CallTypes ==
  ASSUME Types, NEW t \in Threads
  PROVE  /\ call[t] \in Calls /\ call[t].block \in Blocks \cup {NoBlock}
         /\ call[t].at \in Stages /\ call[t].owner \in Owners
         /\ call[t].size \in 0 .. MaxSize /\ call[t].old \in Headers
         /\ call[t].size \in Nat /\ call[t].old.size \in Nat
         /\ call[t].old.owner \in Owners
<1>1. call[t] \in Calls
  BY DEF Types
<1>2. call[t].size \in 0 .. MaxSize /\ call[t].old \in Headers
  BY <1>1 DEF Calls
<1>3. call[t].old.size \in 0 .. MaxSize /\ call[t].old.owner \in Owners
  BY <1>2 DEF Headers
<1>4. call[t].size \in Nat /\ call[t].old.size \in Nat
  BY <1>2, <1>3, OwnerTokenAssumption
<1> QED BY <1>1, <1>2, <1>3, <1>4 DEF Calls

\* A call that enters works on its block, and knows its header.
LEMMA EnterWorks ==
  ASSUME Types, CallInv, NEW t \in Threads, NEW b \in Blocks, NEW size \in 0 .. MaxSize,
         NEW stage \in {"backing", "notify"}, Enter(t, b, size, stage),
         call[t] = Idle, Untouched(b), header' = header,
         stage = "notify" => OwnerOf(t, header[b]) \in Cells
  PROVE  WorksOn(t, b) /\ Consistent(call[t])' /\ call' \in [Threads -> Calls]
<1>1. call'[t] = [at |-> stage, block |-> b, old |-> header[b], size |-> size,
                  owner |-> OwnerOf(t, header[b])]
  BY DEF Enter, Types
<1>2. call' \in [Threads -> Calls]
  BY EntryFacts DEF Enter, Types, Calls, Stages
<1>3. Consistent(call[t])'
  BY <1>1, EntryFacts DEF Consistent
<1>4. WorksOn(t, b)
  BY <1>1 DEF WorksOn, Enter, Types, Untouched, Idle
<1> QED BY <1>2, <1>3, <1>4

\* So does one that returns.
LEMMA ReturnWorks ==
  ASSUME Types, CallInv, NEW t \in Threads, call[t].at # "idle", header' = header,
         call' = [call EXCEPT ![t] = Idle]
  PROVE  /\ call[t].block \in Blocks /\ WorksOn(t, call[t].block)
         /\ Consistent(call[t])' /\ call' \in [Threads -> Calls] /\ call'[t] = Idle
<1>1. call'[t] = Idle
  BY DEF Types
<1>2. call[t].block \in Blocks
  BY DEF CallInv, Consistent
<1>3. call' \in [Threads -> Calls]
  BY <1>2, EntryFacts DEF Types
<1>4. WorksOn(t, call[t].block)
  BY <1>1, <1>2 DEF WorksOn, CallInv, Idle, Types
<1> QED BY <1>1, <1>2, <1>3, <1>4 DEF Consistent, Idle

\* The block that the header is written for.
LEMMA WriteWorks ==
  ASSUME Types, CallInv, NEW t \in Threads, WriteHeader(t)
  PROVE  /\ call[t].block \in Blocks /\ WorksOn(t, call[t].block)
         /\ Consistent(call[t])' /\ call' \in [Threads -> Calls]
         /\ header' \in [Blocks -> Headers]
         /\ header'[call[t].block] = [size |-> call[t].size, owner |-> call[t].owner]
         /\ call'[t] = IF call[t].owner = NoCell THEN Idle
                       ELSE [call[t] EXCEPT !.at = "account"]
<1> DEFINE b == call[t].block
<1>1. b \in Blocks
  BY DEF CallInv, Consistent, WriteHeader
<1>2. call'[t] = IF call[t].owner = NoCell THEN Idle
                 ELSE [call[t] EXCEPT !.at = "account"]
  BY DEF WriteHeader, Types
<1>3. call'[t] \in Calls
  BY <1>1, <1>2, EntryFacts, CallTypes DEF Calls, Stages
<1>4. call' \in [Threads -> Calls]
  BY <1>3 DEF WriteHeader, Types
<1>5. header'[b] = [size |-> call[t].size, owner |-> call[t].owner]
  BY <1>1 DEF WriteHeader, Types
<1>6. header' \in [Blocks -> Headers]
  BY CallTypes DEF WriteHeader, Types, Headers
<1>7. call'[t].block \in {b, NoBlock}
  BY <1>2, CallTypes DEF Idle, Calls
<1>8. WorksOn(t, b)
  BY <1>1, <1>7 DEF WorksOn, WriteHeader, CallInv, Types
<1>9. Consistent(call[t])'
  <2>1. CASE call[t].owner = NoCell
    BY <1>2, <2>1 DEF Consistent, Idle
  <2>2. CASE call[t].owner # NoCell
    <3>1. /\ call'[t].at = "account" /\ call'[t].block = b
          /\ call'[t].owner = call[t].owner /\ call'[t].old = call[t].old
          /\ call'[t].size = call[t].size
      BY <1>2, <2>2, CallTypes DEF Calls
    <3>2. call[t].owner \in Cells /\ call[t].old.owner \in {NoCell, call[t].owner}
      BY <2>2, CallTypes DEF Owners, CallInv, Consistent, WriteHeader
    <3> QED BY <1>1, <1>5, <3>1, <3>2 DEF Consistent
  <2> QED BY <2>1, <2>2
<1> QED BY <1>1, <1>2, <1>4, <1>5, <1>6, <1>8, <1>9

\* The block that is freed.
LEMMA FreeWorks ==
  ASSUME Types, CallInv, NEW t \in Threads, NEW b \in Blocks, Free(t, b)
  PROVE  /\ WorksOn(t, b) /\ Consistent(call[t])' /\ call' \in [Threads -> Calls]
         /\ header' \in [Blocks -> Headers] /\ header'[b] = NoHeader
         /\ call'[t] = IF header[b].owner = NoCell THEN Idle
                       ELSE [at |-> "release", block |-> b, old |-> header[b],
                             size |-> 0, owner |-> header[b].owner]
<1>1. header'[b] = NoHeader /\ header' \in [Blocks -> Headers]
  BY EntryFacts DEF Free, Types
<1>2. call'[t] = IF header[b].owner = NoCell THEN Idle
                 ELSE [at |-> "release", block |-> b, old |-> header[b],
                       size |-> 0, owner |-> header[b].owner]
  BY DEF Free, Enter, OwnerOf, Types
<1>3. 0 \in 0 .. MaxSize
  BY OwnerTokenAssumption
<1>4. header[b] \in Headers /\ header[b].owner \in Owners
  BY EntryFacts DEF Headers
<1>5. call'[t] \in Calls
  BY <1>2, <1>3, <1>4, EntryFacts DEF Calls, Stages
<1>6. call' \in [Threads -> Calls]
  BY <1>5 DEF Free, Enter, Types
<1>7. Consistent(call[t])'
  BY <1>1, <1>2, <1>4 DEF Consistent, Idle, Owners
<1>8. WorksOn(t, b)
  BY <1>2 DEF WorksOn, Free, Enter, Types, Untouched, Idle
<1> QED BY <1>1, <1>2, <1>6, <1>7, <1>8

----------------------------------------------------------------------------
(***************************************************************************)
(* The invariant.                                                          *)
(***************************************************************************)
\* Every step keeps the types.
LEMMA TypesStep ==
  ASSUME Types, CallInv, [Next]_vars
  PROVE  Types'
<1>1. CASE \E t \in Threads, c \in Cells : PushIsolate(t, c)
  <2>1. PICK t \in Threads, c \in Cells : PushIsolate(t, c)
    BY <1>1
  <2>2. <<c>> \o attribution[t] \in Seq(Cells)
    BY DEF Types
  <2> QED BY <2>1, <2>2 DEF PushIsolate, Types, cellVars
<1>2. CASE \E t \in Threads : RestoreIsolate(t)
  <2>1. PICK t \in Threads : RestoreIsolate(t)
    BY <1>2
  <2>2. Tail(attribution[t]) \in Seq(Cells)
    BY <2>1, HeadTailProperties DEF Types, RestoreIsolate
  <2> QED BY <2>1, <2>2 DEF RestoreIsolate, Types, cellVars
<1>3. CASE \E c \in Cells : Retire(c)
  BY <1>3 DEF Retire, Types
<1>4. CASE \E t \in Threads, b \in Blocks, size \in 1 .. MaxSize : Admit(t, b, size)
  <2>1. PICK t \in Threads, b \in Blocks, size \in 1 .. MaxSize : Admit(t, b, size)
    BY <1>4
  <2>2. call' \in [Threads -> Calls]
    BY <2>1, EnterWorks, OwnerTokenAssumption DEF Admit
  <2>3. overlap' \in [Cells -> BOOLEAN]
    BY <2>1, Zenon DEF Admit, Types
  <2> DEFINE c == OwnerOf(t, header[b])
  <2>4. refs' \in [Cells -> Int]
    <3>1. CASE Acquires(header[b], c)
      <4>1. c \in Cells
        BY <3>1, EntryFacts DEF Acquires, Owners
      <4>2. refs[c] + 1 \in Int /\ refs' = [refs EXCEPT ![c] = refs[c] + 1]
        BY <2>1, <3>1, <4>1 DEF Admit, Types
      <4> QED BY <4>2 DEF Types
    <3>2. CASE ~Acquires(header[b], c)
      BY <2>1, <3>2 DEF Admit, Types
    <3> QED BY <3>1, <3>2
  <2> QED BY <2>1, <2>2, <2>3, <2>4 DEF Admit, Types
<1>5. CASE \E t \in Threads, b \in Blocks, size \in 1 .. MaxSize : Refuse(t, b, size)
  <2>1. PICK t \in Threads, b \in Blocks, size \in 1 .. MaxSize : Refuse(t, b, size)
    BY <1>5
  <2>2. call' \in [Threads -> Calls]
    BY <2>1, EnterWorks, OwnerTokenAssumption DEF Refuse
  <2>3. oom_bits' \in [Cells -> SUBSET {"soft", "hard"}]
    BY <2>1 DEF Refuse, Types
  <2> QED BY <2>1, <2>2, <2>3 DEF Refuse, Types
<1>6. CASE \E t \in Threads : Notify(t)
  BY <1>6, ReturnWorks DEF Notify, Types
<1>7. CASE \E t \in Threads : BackingFails(t)
  <2>1. PICK t \in Threads : BackingFails(t)
    BY <1>7
  <2>2. call' \in [Threads -> Calls]
    BY <2>1, ReturnWorks DEF BackingFails
  <2> DEFINE c == call[t].owner
  <2>3. refs' \in [Cells -> Int]
    <3>1. CASE Acquires(call[t].old, c)
      <4>1. c \in Cells
        BY <3>1, CallTypes DEF Acquires, Owners
      <4>2. refs[c] - 1 \in Int /\ refs' = [refs EXCEPT ![c] = refs[c] - 1]
        BY <2>1, <3>1, <4>1 DEF BackingFails, ReleaseUncommitted, Types
      <4> QED BY <4>2 DEF Types
    <3>2. CASE ~Acquires(call[t].old, c)
      BY <2>1, <3>2 DEF BackingFails, ReleaseUncommitted, Types
    <3> QED BY <3>1, <3>2
  <2> QED BY <2>1, <2>2, <2>3 DEF BackingFails, Types
<1>8. CASE \E t \in Threads : WriteHeader(t)
  BY <1>8, WriteWorks DEF WriteHeader, cellVars, Types
<1>9. CASE \E t \in Threads : Account(t)
  <2>1. PICK t \in Threads : Account(t)
    BY <1>9
  <2> DEFINE c == call[t].owner
  <2>2. call' \in [Threads -> Calls]
    BY <2>1, ReturnWorks DEF Account
  <2>3. c \in Cells
    BY <2>1 DEF CallInv, Consistent, Account
  <2>4. Minus(live_bytes[c], Charged(call[t].old, c)) + call[t].size \in Nat
    <3>1. Charged(call[t].old, c) \in Nat /\ call[t].size \in Nat
      BY CallTypes DEF Charged
    <3>2. Minus(live_bytes[c], Charged(call[t].old, c)) \in Nat
      BY <2>3, <3>1, MinusFacts DEF Types
    <3> QED BY <3>1, <3>2
  <2>5. live_bytes' \in [Cells -> Nat]
    BY <2>1, <2>3, <2>4 DEF Account, Types
  <2>6. live_allocs' \in [Cells -> Nat]
    <3>1. live_allocs[c] + 1 \in Nat
      BY <2>3 DEF Types
    <3>2. \/ live_allocs' = live_allocs
          \/ live_allocs' = [live_allocs EXCEPT ![c] = live_allocs[c] + 1]
      <4>1. CASE ~attached[c]
        BY <2>1, <4>1 DEF Account
      <4>2. CASE attached[c] /\ call[t].old.owner = c
        BY <2>1, <4>2 DEF Account
      <4>3. CASE attached[c] /\ call[t].old.owner # c
        BY <2>1, <4>3 DEF Account
      <4> QED BY <4>1, <4>2, <4>3
    <3> QED BY <3>1, <3>2 DEF Types
  <2> QED BY <2>1, <2>2, <2>5, <2>6 DEF Account, Types
<1>10. CASE \E t \in Threads, b \in Blocks : Free(t, b)
  BY <1>10, FreeWorks DEF Free, cellVars, Types
<1>11. CASE \E t \in Threads : Release(t)
  <2>1. PICK t \in Threads : Release(t)
    BY <1>11
  <2> DEFINE c == call[t].owner
  <2>2. call' \in [Threads -> Calls]
    BY <2>1, ReturnWorks DEF Release
  <2>3. c \in Cells
    BY <2>1 DEF CallInv, Consistent, Release
  <2>4. Minus(live_bytes[c], call[t].old.size) \in Nat
    BY <2>3, CallTypes, MinusFacts DEF Types
  <2>5. live_bytes' \in [Cells -> Nat]
    BY <2>1, <2>3, <2>4 DEF Release, Types
  <2>6. refs' \in [Cells -> Int]
    <3>1. refs[c] - 1 \in Int /\ refs' = [refs EXCEPT ![c] = refs[c] - 1]
      BY <2>1, <2>3 DEF Release, Types
    <3> QED BY <3>1 DEF Types
  <2>7. live_allocs' \in [Cells -> Nat]
    <3>1. Minus(live_allocs[c], 1) \in Nat
      BY <2>3, MinusFacts DEF Types
    <3> QED BY <2>1, <3>1 DEF Release, Types
  <2> QED BY <2>1, <2>2, <2>5, <2>6, <2>7 DEF Release, Types
<1>12. CASE UNCHANGED vars
  BY <1>12 DEF vars, cellVars, Types
<1> QED BY <1>1, <1>2, <1>3, <1>4, <1>5, <1>6, <1>7, <1>8, <1>9, <1>10, <1>11, <1>12 DEF Next

\* A step without a call on a block keeps what calls know and what is counted.
LEMMA Unmoved ==
  ASSUME UNCHANGED <<call, header>>
  PROVE  /\ CallInv => CallInv'
         /\ \A c \in Cells : Holding(c)' = Holding(c) /\ Pending(c)' = Pending(c)
<1>1. CallInv => CallInv'
  BY DEF CallInv, Consistent
<1>2. \A b \in Blocks : Counted(b)' = Counted(b)
  BY DEF Counted, Untouched
<1> QED BY <1>1, <1>2 DEF Holding, Pending, Admitted

\* Every step keeps what calls know, and the references exact.
LEMMA ReferenceStep ==
  ASSUME Types, CallInv, RefsExact, [Next]_vars
  PROVE  CallInv' /\ RefsExact'
<1>1. CASE \E t \in Threads, c \in Cells : PushIsolate(t, c)
  BY <1>1, Unmoved DEF PushIsolate, cellVars, RefsExact, Pending
<1>2. CASE \E t \in Threads : RestoreIsolate(t)
  BY <1>2, Unmoved DEF RestoreIsolate, cellVars, RefsExact, Pending
<1>3. CASE \E c \in Cells : Retire(c)
  <2>1. PICK c \in Cells : Retire(c)
    BY <1>3
  <2>2. ASSUME NEW d \in Cells
        PROVE  refs'[d] = (IF attached'[d] THEN 1 ELSE 0)
                          + Cardinality(Holding(d)) + Cardinality(Pending(d))
    <3>1. refs[d] = (IF attached[d] THEN 1 ELSE 0)
                    + Cardinality(Holding(d)) + Cardinality(Pending(d))
      BY DEF RefsExact, Pending
    <3>2. Cardinality(Holding(d)) \in Nat /\ Cardinality(Pending(d)) \in Nat
      BY CountedFinite, FS_CardinalityType
    <3> QED BY <2>1, <3>1, <3>2 DEF Retire, Types
  <2> QED BY <2>1, <2>2, Unmoved DEF Retire, RefsExact, Pending
<1>4. CASE \E t \in Threads, b \in Blocks, size \in 1 .. MaxSize : Admit(t, b, size)
  <2>1. PICK t \in Threads, b \in Blocks, size \in 1 .. MaxSize : Admit(t, b, size)
    BY <1>4
  <2> DEFINE c == OwnerOf(t, header[b])
  <2>2. WorksOn(t, b) /\ Consistent(call[t])'
    BY <2>1, EnterWorks, OwnerTokenAssumption DEF Admit
  <2>3. call'[t] = [at |-> "backing", block |-> b, old |-> header[b], size |-> size,
                    owner |-> c]
    BY <2>1 DEF Admit, Enter, Types
  <2>4. ASSUME NEW d \in Cells
        PROVE  refs'[d] = refs[d] + Share(call'[t], header', b, d)
                                  - Share(call[t], header, b, d)
    <3>1. Share(call[t], header, b, d) = Bit(header[b].owner = d)
      BY <2>1, OwnerTokenAssumption DEF Share, Bit, Admit, Idle
    <3>2. Share(call'[t], header', b, d)
            = Bit(header[b].owner = d) + Bit(c = d /\ header[b].owner = NoCell)
      BY <2>3 DEF Share
    <3>3. refs'[d] = refs[d] + Bit(c = d /\ header[b].owner = NoCell)
      BY <2>1, OwnerTokenAssumption DEF Admit, Acquires, Bit, Types
    <3> QED BY <3>1, <3>2, <3>3 DEF Bit, Types
  <2> QED BY <2>1, <2>2, <2>4, CallStep, RefsStep DEF Admit
<1>5. CASE \E t \in Threads, b \in Blocks, size \in 1 .. MaxSize : Refuse(t, b, size)
  <2>1. PICK t \in Threads, b \in Blocks, size \in 1 .. MaxSize : Refuse(t, b, size)
    BY <1>5
  <2>2. WorksOn(t, b) /\ Consistent(call[t])'
    BY <2>1, EnterWorks, OwnerTokenAssumption DEF Refuse
  <2>3. call'[t] = [at |-> "notify", block |-> b, old |-> header[b], size |-> size,
                    owner |-> OwnerOf(t, header[b])]
    BY <2>1 DEF Refuse, Enter, Types
  <2>4. ASSUME NEW d \in Cells
        PROVE  refs'[d] = refs[d] + Share(call'[t], header', b, d)
                                  - Share(call[t], header, b, d)
    BY <2>1, <2>3, OwnerTokenAssumption DEF Share, Bit, Refuse, Idle, Types
  <2> QED BY <2>1, <2>2, <2>4, CallStep, RefsStep DEF Refuse
<1>6. CASE \E t \in Threads : Notify(t)
  <2>1. PICK t \in Threads : Notify(t)
    BY <1>6
  <2> DEFINE b == call[t].block
  <2>2. b \in Blocks /\ WorksOn(t, b) /\ Consistent(call[t])' /\ call'[t] = Idle
    BY <2>1, ReturnWorks DEF Notify
  <2>3. header[b] = call[t].old
    BY <2>1 DEF Notify, CallInv, Consistent
  <2>4. ASSUME NEW d \in Cells
        PROVE  refs'[d] = refs[d] + Share(call'[t], header', b, d)
                                  - Share(call[t], header, b, d)
    BY <2>1, <2>2, <2>3, OwnerTokenAssumption DEF Share, Bit, Notify, Idle, Types
  <2> QED BY <2>1, <2>2, <2>4, CallStep, RefsStep DEF Notify
<1>7. CASE \E t \in Threads : BackingFails(t)
  <2>1. PICK t \in Threads : BackingFails(t)
    BY <1>7
  <2> DEFINE b == call[t].block
  <2>2. b \in Blocks /\ WorksOn(t, b) /\ Consistent(call[t])' /\ call'[t] = Idle
    BY <2>1, ReturnWorks DEF BackingFails
  <2>3. header[b] = call[t].old
    BY <2>1 DEF BackingFails, CallInv, Consistent
  <2>4. ASSUME NEW d \in Cells
        PROVE  refs'[d] = refs[d] + Share(call'[t], header', b, d)
                                  - Share(call[t], header, b, d)
    <3>1. Share(call'[t], header', b, d) = Bit(call[t].old.owner = d)
      BY <2>1, <2>2, <2>3, OwnerTokenAssumption DEF Share, Bit, Idle, BackingFails
    <3>2. Share(call[t], header, b, d) = Bit(call[t].old.owner = d)
            + Bit(call[t].owner = d /\ call[t].old.owner = NoCell)
      BY <2>1 DEF Share, BackingFails
    <3>3. refs'[d] = refs[d] - Bit(call[t].owner = d /\ call[t].old.owner = NoCell)
      BY <2>1, OwnerTokenAssumption
      DEF BackingFails, ReleaseUncommitted, Acquires, Bit, Types
    <3> QED BY <3>1, <3>2, <3>3 DEF Bit, Types
  <2> QED BY <2>1, <2>2, <2>4, CallStep, RefsStep DEF BackingFails
<1>8. CASE \E t \in Threads : WriteHeader(t)
  <2>1. PICK t \in Threads : WriteHeader(t)
    BY <1>8
  <2> DEFINE b == call[t].block
             k == call'[t]
  <2>2. /\ b \in Blocks /\ WorksOn(t, b) /\ Consistent(call[t])'
        /\ header'[b] = [size |-> call[t].size, owner |-> call[t].owner]
        /\ k = IF call[t].owner = NoCell THEN Idle ELSE [call[t] EXCEPT !.at = "account"]
    BY <2>1, WriteWorks
  <2>3. call[t].at = "backing" /\ call[t].old.owner \in {NoCell, call[t].owner}
    BY <2>1 DEF WriteHeader, CallInv, Consistent
  <2>4. ASSUME NEW d \in Cells
        PROVE  refs'[d] = refs[d] + Share(k, header', b, d)
                                  - Share(call[t], header, b, d)
    <3>1. Share(k, header', b, d) = Share(call[t], header, b, d)
      <4>1. CASE call[t].owner = NoCell
        <5>1. k = Idle /\ call[t].old.owner = NoCell /\ header'[b].owner = NoCell
          BY <2>2, <2>3, <4>1
        <5> QED BY <2>2, <4>1, <5>1, OwnerTokenAssumption DEF Share, Bit, Idle
      <4>2. CASE call[t].owner # NoCell
        <5>1. /\ k.at = "account" /\ k.block = b
              /\ k.owner = call[t].owner /\ k.old = call[t].old
          BY <2>2, <4>2, CallTypes DEF Calls
        <5> QED BY <2>3, <5>1 DEF Share
      <4> QED BY <4>1, <4>2
    <3>2. Share(call[t], header, b, d) \in Int
      BY DEF Share, Bit
    <3> QED BY <2>1, <3>1, <3>2 DEF WriteHeader, cellVars, Types
  <2> QED BY <2>1, <2>2, <2>4, CallStep, RefsStep DEF WriteHeader, cellVars
<1>9. CASE \E t \in Threads : Account(t)
  <2>1. PICK t \in Threads : Account(t)
    BY <1>9
  <2> DEFINE b == call[t].block
  <2>2. b \in Blocks /\ WorksOn(t, b) /\ Consistent(call[t])' /\ call'[t] = Idle
    BY <2>1, ReturnWorks DEF Account
  <2>3. /\ header[b].owner = call[t].owner /\ call[t].owner \in Cells
        /\ call[t].old.owner \in {NoCell, call[t].owner}
    <3>1. header[b] = [size |-> call[t].size, owner |-> call[t].owner]
      BY <2>1 DEF Account, CallInv, Consistent
    <3> QED BY <2>1, <3>1 DEF Account, CallInv, Consistent
  <2>4. ASSUME NEW d \in Cells
        PROVE  refs'[d] = refs[d] + Share(call'[t], header', b, d)
                                  - Share(call[t], header, b, d)
    <3>1. Share(call'[t], header', b, d) = Bit(call[t].owner = d)
      BY <2>1, <2>2, <2>3, OwnerTokenAssumption DEF Share, Bit, Idle, Account
    <3>2. Share(call[t], header, b, d) = Bit(call[t].old.owner = d)
            + Bit(call[t].owner = d /\ call[t].old.owner = NoCell)
      BY <2>1 DEF Share, Account
    <3>3. Bit(call[t].owner = d) = Bit(call[t].old.owner = d)
            + Bit(call[t].owner = d /\ call[t].old.owner = NoCell)
      BY <2>3, OwnerTokenAssumption DEF Bit
    <3> QED BY <2>1, <3>1, <3>2, <3>3 DEF Bit, Account, Types
  <2> QED BY <2>1, <2>2, <2>4, CallStep, RefsStep DEF Account
<1>10. CASE \E t \in Threads, b \in Blocks : Free(t, b)
  <2>1. PICK t \in Threads, b \in Blocks : Free(t, b)
    BY <1>10
  <2>2. /\ WorksOn(t, b) /\ Consistent(call[t])' /\ header'[b] = NoHeader
        /\ call'[t] = IF header[b].owner = NoCell THEN Idle
                      ELSE [at |-> "release", block |-> b, old |-> header[b],
                            size |-> 0, owner |-> header[b].owner]
    BY <2>1, FreeWorks
  <2>3. ASSUME NEW d \in Cells
        PROVE  refs'[d] = refs[d] + Share(call'[t], header', b, d)
                                  - Share(call[t], header, b, d)
    <3>1. Share(call[t], header, b, d) = Bit(header[b].owner = d)
      BY <2>1, OwnerTokenAssumption DEF Share, Bit, Free, Idle
    <3>2. Share(call'[t], header', b, d) = Bit(header[b].owner = d)
      <4>1. CASE header[b].owner = NoCell
        BY <2>2, <4>1, OwnerTokenAssumption DEF Share, Bit, Idle, NoHeader
      <4>2. CASE header[b].owner # NoCell
        BY <2>2, <4>2 DEF Share, Bit
      <4> QED BY <4>1, <4>2
    <3> QED BY <2>1, <3>1, <3>2 DEF Bit, Free, cellVars, Types
  <2> QED BY <2>1, <2>2, <2>3, CallStep, RefsStep DEF Free, cellVars
<1>11. CASE \E t \in Threads : Release(t)
  <2>1. PICK t \in Threads : Release(t)
    BY <1>11
  <2> DEFINE b == call[t].block
  <2>2. b \in Blocks /\ WorksOn(t, b) /\ Consistent(call[t])' /\ call'[t] = Idle
    BY <2>1, ReturnWorks DEF Release
  <2>3. /\ header[b] = NoHeader /\ call[t].owner \in Cells
        /\ call[t].old.owner = call[t].owner
    BY <2>1 DEF Release, CallInv, Consistent
  <2>4. ASSUME NEW d \in Cells
        PROVE  refs'[d] = refs[d] + Share(call'[t], header', b, d)
                                  - Share(call[t], header, b, d)
    <3>1. Share(call'[t], header', b, d) = 0
      BY <2>1, <2>2, <2>3, OwnerTokenAssumption DEF Share, Bit, Idle, NoHeader, Release
    <3>2. Share(call[t], header, b, d) = Bit(call[t].owner = d)
      BY <2>1, <2>3, OwnerTokenAssumption DEF Share, Bit, Release
    <3>3. refs'[d] = refs[d] - Bit(call[t].owner = d)
      BY <2>1, <2>3 DEF Release, Bit, Types
    <3> QED BY <3>1, <3>2, <3>3 DEF Bit, Types
  <2> QED BY <2>1, <2>2, <2>4, CallStep, RefsStep DEF Release
<1>12. CASE UNCHANGED vars
  BY <1>12, Unmoved DEF vars, cellVars, RefsExact, Pending
<1> QED BY <1>1, <1>2, <1>3, <1>4, <1>5, <1>6, <1>7, <1>8, <1>9, <1>10, <1>11, <1>12 DEF Next

\* What is counted for block b while call k is or is not at work on it.
Sees(k, h, b) == IF k.block = b THEN k.old ELSE h[b]

Sizes == [b \in Blocks |-> Counted(b).size]

\* Cell c is told that a block went from one header to another, or neither of
\* them is of its concern.
Pays(c, old, new) ==
  \/ /\ old.owner # c /\ new.owner # c
     /\ live_bytes'[c] = live_bytes[c] /\ live_allocs'[c] = live_allocs[c]
  \/ old = new /\ live_bytes'[c] = live_bytes[c] /\ live_allocs'[c] = live_allocs[c]
  \/ /\ live_bytes'[c] = Minus(live_bytes[c], Charged(old, c)) + Charged(new, c)
     /\ live_allocs'[c] = Minus(live_allocs[c], Bit(old.owner = c)) + Bit(new.owner = c)

\* No cell has to be told.
Neutral(old, new) == new = old \/ (new.owner = NoCell /\ old.owner = NoCell)

\* What is counted for a block is a header.
LEMMA CountedType ==
  ASSUME Types, CallInv, NEW b \in Blocks
  PROVE  Counted(b) \in Headers
<1>1. CASE Untouched(b)
  BY <1>1 DEF Counted, Types
<1>2. CASE ~Untouched(b)
  <2>1. PICK t \in Threads : call[t].block = b
    BY <1>2 DEF Untouched
  <2> QED BY <2>1, CountedAt, CallTypes
<1> QED BY <1>1, <1>2

\* The accounts stay exact when the cells are told what happened to the block.
LEMMA LedgerStep ==
  ASSUME CallInv, Types, CallInv', Types', LedgerExact,
         NEW t \in Threads, NEW b \in Blocks, WorksOn(t, b),
         \A c \in Cells : attached'[c] =>
            attached[c] /\ Pays(c, Sees(call[t], header, b), Sees(call'[t], header', b))
  PROVE  LedgerExact'
<1> DEFINE old == Sees(call[t], header, b)
           new == Sees(call'[t], header', b)
<1>1. old = Counted(b) /\ new = Counted(b)'
  BY CountedStep DEF Sees
<1>2. old \in Headers /\ Sizes \in [Blocks -> 0 .. MaxSize]
  BY <1>1, CountedType DEF Headers, Sizes
<1>3. new \in Headers /\ Sizes' \in [Blocks -> 0 .. MaxSize]
  <2>1. ASSUME NEW x \in Blocks
        PROVE  Counted(x)' \in Headers
    <3>1. CASE x = b
      <4>1. CASE call'[t].block = b
        <5>1. call'[t] \in Calls
          BY DEF Types
        <5> QED BY <1>1, <3>1, <4>1, <5>1 DEF Sees, Calls
      <4>2. CASE call'[t].block # b
        BY <1>1, <3>1, <4>2 DEF Sees, Types
      <4> QED BY <4>1, <4>2
    <3>2. CASE x # b
      BY <3>2, CountedStep, CountedType
    <3> QED BY <3>1, <3>2
  <2> QED BY <1>1, <2>1 DEF Headers, Sizes
<1> HIDE DEF old, new
<1>4. Sizes[b] = old.size /\ Sizes'[b] = new.size
  BY <1>1 DEF Sizes
<1>5. old.size \in Nat /\ new.size \in Nat
  BY <1>2, <1>3, <1>4, OwnerTokenAssumption
<1> SUFFICES ASSUME NEW c \in Cells, attached'[c]
             PROVE  /\ live_allocs'[c] = Cardinality(Holding(c)')
                    /\ live_bytes'[c] = SumFunctionOnSet(Sizes', Holding(c)')
  BY DEF LedgerExact, Sizes
<1>6. /\ attached[c] /\ Pays(c, old, new)
      /\ live_allocs[c] = Cardinality(Holding(c))
      /\ live_bytes[c] = SumFunctionOnSet(Sizes, Holding(c))
  BY DEF LedgerExact, Sizes, old, new
<1>7. /\ Holding(c)' \ {b} = Holding(c) \ {b}
      /\ Holding(c) \in SUBSET Blocks /\ Holding(c)' \in SUBSET Blocks
      /\ \A x \in Blocks \ {b} : Sizes[x] = Sizes'[x]
  BY CountedStep DEF Holding, Sizes
<1>8. /\ (b \in Holding(c)) <=> (old.owner = c)
      /\ (b \in Holding(c)') <=> (new.owner = c)
  BY <1>1 DEF Holding
<1> DEFINE n == Cardinality(Holding(c))
           m == Cardinality(Holding(c)')
<1>9. n \in Nat /\ m \in Nat /\ m = n + Bit(new.owner = c) - Bit(old.owner = c)
  <2>1. Bit(b \in Holding(c)) = Bit(old.owner = c) /\ Bit(b \in Holding(c)') = Bit(new.owner = c)
    BY <1>8 DEF Bit
  <2> QED BY <1>7, <2>1, CountedFinite, CardinalityStep
<1>10. PICK rest \in Nat :
         /\ SumFunctionOnSet(Sizes, Holding(c)) = rest + Charged(old, c)
         /\ SumFunctionOnSet(Sizes', Holding(c)') = rest + Charged(new, c)
  <2>1. \E rest \in Nat :
          /\ SumFunctionOnSet(Sizes, Holding(c))
               = rest + (IF b \in Holding(c) THEN Sizes[b] ELSE 0)
          /\ SumFunctionOnSet(Sizes', Holding(c)')
               = rest + (IF b \in Holding(c)' THEN Sizes'[b] ELSE 0)
    <3> DEFINE v == Sizes
               w == Sizes'
               S == Holding(c)
               T == Holding(c)'
    <3>1. /\ IsFiniteSet(Blocks) /\ MaxSize \in Nat
          /\ v \in [Blocks -> 0 .. MaxSize] /\ w \in [Blocks -> 0 .. MaxSize]
          /\ S \in SUBSET Blocks /\ T \in SUBSET Blocks
          /\ S \ {b} = T \ {b} /\ \A x \in Blocks \ {b} : v[x] = w[x]
      BY <1>2, <1>3, <1>7, OwnerTokenAssumption
    <3> HIDE DEF v, w, S, T
    <3>2. \E rest \in Nat :
            /\ SumFunctionOnSet(v, S) = rest + (IF b \in S THEN v[b] ELSE 0)
            /\ SumFunctionOnSet(w, T) = rest + (IF b \in T THEN w[b] ELSE 0)
      BY <3>1, SumStep
    <3> QED BY <3>2 DEF v, w, S, T
  <2> QED BY <1>4, <1>8, <2>1 DEF Charged
<1> DEFINE x == SumFunctionOnSet(Sizes, Holding(c))
           y == SumFunctionOnSet(Sizes', Holding(c)')
           p == Charged(old, c)
           q == Charged(new, c)
<1>11. p \in Nat /\ q \in Nat
  BY <1>5 DEF Charged
<1>12. Bit(old.owner = c) <= n
  <2>1. n - Bit(old.owner = c) + Bit(new.owner = c) \in Nat
        /\ Bit(old.owner = c) \in Nat /\ Bit(new.owner = c) \in Nat
    BY <1>9 DEF Bit
  <2>2. CASE old.owner = c
    <3>1. Holding(c) # {}
      BY <1>8, <2>2
    <3>2. n # 0
      BY <3>1, CountedFinite, FS_EmptySet
    <3> QED BY <1>9, <2>2, <3>2 DEF Bit
  <2>3. CASE old.owner # c
    BY <1>9, <2>3 DEF Bit
  <2> QED BY <2>2, <2>3
<1>13. live_allocs[c] = n /\ live_bytes[c] = x /\ x = rest + p /\ y = rest + q
  BY <1>6, <1>10
<1> HIDE DEF n, m, x, y, p, q
<1>14. live_allocs'[c] = m /\ live_bytes'[c] = y
  <2>1. CASE /\ old.owner # c /\ new.owner # c
             /\ live_bytes'[c] = live_bytes[c] /\ live_allocs'[c] = live_allocs[c]
    BY <1>9, <1>13, <2>1 DEF Bit, Charged, p, q
  <2>2. CASE old = new /\ live_bytes'[c] = live_bytes[c] /\ live_allocs'[c] = live_allocs[c]
    <3>1. m = n
      BY <1>9, <2>2 DEF Bit
    <3>2. p = q
      BY <2>2 DEF p, q
    <3> QED BY <1>13, <2>2, <3>1, <3>2
  <2>3. CASE /\ live_bytes'[c] = Minus(live_bytes[c], p) + q
             /\ live_allocs'[c] = Minus(live_allocs[c], Bit(old.owner = c)) + Bit(new.owner = c)
    <3>1. live_bytes'[c] = y
      BY <1>11, <1>13, <2>3 DEF Minus
    <3>2. Bit(old.owner = c) \in Nat /\ Bit(new.owner = c) \in Nat
      BY DEF Bit
    <3>3. live_allocs'[c] = m
      BY <1>9, <1>12, <1>13, <2>3, <3>2 DEF Minus
    <3> QED BY <3>1, <3>3
  <2> QED BY <1>6, <2>1, <2>2, <2>3 DEF Pays, p, q
<1> QED BY <1>14 DEF m, y

\* In particular when they are told nothing, and nothing of theirs happened.
LEMMA LedgerIdle ==
  ASSUME CallInv, Types, CallInv', Types', LedgerExact,
         NEW t \in Threads, NEW b \in Blocks, WorksOn(t, b),
         UNCHANGED <<attached, live_bytes, live_allocs>>,
         Neutral(Sees(call[t], header, b), Sees(call'[t], header', b))
  PROVE  LedgerExact'
<1> DEFINE old == Sees(call[t], header, b)
           new == Sees(call'[t], header', b)
<1>1. \A c \in Cells : Pays(c, old, new)
  BY OwnerTokenAssumption DEF Pays, Neutral
<1> QED BY <1>1, LedgerStep

\* Or when no call is at work.
LEMMA LedgerKept ==
  ASSUME LedgerExact, UNCHANGED <<call, header, live_bytes, live_allocs>>,
         \A c \in Cells : attached'[c] => attached[c]
  PROVE  LedgerExact'
<1>1. \A b \in Blocks : Counted(b)' = Counted(b)
  BY DEF Counted, Untouched
<1>2. Sizes' = Sizes /\ \A c \in Cells : Holding(c)' = Holding(c)
  BY <1>1 DEF Sizes, Holding
<1> QED BY <1>2 DEF LedgerExact, Sizes

\* Every step keeps the accounts exact.
LEMMA LedgersStep ==
  ASSUME Types, CallInv, Types', CallInv', LedgerExact, [Next]_vars
  PROVE  LedgerExact'
<1>1. CASE (\E t \in Threads, c \in Cells : PushIsolate(t, c))
           \/ (\E t \in Threads : RestoreIsolate(t)) \/ (\E c \in Cells : Retire(c))
  BY <1>1, LedgerKept DEF PushIsolate, RestoreIsolate, Retire, cellVars, Types
<1>2. CASE \E t \in Threads, b \in Blocks, size \in 1 .. MaxSize : Admit(t, b, size)
  <2>1. PICK t \in Threads, b \in Blocks, size \in 1 .. MaxSize : Admit(t, b, size)
    BY <1>2
  <2>2. WorksOn(t, b)
    BY <2>1, EnterWorks, OwnerTokenAssumption DEF Admit
  <2>3. Sees(call'[t], header', b) = Sees(call[t], header, b)
    BY <2>1, OwnerTokenAssumption DEF Admit, Enter, Types, Sees, Idle
  <2>9. Neutral(Sees(call[t], header, b), Sees(call'[t], header', b))
    BY <2>3 DEF Neutral
  <2>10. UNCHANGED <<attached, live_bytes, live_allocs>>
    BY <2>1 DEF Admit
  <2> QED BY <2>2, <2>9, <2>10, LedgerIdle
<1>3. CASE \E t \in Threads, b \in Blocks, size \in 1 .. MaxSize : Refuse(t, b, size)
  <2>1. PICK t \in Threads, b \in Blocks, size \in 1 .. MaxSize : Refuse(t, b, size)
    BY <1>3
  <2>2. WorksOn(t, b)
    BY <2>1, EnterWorks, OwnerTokenAssumption DEF Refuse
  <2>3. Sees(call'[t], header', b) = Sees(call[t], header, b)
    BY <2>1, OwnerTokenAssumption DEF Refuse, Enter, Types, Sees, Idle
  <2>9. Neutral(Sees(call[t], header, b), Sees(call'[t], header', b))
    BY <2>3 DEF Neutral
  <2>10. UNCHANGED <<attached, live_bytes, live_allocs>>
    BY <2>1 DEF Refuse
  <2> QED BY <2>2, <2>9, <2>10, LedgerIdle
<1>4. CASE \E t \in Threads : Notify(t) \/ BackingFails(t)
  <2>1. PICK t \in Threads : Notify(t) \/ BackingFails(t)
    BY <1>4
  <2> DEFINE b == call[t].block
  <2>2. b \in Blocks /\ WorksOn(t, b) /\ call'[t] = Idle
    BY <2>1, ReturnWorks DEF Notify, BackingFails
  <2>3. header[b] = call[t].old
    BY <2>1 DEF Notify, BackingFails, CallInv, Consistent
  <2>4. Sees(call'[t], header', b) = Sees(call[t], header, b)
    BY <2>1, <2>2, <2>3, OwnerTokenAssumption DEF Sees, Idle, Notify, BackingFails
  <2>9. Neutral(Sees(call[t], header, b), Sees(call'[t], header', b))
    BY <2>4 DEF Neutral
  <2>10. UNCHANGED <<attached, live_bytes, live_allocs>>
    BY <2>1 DEF Notify, BackingFails
  <2> QED BY <2>2, <2>9, <2>10, LedgerIdle
<1>5. CASE \E t \in Threads : WriteHeader(t)
  <2>1. PICK t \in Threads : WriteHeader(t)
    BY <1>5
  <2> DEFINE b == call[t].block
             k == call'[t]
  <2>2. /\ b \in Blocks /\ WorksOn(t, b)
        /\ header'[b] = [size |-> call[t].size, owner |-> call[t].owner]
        /\ k = IF call[t].owner = NoCell THEN Idle ELSE [call[t] EXCEPT !.at = "account"]
    BY <2>1, WriteWorks
  <2>3. call[t].at = "backing" /\ call[t].old.owner \in {NoCell, call[t].owner}
    BY <2>1 DEF WriteHeader, CallInv, Consistent
  <2>4. \/ Sees(k, header', b) = Sees(call[t], header, b)
        \/ Sees(k, header', b).owner = NoCell /\ Sees(call[t], header, b).owner = NoCell
    <3>1. CASE call[t].owner = NoCell
      <4>1. k = Idle /\ call[t].old.owner = NoCell /\ header'[b].owner = NoCell
        BY <2>2, <2>3, <3>1
      <4> QED BY <2>2, <4>1, OwnerTokenAssumption DEF Sees, Idle
    <3>2. CASE call[t].owner # NoCell
      <4>1. k.block = b /\ k.old = call[t].old
        BY <2>2, <3>2, CallTypes DEF Calls
      <4> QED BY <4>1 DEF Sees
    <3> QED BY <3>1, <3>2
  <2>9. Neutral(Sees(call[t], header, b), Sees(call'[t], header', b))
    BY <2>4 DEF Neutral
  <2>10. UNCHANGED <<attached, live_bytes, live_allocs>>
    BY <2>1 DEF WriteHeader, cellVars
  <2> QED BY <2>2, <2>9, <2>10, LedgerIdle
<1>6. CASE \E t \in Threads : Account(t)
  <2>1. PICK t \in Threads : Account(t)
    BY <1>6
  <2> DEFINE b == call[t].block
             o == call[t].owner
  <2>2. b \in Blocks /\ WorksOn(t, b) /\ call'[t] = Idle
    BY <2>1, ReturnWorks DEF Account
  <2>3. /\ header[b] = [size |-> call[t].size, owner |-> o] /\ o \in Cells
        /\ call[t].old.owner \in {NoCell, o}
    BY <2>1 DEF Account, CallInv, Consistent
  <2>4. /\ Sees(call[t], header, b) = call[t].old
        /\ Sees(call'[t], header', b) = [size |-> call[t].size, owner |-> o]
    BY <2>1, <2>2, <2>3, OwnerTokenAssumption DEF Sees, Idle, Account
  <2>5. ASSUME NEW d \in Cells, attached'[d]
        PROVE  attached[d] /\ Pays(d, call[t].old, [size |-> call[t].size, owner |-> o])
    <3>1. attached[d]
      BY <2>1, <2>5 DEF Account
    <3>2. CASE d = o
      <4>1. /\ live_bytes'[d] = Minus(live_bytes[d], Charged(call[t].old, d)) + call[t].size
            /\ call[t].old.owner = d => live_allocs'[d] = live_allocs[d]
            /\ call[t].old.owner # d => live_allocs'[d] = live_allocs[d] + 1
        BY <2>1, <2>3, <3>1, <3>2 DEF Account, Types
      <4>2. Charged([size |-> call[t].size, owner |-> o], d) = call[t].size
        BY <3>2 DEF Charged
      <4>3. Bit([size |-> call[t].size, owner |-> o].owner = d) = 1
        BY <3>2 DEF Bit
      <4>4. live_allocs'[d] = Minus(live_allocs[d], Bit(call[t].old.owner = d)) + 1
        <5>1. CASE call[t].old.owner # d
          <6>1. live_allocs[d] \in Nat
            BY DEF Types
          <6> QED BY <4>1, <5>1, <6>1 DEF Bit, Minus
        <5>2. CASE call[t].old.owner = d
          <6>1. live_allocs[d] \in Nat /\ live_allocs[d] # 0
            <7>1. b \in Holding(d)
              BY <2>2, <5>2, CountedAt DEF Holding
            <7>2. live_allocs[d] = Cardinality(Holding(d))
              BY <3>1 DEF LedgerExact
            <7> QED BY <7>1, <7>2, CountedFinite, FS_EmptySet, FS_CardinalityType
          <6> QED BY <4>1, <5>2, <6>1 DEF Bit, Minus
        <5> QED BY <5>1, <5>2
      <4> QED BY <3>1, <4>1, <4>2, <4>3, <4>4 DEF Pays
    <3>3. CASE d # o
      <4>1. live_bytes'[d] = live_bytes[d] /\ live_allocs'[d] = live_allocs[d]
        BY <2>1, <3>3 DEF Account, Types
      <4>2. call[t].old.owner # d
        BY <2>3, <3>3, OwnerTokenAssumption
      <4> QED BY <3>1, <3>3, <4>1, <4>2 DEF Pays
    <3> QED BY <3>2, <3>3
  <2> QED BY <2>1, <2>2, <2>4, <2>5, LedgerStep
<1>7. CASE \E t \in Threads, b \in Blocks : Free(t, b)
  <2>1. PICK t \in Threads, b \in Blocks : Free(t, b)
    BY <1>7
  <2>2. /\ WorksOn(t, b) /\ header'[b] = NoHeader
        /\ call'[t] = IF header[b].owner = NoCell THEN Idle
                      ELSE [at |-> "release", block |-> b, old |-> header[b],
                            size |-> 0, owner |-> header[b].owner]
    BY <2>1, FreeWorks
  <2>3. Sees(call[t], header, b) = header[b]
    BY <2>1, OwnerTokenAssumption DEF Sees, Free, Idle
  <2>4. \/ Sees(call'[t], header', b) = Sees(call[t], header, b)
        \/ /\ Sees(call'[t], header', b).owner = NoCell
           /\ Sees(call[t], header, b).owner = NoCell
    <3>1. CASE header[b].owner = NoCell
      BY <2>2, <2>3, <3>1, OwnerTokenAssumption DEF Sees, Idle, NoHeader
    <3>2. CASE header[b].owner # NoCell
      BY <2>2, <2>3, <3>2 DEF Sees
    <3> QED BY <3>1, <3>2
  <2>9. Neutral(Sees(call[t], header, b), Sees(call'[t], header', b))
    BY <2>4 DEF Neutral
  <2>10. UNCHANGED <<attached, live_bytes, live_allocs>>
    BY <2>1 DEF Free, cellVars
  <2> QED BY <2>2, <2>9, <2>10, LedgerIdle
<1>8. CASE \E t \in Threads : Release(t)
  <2>1. PICK t \in Threads : Release(t)
    BY <1>8
  <2> DEFINE b == call[t].block
             o == call[t].owner
  <2>2. b \in Blocks /\ WorksOn(t, b) /\ call'[t] = Idle
    BY <2>1, ReturnWorks DEF Release
  <2>3. header[b] = NoHeader /\ o \in Cells /\ call[t].old.owner = o
    BY <2>1 DEF Release, CallInv, Consistent
  <2>4. Sees(call[t], header, b) = call[t].old /\ Sees(call'[t], header', b) = NoHeader
    BY <2>1, <2>2, <2>3, OwnerTokenAssumption DEF Sees, Idle, Release
  <2>5. ASSUME NEW d \in Cells, attached'[d]
        PROVE  attached[d] /\ Pays(d, call[t].old, NoHeader)
    <3>1. attached[d] /\ NoHeader.owner # d /\ NoHeader.size = 0
      BY <2>1, <2>5, OwnerTokenAssumption DEF Release, NoHeader
    <3>2. CASE d = o
      <4>1. /\ live_bytes'[d] = Minus(live_bytes[d], call[t].old.size)
            /\ live_allocs'[d] = Minus(live_allocs[d], 1)
        BY <2>1, <2>3, <3>1, <3>2 DEF Release, Types
      <4>2. Minus(live_bytes[d], call[t].old.size) \in Nat
        BY CallTypes, MinusFacts DEF Types
      <4>3. Minus(live_allocs[d], 1) \in Nat
        BY MinusFacts DEF Types
      <4> QED BY <2>3, <3>1, <3>2, <4>1, <4>2, <4>3 DEF Pays, Charged, Bit
    <3>3. CASE d # o
      <4>1. live_bytes'[d] = live_bytes[d] /\ live_allocs'[d] = live_allocs[d]
        BY <2>1, <3>3 DEF Release, Types
      <4> QED BY <2>3, <3>1, <3>3, <4>1 DEF Pays
    <3> QED BY <3>2, <3>3
  <2> QED BY <2>1, <2>2, <2>4, <2>5, LedgerStep
<1>9. CASE UNCHANGED vars
  BY <1>9, LedgerKept DEF vars, cellVars
<1> QED BY <1>1, <1>2, <1>3, <1>4, <1>5, <1>6, <1>7, <1>8, <1>9 DEF Next

\* The guards of a retired cell are gone.
LEMMA GuardStep ==
  ASSUME Types, GuardInv, [Next]_vars
  PROVE  GuardInv'
<1>1. CASE \E t \in Threads, c \in Cells : PushIsolate(t, c)
  <2>1. PICK t \in Threads, c \in Cells : PushIsolate(t, c)
    BY <1>1
  <2>2. attribution[t] \in Seq(Cells)
    BY DEF Types
  <2> DEFINE s == <<c>> \o attribution[t]
  <2>3. ASSUME NEW i \in DOMAIN s
        PROVE  attached[s[i]]
    <3>1. s[i] = IF i = 1 THEN c ELSE attribution[t][i - 1]
      BY <2>2
    <3>2. i # 1 => i - 1 \in DOMAIN attribution[t]
      BY <2>2
    <3> QED BY <2>1, <3>1, <3>2 DEF GuardInv, PushIsolate
  <2> HIDE DEF s
  <2>4. attribution' = [attribution EXCEPT ![t] = s] /\ attached' = attached
    BY <2>1 DEF PushIsolate, cellVars, s
  <2> QED BY <2>3, <2>4 DEF GuardInv, Types
<1>2. CASE \E t \in Threads : RestoreIsolate(t)
  <2>1. PICK t \in Threads : RestoreIsolate(t)
    BY <1>2
  <2>2. attribution[t] \in Seq(Cells) /\ attribution[t] # <<>>
    BY <2>1 DEF Types, RestoreIsolate
  <2> DEFINE s == Tail(attribution[t])
  <2>3. ASSUME NEW i \in DOMAIN s
        PROVE  attached[s[i]]
    <3>1. s[i] = attribution[t][i + 1] /\ i + 1 \in DOMAIN attribution[t]
      BY <2>2
    <3> QED BY <3>1 DEF GuardInv
  <2> HIDE DEF s
  <2>4. attribution' = [attribution EXCEPT ![t] = s] /\ attached' = attached
    BY <2>1 DEF RestoreIsolate, cellVars, s
  <2> QED BY <2>3, <2>4 DEF GuardInv, Types
<1>3. CASE \E c \in Cells : Retire(c)
  BY <1>3 DEF Retire, GuardInv, Types
<1>4. CASE UNCHANGED <<attached, attribution>>
  BY <1>4 DEF GuardInv
<1> QED BY <1>1, <1>2, <1>3, <1>4
    DEF Next, vars, cellVars, Admit, Refuse, Notify, BackingFails, WriteHeader,
        Account, Free, Release

\* A step that writes no account and admits nothing keeps the caps.
LEMMA CapsKept ==
  ASSUME CapsInv, UNCHANGED <<live_bytes, overlap>>,
         \A c \in Cells : attached'[c] => attached[c],
         \A t \in Threads, c \in Cells :
           Admitted(t, c)' => /\ Admitted(t, c)
                              /\ call'[t].old = call[t].old
                              /\ call'[t].size = call[t].size
  PROVE  CapsInv'
  BY DEF CapsInv, ProjectedLive, Fits

\* Every step keeps admitted calls within the caps.
LEMMA CapsStep ==
  ASSUME Types, CallInv, CapsInv, [Next]_vars
  PROVE  CapsInv'
<1>1. CASE \E t \in Threads, c \in Cells : PushIsolate(t, c)
  BY <1>1, CapsKept DEF PushIsolate, cellVars, Admitted
<1>2. CASE \E t \in Threads : RestoreIsolate(t)
  BY <1>2, CapsKept DEF RestoreIsolate, cellVars, Admitted
<1>3. CASE \E c \in Cells : Retire(c)
  BY <1>3, CapsKept DEF Retire, Admitted, Types
<1>4. CASE \E t \in Threads, b \in Blocks, size \in 1 .. MaxSize : Admit(t, b, size)
  <2>1. PICK t \in Threads, b \in Blocks, size \in 1 .. MaxSize : Admit(t, b, size)
    BY <1>4
  <2> DEFINE o == OwnerOf(t, header[b])
  <2>2. /\ call'[t] = [at |-> "backing", block |-> b, old |-> header[b],
                       size |-> size, owner |-> o]
        /\ \A u \in Threads \ {t} : call'[u] = call[u]
    BY <2>1 DEF Admit, Enter, Types
  <2>3. SUFFICES ASSUME NEW c \in Cells, attached'[c], ~overlap'[c]
        PROVE  /\ Fits(live_bytes'[c], c)
               /\ \A u \in Threads : Admitted(u, c)' =>
                    /\ Fits(ProjectedLive(call[u].old, call[u].size, c)', c)
                    /\ \A v \in Threads : Admitted(v, c)' => v = u
    BY DEF CapsInv, Fits
  <2>4. attached[c] /\ ~overlap[c] /\ live_bytes' = live_bytes
    BY <2>1, <2>3 DEF Admit, Types
  <2>5. /\ Fits(live_bytes[c], c)
        /\ \A u \in Threads : Admitted(u, c) =>
             /\ Fits(ProjectedLive(call[u].old, call[u].size, c), c)
             /\ \A v \in Threads : Admitted(v, c) => v = u
    BY <2>4 DEF CapsInv
  <2>6. CASE o # c
    <3>1. \A u \in Threads : Admitted(u, c)' <=> Admitted(u, c)
      BY <2>1, <2>2, <2>6 DEF Admitted, Admit, Idle
    <3>2. \A u \in Threads : Admitted(u, c)' => call'[u] = call[u]
      BY <2>2, <2>6 DEF Admitted
    <3> QED BY <2>4, <2>5, <3>1, <3>2 DEF ProjectedLive
  <2>7. CASE o = c
    <3>1. \A u \in Threads : ~Admitted(u, c)
      BY <2>1, <2>3, <2>7 DEF Admit, Types
    <3>2. \A u \in Threads : Admitted(u, c)' => u = t
      BY <2>2, <3>1 DEF Admitted
    <3>3. Fits(ProjectedLive(header[b], size, c), c)
      BY <2>1, <2>4, <2>7 DEF Admit, Fits
    <3> QED BY <2>2, <2>4, <2>5, <3>2, <3>3 DEF ProjectedLive
  <2> QED BY <2>6, <2>7
<1>5. CASE \E t \in Threads, b \in Blocks, size \in 1 .. MaxSize : Refuse(t, b, size)
  <2>1. PICK t \in Threads, b \in Blocks, size \in 1 .. MaxSize : Refuse(t, b, size)
    BY <1>5
  <2>2. call'[t].at = "notify" /\ \A u \in Threads \ {t} : call'[u] = call[u]
    BY <2>1 DEF Refuse, Enter, Types
  <2> QED BY <2>1, <2>2, CapsKept DEF Refuse, Admitted
<1>6. CASE \E t \in Threads : Notify(t)
  BY <1>6, CapsKept DEF Notify, Admitted, Idle, Types
<1>7. CASE \E t \in Threads : BackingFails(t)
  BY <1>7, CapsKept DEF BackingFails, Admitted, Idle, Types
<1>8. CASE \E t \in Threads : WriteHeader(t)
  <2>1. PICK t \in Threads : WriteHeader(t)
    BY <1>8
  <2>2. call'[t] = IF call[t].owner = NoCell THEN Idle
                   ELSE [call[t] EXCEPT !.at = "account"]
    BY <2>1, WriteWorks
  <2>3. \A u \in Threads \ {t} : call'[u] = call[u]
    BY <2>1 DEF WriteHeader, Types
  <2>4. /\ call'[t].at \in {"idle", "account"}
        /\ call'[t].at = "account" => /\ call'[t].owner = call[t].owner
                                      /\ call'[t].old = call[t].old
                                      /\ call'[t].size = call[t].size
    BY <2>2, CallTypes DEF Calls, Idle
  <2>5. call[t].at = "backing"
    BY <2>1 DEF WriteHeader
  <2> QED BY <2>1, <2>3, <2>4, <2>5, CapsKept DEF WriteHeader, cellVars, Admitted
<1>9. CASE \E t \in Threads : Account(t)
  <2>1. PICK t \in Threads : Account(t)
    BY <1>9
  <2> DEFINE o == call[t].owner
  <2>2. o \in Cells /\ Admitted(t, o)
    BY <2>1 DEF CallInv, Consistent, Account, Admitted
  <2>3. call'[t] = Idle /\ \A u \in Threads \ {t} : call'[u] = call[u]
    BY <2>1 DEF Account, Types
  <2>4. SUFFICES ASSUME NEW c \in Cells, attached'[c], ~overlap'[c]
        PROVE  /\ Fits(live_bytes'[c], c)
               /\ \A u \in Threads : Admitted(u, c)' =>
                    /\ Fits(ProjectedLive(call[u].old, call[u].size, c)', c)
                    /\ \A v \in Threads : Admitted(v, c)' => v = u
    BY DEF CapsInv, Fits
  <2>5. attached[c] /\ ~overlap[c]
    BY <2>1, <2>4 DEF Account
  <2>6. /\ Fits(live_bytes[c], c)
        /\ \A u \in Threads : Admitted(u, c) =>
             /\ Fits(ProjectedLive(call[u].old, call[u].size, c), c)
             /\ \A v \in Threads : Admitted(v, c) => v = u
    BY <2>5 DEF CapsInv
  <2>7. \A u \in Threads : Admitted(u, c)' => u # t /\ Admitted(u, c) /\ call'[u] = call[u]
    BY <2>3 DEF Admitted, Idle
  <2>8. CASE o # c
    <3>1. live_bytes'[c] = live_bytes[c]
      BY <2>1, <2>8 DEF Account, Types
    <3> QED BY <2>6, <2>7, <3>1 DEF ProjectedLive
  <2>9. CASE o = c
    <3>1. live_bytes'[c] = ProjectedLive(call[t].old, call[t].size, c)
      BY <2>1, <2>5, <2>9 DEF Account, ProjectedLive, Types
    <3>2. \A u \in Threads : ~Admitted(u, c)'
      BY <2>2, <2>6, <2>7, <2>9
    <3> QED BY <2>2, <2>6, <2>9, <3>1, <3>2
  <2> QED BY <2>8, <2>9
<1>10. CASE \E t \in Threads, b \in Blocks : Free(t, b)
  <2>1. PICK t \in Threads, b \in Blocks : Free(t, b)
    BY <1>10
  <2>2. call'[t].at \in {"idle", "release"} /\ \A u \in Threads \ {t} : call'[u] = call[u]
    BY <2>1 DEF Free, Enter, Idle, Types
  <2> QED BY <2>1, <2>2, CapsKept DEF Free, cellVars, Admitted
<1>11. CASE \E t \in Threads : Release(t)
  <2>1. PICK t \in Threads : Release(t)
    BY <1>11
  <2>2. call'[t] = Idle /\ \A u \in Threads \ {t} : call'[u] = call[u]
    BY <2>1 DEF Release, Types
  <2>3. SUFFICES ASSUME NEW c \in Cells, attached'[c], ~overlap'[c]
        PROVE  /\ Fits(live_bytes'[c], c)
               /\ \A u \in Threads : Admitted(u, c)' =>
                    /\ Fits(ProjectedLive(call[u].old, call[u].size, c)', c)
                    /\ \A v \in Threads : Admitted(v, c)' => v = u
    BY DEF CapsInv, Fits
  <2>4. attached[c] /\ ~overlap[c]
    BY <2>1, <2>3 DEF Release
  <2>5. /\ Fits(live_bytes[c], c)
        /\ \A u \in Threads : Admitted(u, c) =>
             /\ Fits(ProjectedLive(call[u].old, call[u].size, c), c)
             /\ \A v \in Threads : Admitted(v, c) => v = u
    BY <2>4 DEF CapsInv
  <2>6. \A u \in Threads : Admitted(u, c)' => Admitted(u, c) /\ call'[u] = call[u]
    BY <2>2 DEF Admitted, Idle
  <2>7. /\ live_bytes[c] \in Nat /\ live_bytes'[c] \in Nat /\ live_bytes'[c] <= live_bytes[c]
        /\ \A z \in Nat : Minus(live_bytes'[c], z) <= Minus(live_bytes[c], z)
    <3>1. live_bytes[c] \in Nat /\ call[t].old.size \in Nat
      BY CallTypes DEF Types
    <3>2. live_bytes'[c] \in {live_bytes[c], Minus(live_bytes[c], call[t].old.size)}
      BY <2>1 DEF Release, Types
    <3>3. CASE live_bytes'[c] = live_bytes[c]
      <4>1. \A z \in Nat : Minus(live_bytes[c], z) \in Nat
        BY <3>1, MinusFacts
      <4>2. \A z \in Nat : Minus(live_bytes[c], z) <= Minus(live_bytes[c], z)
        BY <4>1
      <4> QED BY <3>1, <3>3, <4>2
    <3>4. CASE live_bytes'[c] = Minus(live_bytes[c], call[t].old.size)
      BY <3>1, <3>4, MinusFacts
    <3> QED BY <3>2, <3>3, <3>4
  <2>8. SoftCap[c] \in Nat /\ HardCap[c] \in Nat
    BY OwnerTokenAssumption
  <2>9. ASSUME NEW u \in Threads, Admitted(u, c)'
        PROVE  Fits(ProjectedLive(call[u].old, call[u].size, c)', c)
    <3> DEFINE z == Charged(call[u].old, c)
    <3>1. z \in Nat /\ call[u].size \in Nat
      BY CallTypes DEF Charged
    <3>2. /\ ProjectedLive(call[u].old, call[u].size, c) = Minus(live_bytes[c], z) + call[u].size
          /\ ProjectedLive(call[u].old, call[u].size, c)'
               = Minus(live_bytes'[c], z) + call[u].size
      BY <2>6, <2>9 DEF ProjectedLive
    <3>3. Minus(live_bytes[c], z) \in Nat /\ Minus(live_bytes'[c], z) \in Nat
      BY <2>7, <3>1, MinusFacts
    <3>4. Fits(ProjectedLive(call[u].old, call[u].size, c), c)
      BY <2>5, <2>6, <2>9
    <3> HIDE DEF z
    <3> QED BY <2>7, <2>8, <3>1, <3>2, <3>3, <3>4 DEF Fits
  <2>10. Fits(live_bytes'[c], c)
    BY <2>5, <2>7, <2>8 DEF Fits
  <2> QED BY <2>5, <2>6, <2>9, <2>10
<1>12. CASE UNCHANGED vars
  BY <1>12, CapsKept DEF vars, cellVars, Admitted
<1> QED BY <1>1, <1>2, <1>3, <1>4, <1>5, <1>6, <1>7, <1>8, <1>9, <1>10, <1>11, <1>12 DEF Next

\* A step that publishes nothing and answers no refusal keeps the reports.
LEMMA ReportsKept ==
  ASSUME RefusalReported, UNCHANGED <<oom_bits, noted>>,
         \A t \in Threads : call[t].at = "notify" => call'[t] = call[t]
  PROVE  RefusalReported'
  BY DEF RefusalReported

\* Every step keeps refusals reported.
LEMMA RefusalStep ==
  ASSUME Types, CallInv, RefusalReported, [Next]_vars
  PROVE  RefusalReported'
<1>1. CASE \E t \in Threads, b \in Blocks, size \in 1 .. MaxSize : Refuse(t, b, size)
  <2>1. PICK t \in Threads, b \in Blocks, size \in 1 .. MaxSize : Refuse(t, b, size)
    BY <1>1
  <2> DEFINE o == OwnerOf(t, header[b])
  <2>2. /\ call[t].at = "idle"
        /\ call'[t].at = "notify" /\ call'[t].owner = o
        /\ \A u \in Threads \ {t} : call'[u] = call[u]
    BY <2>1 DEF Refuse, Enter, Types, Idle
  <2>3. noted' = noted /\ \A c \in Cells \ {o} : oom_bits'[c] = oom_bits[c]
    BY <2>1 DEF Refuse, Types
  <2> QED BY <2>2, <2>3 DEF RefusalReported
<1>2. CASE \E t \in Threads : Notify(t)
  <2>1. PICK t \in Threads : Notify(t)
    BY <1>2
  <2> DEFINE o == call[t].owner
  <2>2. o \in Cells /\ oom_bits' = oom_bits /\ \A u \in Threads \ {t} : call'[u] = call[u]
    BY <2>1 DEF Notify, CallInv, Consistent, Types
  <2>3. noted'[o] /\ \A c \in Cells : noted[c] => noted'[c]
    BY <2>1, <2>2 DEF Notify, Types
  <2> QED BY <2>2, <2>3 DEF RefusalReported
<1>3. CASE \E t \in Threads, b \in Blocks, size \in 1 .. MaxSize : Admit(t, b, size)
  BY <1>3, ReportsKept DEF Admit, Enter, Types, Idle
<1>4. CASE \E t \in Threads, b \in Blocks : Free(t, b)
  BY <1>4, ReportsKept DEF Free, Enter, cellVars, Types, Idle
<1>5. CASE \E t \in Threads : BackingFails(t) \/ WriteHeader(t) \/ Account(t) \/ Release(t)
  BY <1>5, ReportsKept
  DEF BackingFails, WriteHeader, Account, Release, cellVars, Types
<1>6. CASE UNCHANGED <<oom_bits, noted, call>>
  BY <1>6, ReportsKept
<1> QED BY <1>1, <1>2, <1>3, <1>4, <1>5, <1>6
    DEF Next, vars, cellVars, PushIsolate, RestoreIsolate, Retire

LEMMA TokenInit == Init => TokenInv
<1> SUFFICES ASSUME Init PROVE TokenInv
  OBVIOUS
<1>1. Types
  <2>1. NoHeader \in Headers /\ Idle \in Calls
    BY OwnerTokenAssumption DEF NoHeader, Idle, Headers, Calls, Owners, Stages
  <2>2. /\ attached \in [Cells -> BOOLEAN] /\ noted \in [Cells -> BOOLEAN]
        /\ overlap \in [Cells -> BOOLEAN]
    BY DEF Init
  <2>3. attribution \in [Threads -> Seq(Cells)]
    BY EmptySeq DEF Init
  <2> QED BY <2>1, <2>2, <2>3 DEF Init, Types
<1>2. CallInv
  BY OwnerTokenAssumption DEF Init, CallInv, Consistent, Idle
<1>3. GuardInv
  BY DEF Init, GuardInv
<1>4. CapsInv
  <2>1. \A c \in Cells : Fits(0, c)
    BY OwnerTokenAssumption DEF Fits
  <2> QED BY <2>1 DEF Init, CapsInv, Admitted, Idle
<1>5. RefsExact
  <2> SUFFICES ASSUME NEW c \in Cells
               PROVE  refs[c] = (IF attached[c] THEN 1 ELSE 0)
                                + Cardinality(Holding(c)) + Cardinality(Pending(c))
    BY DEF RefsExact, Pending
  <2>1. \A b \in Blocks : Counted(b).owner = NoCell
    BY OwnerTokenAssumption DEF Init, Counted, Untouched, Idle, NoHeader
  <2>2. Holding(c) = {} /\ Pending(c) = {}
    BY <2>1, OwnerTokenAssumption DEF Init, Holding, Pending, Admitted, Idle
  <2> QED BY <2>2, FS_EmptySet DEF Init
<1>7. LedgerExact
  <2>1. ASSUME NEW c \in Cells
        PROVE  Holding(c) = {}
    <3>1. \A b \in Blocks : Counted(b).owner = NoCell
      BY OwnerTokenAssumption DEF Init, Counted, Untouched, Idle, NoHeader
    <3> QED BY <3>1, OwnerTokenAssumption DEF Holding
  <2>2. SumFunctionOnSet(Sizes, {}) = 0 /\ Cardinality({}) = 0
    <3>1. Units(Sizes, {}) = {}
      BY DEF Units
    <3>2. IsFiniteSet({}) /\ \A s \in {} : Sizes[s] \in 0 .. 0
      BY FS_EmptySet
    <3>3. SumFunctionOnSet(Sizes, {}) = Cardinality(Units(Sizes, {}))
      BY <3>2, SumIsCount
    <3> QED BY <3>1, <3>3, FS_EmptySet
  <2> QED BY <2>1, <2>2 DEF Init, LedgerExact, Sizes
<1>6. RefusalReported
  BY DEF Init, RefusalReported
<1> QED BY <1>1, <1>2, <1>3, <1>4, <1>5, <1>6, <1>7 DEF TokenInv

LEMMA TokenStep == TokenInv /\ [Next]_vars => TokenInv'
<1> SUFFICES ASSUME TokenInv, [Next]_vars PROVE TokenInv'
  OBVIOUS
<1>1. Types' /\ CallInv' /\ RefsExact'
  BY TypesStep, ReferenceStep DEF TokenInv
<1>2. LedgerExact'
  BY <1>1, LedgersStep DEF TokenInv
<1>3. GuardInv' /\ CapsInv' /\ RefusalReported'
  BY GuardStep, CapsStep, RefusalStep DEF TokenInv
<1> QED BY <1>1, <1>2, <1>3 DEF TokenInv

LEMMA TokenInvariant == Spec => []TokenInv
  BY TokenInit, TokenStep, PTL DEF Spec

----------------------------------------------------------------------------
\* Through adoption, resizes under another cell and frees on other threads, what a
\* live isolate is charged is the number and the size of the blocks it paid for.
THEOREM LedgerExactHolds == Spec => []LedgerExact
<1>1. TokenInv => LedgerExact
  BY DEF TokenInv
<1> QED BY <1>1, TokenInvariant, PTL

\* acquireHeaderLocked and the releases balance: at every moment the count is the
\* live cell, the headers that name it and the references taken for headers that
\* are still to be written, whatever the threads interleave.
THEOREM RefsExactHolds == Spec => []RefsExact
<1>1. TokenInv => RefsExact
  BY DEF TokenInv
<1> QED BY <1>1, TokenInvariant, PTL

\* A token is destroyed with its last use: when the count is 0 no thread is in a
\* call that will lock it, no header names it and no guard is on its cell.
THEOREM TokenOutlivesUseHolds == Spec => []TokenOutlivesUse
<1>1. ASSUME TokenInv, NEW c \in Cells, refs[c] = 0
      PROVE  /\ \A t \in Threads : call[t].at \notin {"idle", "notify"} => call[t].owner # c
             /\ \A b \in Blocks : header[b].owner # c
             /\ \A t \in Threads : CurrentOwner(t) # c
  <2> USE DEF TokenInv
  <2>1. ~attached[c] /\ Holding(c) = {} /\ Pending(c) = {}
    <3>1. /\ IsFiniteSet(Holding(c)) /\ Cardinality(Holding(c)) \in Nat
          /\ IsFiniteSet(Pending(c)) /\ Cardinality(Pending(c)) \in Nat
      BY CountedFinite, FS_CardinalityType
    <3>2. refs[c] = (IF attached[c] THEN 1 ELSE 0)
                    + Cardinality(Holding(c)) + Cardinality(Pending(c))
      BY <1>1 DEF RefsExact, Pending
    <3> DEFINE m == Cardinality(Holding(c))
               n == Cardinality(Pending(c))
    <3> HIDE DEF m, n
    <3>4. m \in Nat /\ n \in Nat /\ 0 = (IF attached[c] THEN 1 ELSE 0) + m + n
      BY <1>1, <3>1, <3>2 DEF m, n
    <3>5. ~attached[c] /\ m = 0 /\ n = 0
      BY <3>4
    <3>3. ~attached[c] /\ Cardinality(Holding(c)) = 0 /\ Cardinality(Pending(c)) = 0
      BY <3>5 DEF m, n
    <3> QED BY <3>1, <3>3, FS_EmptySet
  <2>2. ASSUME NEW t \in Threads, call[t].at \notin {"idle", "notify"}
        PROVE  call[t].owner # c
    <3> SUFFICES ASSUME call[t].owner = c PROVE FALSE
      OBVIOUS
    <3>1. call[t].at \in {"backing", "account", "release"}
      BY <1>1, <2>2, CallTypes DEF Stages
    <3>2. Consistent(call[t])
      BY <1>1 DEF CallInv
    <3>3. call[t].block \in Blocks /\ call[t].old.owner \in {NoCell, c}
      BY <3>1, <3>2 DEF Consistent
    <3>4. CASE call[t].old.owner = c
      <4>1. call[t].block \in Holding(c)
        BY <1>1, <3>3, <3>4, CountedAt DEF Holding
      <4> QED BY <2>1, <4>1
    <3>5. CASE call[t].old.owner # c
      <4>1. t \in Pending(c)
        BY <3>1, <3>2, <3>3, <3>5 DEF Pending, Admitted, Consistent
      <4> QED BY <2>1, <4>1
    <3> QED BY <3>4, <3>5
  <2>3. ASSUME NEW b \in Blocks
        PROVE  header[b].owner # c
    <3>1. CASE Untouched(b)
      BY <2>1, <3>1 DEF Holding, Counted
    <3>2. CASE ~Untouched(b)
      <4>1. PICK t \in Threads : call[t].block = b
        BY <3>2 DEF Untouched
      <4>2. Consistent(call[t]) /\ call[t].at \in Stages
        BY <1>1, CallTypes DEF CallInv
      <4>3. Counted(b) = call[t].old
        BY <1>1, <4>1, CountedAt
      <4>4. CASE call[t].at \in {"backing", "notify"}
        BY <2>1, <4>1, <4>2, <4>3, <4>4 DEF Holding, Consistent
      <4>5. CASE call[t].at = "account"
        BY <2>2, <4>1, <4>2, <4>5 DEF Consistent
      <4>6. CASE call[t].at = "release"
        BY <4>1, <4>2, <4>6, OwnerTokenAssumption DEF Consistent, NoHeader
      <4>7. CASE call[t].at = "idle"
        BY <4>1, <4>2, <4>7, OwnerTokenAssumption DEF Consistent, Idle
      <4> QED BY <4>2, <4>4, <4>5, <4>6, <4>7 DEF Stages
    <3> QED BY <3>1, <3>2
  <2>4. ASSUME NEW t \in Threads
        PROVE  CurrentOwner(t) # c
    <3>1. CASE attribution[t] = <<>>
      BY <3>1, OwnerTokenAssumption DEF CurrentOwner
    <3>2. CASE attribution[t] # <<>>
      <4>1. attribution[t] \in Seq(Cells)
        BY <1>1 DEF Types
      <4>2. 1 \in DOMAIN attribution[t] /\ Head(attribution[t]) = attribution[t][1]
        BY <3>2, <4>1, EmptySeq, LenProperties
      <4>3. attached[attribution[t][1]]
        BY <1>1, <4>2 DEF GuardInv
      <4> QED BY <2>1, <3>2, <4>2, <4>3 DEF CurrentOwner
    <3> QED BY <3>1, <3>2
  <2> QED BY <2>2, <2>3, <2>4
<1>2. TokenInv => TokenOutlivesUse
  BY <1>1 DEF TokenOutlivesUse
<1> QED BY <1>2, TokenInvariant, PTL

\* The caps that prepare checks before the backing allocator hold when the bytes
\* are accounted, as long as calls on the cell do not overlap; frees may.
THEOREM CapsHeldHolds == Spec => []CapsHeld
<1>1. TokenInv => CapsHeld
  BY DEF TokenInv, CapsInv, Fits, CapsHeld
<1> QED BY <1>1, TokenInvariant, PTL

\* noteOom is never lost: a published crossing is in the termination record of its
\* isolate, or the thread that published it is about to write it there.
THEOREM RefusalReportedHolds == Spec => []RefusalReported
<1>1. TokenInv => RefusalReported
  BY DEF TokenInv
<1> QED BY <1>1, TokenInvariant, PTL

=============================================================================
