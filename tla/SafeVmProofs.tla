---------------------------- MODULE SafeVmProofs ----------------------------
(*****************************************************************************)
(* The safe VM layer, for every set of objects and handles and every graph:  *)
(* the registry agrees with the collector's roots, a wrapper reports its own *)
(* outcome, the arena is balanced, and no raise leaves the shim except where *)
(* the allocator refuses a result's slot.                                    *)
(*                                                                           *)
(* VmInv is the inductive invariant:                                         *)
(*   FrameInv       what each frame is; Zig frames and operations alternate; *)
(*                  each frame has the slots of the arena it found, and the  *)
(*                  outermost frame's scope lies among its own               *)
(*   HeapTypes, RegistryTypes                                                *)
(*   Outcome        what is pending is what the operation on top raised, or  *)
(*                  what the last one reported                               *)
(*   Registry       an entry counts the handles on its object, and an object *)
(*                  is registered while it has an entry or its first handle  *)
(*                  is being made                                            *)
(* A step's lemma says what it does to the top frame; FrameMoves, FramePushed*)
(* and FramePopped carry FrameInv across it.                                 *)
(*****************************************************************************)
EXTENDS SafeVm, FiniteSetTheorems, SequenceTheorems, TLAPS

---------------------------------------------------------------------------
(* The operations *)

StepKinds == {"check", "memory", "object", "read", "link", "unlink", "register",
              "absent", "guest", "call", "load"}

\* Every operation but the one that registers a root.
Ordinary ==
  OnValue \cup OnNames \cup OnCallback \cup {FuncallPreserveError, PrintError, SetException}
Operations == Ordinary \cup {RegisterRoot}

\* A program runs last, and after the result was read from a guest variable
\* neither guest code nor a link changes that variable.
BodySane(body) ==
  /\ body \in Seq(StepKinds \ {"register"})
  /\ \A i \in 1 .. Len(body) : body[i] \in {"read", "call", "load"} =>
       \A j \in i + 1 .. Len(body) : body[j] \notin {"guest", "call", "load", "link", "unlink"}
  /\ \A i \in 1 .. Len(body) : body[i] = "load" => i = Len(body)

OpRecords ==
  [body: Seq(StepKinds), gives: {"nil", "argument", "value"}, clears: BOOLEAN,
   keeps: BOOLEAN, slot: BOOLEAN, pends: BOOLEAN, strict: BOOLEAN]

\* What the proofs use of an operation.
Sane(op) ==
  /\ op \in OpRecords
  /\ BodySane(op.body)
  /\ op.keeps => ~op.pends /\ \A i \in 1 .. Len(op.body) : op.body[i] # "load"
  /\ ~op.clears =>
       /\ op.keeps /\ op.gives = "nil"
       /\ \A i \in 1 .. Len(op.body) : op.body[i] \in {"object", "memory"}

LEMMA OpFields ==
  ASSUME NEW body \in Seq(StepKinds), NEW gives \in {"nil", "argument", "value"}
  PROVE  /\ Op(body, gives) \in OpRecords
         /\ Op(body, gives).body = body
         /\ Op(body, gives).clears /\ ~Op(body, gives).keeps /\ ~Op(body, gives).pends
  BY DEF Op, OpRecords

LEMMA PlainOp ==
  ASSUME NEW body, BodySane(body), NEW gives \in {"nil", "argument", "value"}
  PROVE  /\ Sane(Op(body, gives)) /\ Op(body, gives) \in OpRecords
         /\ Op(body, gives).body = body
         /\ Op(body, gives).clears /\ ~Op(body, gives).keeps /\ ~Op(body, gives).pends
<1>1. body \in Seq(StepKinds)
  BY DEF BodySane
<1> QED BY <1>1, OpFields DEF Sane

LEMMA SaneOnValue ==
  ASSUME NEW op \in OnValue
  PROVE  Sane(op)
<1>1. /\ BodySane(<<"memory", "call">>) /\ BodySane(<<"call">>)
      /\ BodySane(<<"check", "memory", "link">>)
      /\ BodySane(<<"check", "guest", "memory", "link">>)
      /\ BodySane(<<"memory", "memory", "link">>)
      /\ BodySane(<<"memory", "check", "memory", "link">>)
      /\ BodySane(<<"memory", "check", "object", "memory">>)
  BY DEF BodySane, StepKinds
<1> QED BY <1>1, PlainOp DEF OnValue, Funcall, FuncallId, ArraySet, HashSet, GlobalSet,
      IvarSet, DefineConst, DefineSingletonMethod

LEMMA SaneOnNames ==
  ASSUME NEW op \in OnNames
  PROVE  Sane(op)
<1>1. /\ BodySane(<<"check", "memory", "load">>) /\ BodySane(<<"load">>)
      /\ BodySane(<<"check", "object", "memory">>) /\ BodySane(<<"object">>) /\ BodySane(<<>>)
      /\ BodySane(<<"read">>) /\ BodySane(<<"check", "object", "guest", "memory">>)
      /\ BodySane(<<"guest", "absent", "read">>) /\ BodySane(<<"object", "memory">>)
  BY DEF BodySane, StepKinds
<1>2. /\ BodySane(<<"memory">>) /\ BodySane(<<"memory", "check", "read">>)
      /\ BodySane(<<"memory", "check", "object", "memory", "link">>)
      /\ BodySane(<<"memory", "absent", "read">>) /\ BodySane(<<"memory", "read">>)
      /\ BodySane(<<"memory", "object", "memory">>) /\ BodySane(<<"memory", "memory">>)
      /\ BodySane(<<"memory", "check", "unlink">>)
  BY DEF BodySane, StepKinds
<1>3. /\ BodySane(<<"check", "object", "memory", "check", "call">>)
      /\ BodySane(<<"memory", "absent", "object", "absent", "memory", "absent">>)
      /\ BodySane(<<"object", "memory", "check">>)
  BY DEF BodySane, StepKinds
<1>4. Sane(Lookup(2))
  <2> DEFINE walk == [i \in 1 .. 4 * 2 + 1 |->
                       <<"absent", "memory", "absent", "read">>[((i - 1) % 4) + 1]]
  <2>1. \A i \in 1 .. 9 : walk[i] \in {"absent", "memory", "read"}
    OBVIOUS
  <2>2. walk \in Seq({"absent", "memory", "read"}) /\ Len(walk) = 9
    BY <2>1
  <2> HIDE DEF walk
  <2>3. BodySane(walk)
    BY <2>1, <2>2 DEF BodySane, StepKinds
  <2> QED BY <2>3, PlainOp DEF Lookup, walk
<1>5. Sane(SetException)
  <2> DEFINE o == Op(<<"check", "object", "memory", "check", "call">>, "value")
  <2>1. Sane(o) /\ o \in OpRecords /\ o.clears /\ ~o.keeps /\ ~o.pends
    BY <1>3, PlainOp
  <2>2. SetException = [o EXCEPT !.pends = TRUE]
    BY Zenon DEF SetException
  <2> HIDE DEF o
  <2>3. /\ SetException \in OpRecords /\ SetException.body = o.body
        /\ SetException.clears = o.clears /\ SetException.keeps = o.keeps
    BY <2>1, <2>2, Zenon DEF OpRecords
  <2> QED BY <2>1, <2>3 DEF Sane
<1>6. Sane(Compile)
  <2> DEFINE o == Op(<<"memory", "absent", "object", "absent", "memory", "absent">>, "nil")
  <2>1. Sane(o) /\ o \in OpRecords /\ o.clears /\ ~o.keeps /\ ~o.pends
    BY <1>3, PlainOp
  <2>2. Compile = [o EXCEPT !.strict = TRUE]
    BY Zenon DEF Compile
  <2> HIDE DEF o
  <2>3. /\ Compile \in OpRecords /\ Compile.body = o.body
        /\ Compile.clears = o.clears /\ Compile.keeps = o.keeps
    BY <2>1, <2>2, Zenon DEF OpRecords
  <2> QED BY <2>1, <2>3 DEF Sane
<1>7. Sane(RandomSeed)
  <2> DEFINE o == Op(<<"object", "memory", "check">>, "nil")
  <2>1. Sane(o) /\ o \in OpRecords /\ o.clears /\ ~o.keeps /\ ~o.pends
    BY <1>3, PlainOp
  <2>2. RandomSeed = [o EXCEPT !.slot = FALSE]
    BY Zenon DEF RandomSeed
  <2> HIDE DEF o
  <2>3. /\ RandomSeed \in OpRecords /\ RandomSeed.body = o.body
        /\ RandomSeed.clears = o.clears /\ RandomSeed.keeps = o.keeps
    BY <2>1, <2>2, Zenon DEF OpRecords
  <2> QED BY <2>1, <2>3 DEF Sane
<1>8. /\ Sane(LoadString(TRUE)) /\ Sane(LoadString(FALSE)) /\ Sane(LoadIrep) /\ Sane(String)
      /\ Sane(Number(TRUE)) /\ Sane(Number(FALSE)) /\ Sane(ArrayNew) /\ Sane(ArrayGet)
      /\ Sane(HashNew) /\ Sane(HashGet) /\ Sane(HashKeys) /\ Sane(DataObject) /\ Sane(Freeze)
  BY <1>1, PlainOp DEF LoadString, LoadIrep, String, Number, ArrayNew, ArrayGet, HashNew,
     HashGet, HashKeys, DataObject, Freeze
<1>9. /\ Sane(Intern) /\ Sane(Define(TRUE)) /\ Sane(Define(FALSE)) /\ Sane(ConstGet)
      /\ Sane(VariableGet) /\ Sane(DefineMethod(TRUE)) /\ Sane(DefineMethod(FALSE))
      /\ Sane(MaskMethod(TRUE)) /\ Sane(MaskMethod(FALSE)) /\ Sane(RemoveConst)
  BY <1>2, PlainOp DEF Intern, Define, ConstGet, VariableGet, DefineMethod, MaskMethod,
     RemoveConst
<1> QED BY <1>4, <1>5, <1>6, <1>7, <1>8, <1>9, Zenon DEF OnNames

LEMMA OrdinarySane ==
  ASSUME NEW op \in Ordinary
  PROVE  Sane(op)
<1>1. /\ BodySane(<<"check">>) /\ BodySane(<<"memory", "check", "object">>)
      /\ BodySane(<<"memory", "call">>) /\ BodySane(<<"object", "memory">>)
  BY DEF BodySane, StepKinds
<1>2. Sane(GetArgs) /\ Sane(GetArgsKw)
  BY <1>1, PlainOp DEF GetArgs, GetArgsKw
<1>3. Sane(FuncallPreserveError)
  <2>1. /\ Sane(Funcall) /\ Funcall \in OpRecords /\ Funcall.clears /\ ~Funcall.pends
        /\ Funcall.body = <<"memory", "call">>
    BY <1>1, PlainOp DEF Funcall
  <2>2. /\ FuncallPreserveError \in OpRecords /\ FuncallPreserveError.body = Funcall.body
        /\ FuncallPreserveError.clears = Funcall.clears
        /\ FuncallPreserveError.pends = Funcall.pends
    BY <2>1, Zenon DEF OpRecords, FuncallPreserveError
  <2> QED BY <2>1, <2>2 DEF Sane
<1>4. Sane(PrintError)
  <2> DEFINE o == Op(<<"object", "memory">>, "nil")
             p == [o EXCEPT !.keeps = TRUE]
  <2>1. /\ Sane(o) /\ o \in OpRecords /\ ~o.pends /\ o.body = <<"object", "memory">>
        /\ o.gives = "nil"
    BY <1>1, PlainOp DEF Op
  <2>2. PrintError = [p EXCEPT !.clears = FALSE]
    BY Zenon DEF PrintError
  <2>3. /\ p \in OpRecords /\ p.body = o.body /\ p.keeps /\ p.pends = o.pends
        /\ p.gives = o.gives
    <3> HIDE DEF o
    <3> QED BY <2>1, Zenon DEF OpRecords
  <2> HIDE DEF p
  <2>4. /\ PrintError \in OpRecords /\ PrintError.body = p.body
        /\ PrintError.keeps = p.keeps /\ PrintError.pends = p.pends
        /\ PrintError.gives = p.gives
    <3> HIDE DEF o
    <3> QED BY <2>2, <2>3, Zenon DEF OpRecords
  <2> HIDE DEF o
  <2> QED BY <2>1, <2>3, <2>4 DEF Sane
<1> QED BY <1>2, <1>3, <1>4, SaneOnValue, SaneOnNames DEF Ordinary, OnCallback, OnNames

LEMMA RegisterRootFields ==
  /\ RegisterRoot \in OpRecords
  /\ RegisterRoot.body = <<"memory", "register">> /\ RegisterRoot.gives = "nil"
  /\ RegisterRoot.clears /\ ~RegisterRoot.keeps /\ ~RegisterRoot.pends
  /\ ~RegisterRoot.strict
  BY DEF RegisterRoot, Op, OpRecords, StepKinds

---------------------------------------------------------------------------
(* The invariant of the frames *)

After ==
  {<<"read">>, <<"return">>} \cup {<<"root", h, v>> : h \in Handles, v \in Objects}

ZigFrames == [kind: {"zig"}, base: Nat, scopes: Seq(Nat), after: After]

OpFrames ==
  [kind: {"op"}, op: Operations, pc: Nat \ {0}, entry: Nat, arg: Values,
   val: Values, saved: Values, own: Values, refused: BOOLEAN]

Phases == {"table", "shell", "edges", "root"}

ImportFrames(lists) ==
  [kind: {"import"}, graph: Graphs, entry: Nat, stale: Values,
   table: Objects \cup {Nil}, phase: Phases, node: Nat, edge: Nat, vals: lists]

IsFrame(f) == f \in ZigFrames \/ f \in OpFrames \/ f \in ImportFrames({f.vals})

HeapTypes ==
  /\ arena \in Seq(Identities)
  /\ exc \in Values /\ stored \in Values /\ view \in Values

FrameTypes ==
  /\ frames \in Seq(ToSet(frames)) /\ Len(frames) > 0
  /\ \A i \in 1 .. Len(frames) : IsFrame(frames[i])

RegistryTypes ==
  /\ handles \in [Handles -> Objects \cup {Nil, Released}]
  /\ references \in [Identities -> Nat]

\* An operation that runs guest code now.
AtGuest(f) == f.pc <= Len(f.op.body) /\ f.op.body[f.pc] \in GuestSteps

\* What an operation knows of its own failure.
Settled(f) ==
  /\ f.pc <= Len(f.op.body) + 1
  /\ f.pc <= Len(f.op.body) => f.own = Nil
  /\ ~f.op.clears \/ f.op = RegisterRoot => f.own = Nil /\ ~f.refused

\* Only the outermost frame roots values and opens a scope.
Placed(f, i) ==
  /\ f.kind = "zig" /\ (f.scopes # <<>> \/ f.after[1] = "root") => i = 1
  /\ f.kind = "op" => Settled(f) /\ (f.op = RegisterRoot => i = 2)
  /\ f.kind = "import" /\ f.phase \in {"shell", "edges"} => f.table \in Objects

\* A frame above which there is another one.
Waits(f) == f.kind = "zig" \/ (f.kind = "op" /\ AtGuest(f))

\* The slots of the arena a frame found, and will leave.
Low(f) == IF f.kind = "zig" THEN f.base ELSE f.entry

ScopeFits(f, n) == f.kind = "zig" /\ f.scopes # <<>> => f.base <= f.scopes[1] /\ f.scopes[1] <= n

\* Zig frames and operations alternate.
Stack ==
  /\ frames[1].kind = "zig"
  /\ \A i \in 1 .. Len(frames) - 1 : frames[i].kind = "zig" <=> frames[i + 1].kind # "zig"
  /\ \A i \in 1 .. Len(frames) : Placed(frames[i], i)
  /\ \A i \in 1 .. Len(frames) - 1 : Waits(frames[i])
  /\ \A i \in 1 .. Len(frames) : \A j \in i .. Len(frames) : Low(frames[i]) <= Low(frames[j])
  /\ \A i \in 1 .. Len(frames) - 1 : ScopeFits(frames[i], Low(frames[i + 1]))
  /\ Low(Top) <= Len(arena) /\ ScopeFits(Top, Len(arena))

FrameInv == FrameTypes /\ Stack

LEMMA LowOrder ==
  ASSUME FrameInv
  PROVE  \A i \in 1 .. Len(frames) : \A j \in i .. Len(frames) : Low(frames[i]) <= Low(frames[j])
  BY Zenon DEF FrameInv, Stack

LEMMA StackFacts ==
  ASSUME FrameInv
  PROVE  /\ \A i \in 1 .. Len(frames) : Placed(frames[i], i)
         /\ \A i \in 1 .. Len(frames) - 1 : Waits(frames[i])
         /\ \A i \in 1 .. Len(frames) - 1 : ScopeFits(frames[i], Low(frames[i + 1]))
  BY Zenon DEF FrameInv, Stack

LEMMA TopType ==
  ASSUME FrameInv
  PROVE  /\ Len(frames) \in Nat /\ Len(frames) > 0 /\ IsFrame(Top)
         /\ Placed(Top, Len(frames))
         /\ Top.kind = "zig" => Top \in ZigFrames
         /\ Top.kind = "op" => Top \in OpFrames
         /\ Top.kind = "import" => Top \in ImportFrames({Top.vals})
         /\ Low(Top) \in Nat
<1>1. Len(frames) \in Nat /\ Len(frames) > 0 /\ IsFrame(Top) /\ Placed(Top, Len(frames))
  BY DEF FrameInv, FrameTypes, Stack, Top
<1>2. /\ Top.kind = "zig" => Top \in ZigFrames
      /\ Top.kind = "op" => Top \in OpFrames
      /\ Top.kind = "import" => Top \in ImportFrames({Top.vals})
  BY <1>1 DEF IsFrame, ZigFrames, OpFrames, ImportFrames
<1>3. Low(Top) \in Nat
  BY <1>1 DEF IsFrame, ZigFrames, OpFrames, ImportFrames, Low
<1> QED BY <1>1, <1>2, <1>3

\* The top frame moves on.
LEMMA FrameMoves ==
  ASSUME FrameInv, NEW g, SetTop(g), IsFrame(g), Placed(g, Len(frames)),
         g.kind = "zig" <=> Top.kind = "zig",
         Low(g) = Low(Top), arena' \in Seq(Identities), Low(g) <= Len(arena'),
         ScopeFits(g, Len(arena'))
  PROVE  /\ FrameInv'
         /\ Len(frames') = Len(frames) /\ Top' = g /\ frames'[Len(frames)] = g
         /\ \A i \in 1 .. Len(frames) - 1 : frames'[i] = frames[i]
<1> DEFINE n == Len(frames)
<1>1. n \in Nat /\ n > 0 /\ Low(Top) \in Nat
  BY TopType
<1>2. frames \in Seq(ToSet(frames) \cup {g})
  BY DEF FrameInv, FrameTypes
<1>3. /\ frames' \in Seq(ToSet(frames) \cup {g}) /\ Len(frames') = n /\ frames'[n] = g
      /\ \A i \in 1 .. n - 1 : frames'[i] = frames[i]
  BY <1>1, <1>2 DEF SetTop
<1>4. frames' \in Seq(ToSet(frames)')
  BY <1>3 DEF ToSet
<1>5. \A i \in 1 .. n : IsFrame(frames'[i])
  BY <1>1, <1>3 DEF FrameInv, FrameTypes
<1>6. Top' = g
  BY <1>3 DEF Top
<1>7. Stack'
  <2>1. \A i \in 1 .. n : Low(frames'[i]) = Low(frames[i])
    BY <1>1, <1>3 DEF Top
  <2>2. \A i \in 1 .. n : Placed(frames'[i], i)
    BY <1>1, <1>3, StackFacts
  <2>3. \A i \in 1 .. n - 1 : Waits(frames'[i])
    BY <1>1, <1>3, StackFacts
  <2>4. \A i \in 1 .. n : \A j \in i .. n : Low(frames'[i]) <= Low(frames'[j])
    <3> HIDE DEF n
    <3> SUFFICES ASSUME NEW i \in 1 .. n, NEW j \in i .. n
                 PROVE  Low(frames'[i]) <= Low(frames'[j])
      OBVIOUS
    <3>1. j \in 1 .. n
      BY <1>1
    <3>2. Low(frames[i]) <= Low(frames[j])
      BY LowOrder DEF n
    <3> QED BY <2>1, <3>1, <3>2
  <2>5. \A i \in 1 .. n - 1 : ScopeFits(frames'[i], Low(frames'[i + 1]))
    BY <1>1, <1>3, <2>1, StackFacts
  <2>6. frames'[1].kind = "zig"
    BY <1>1, <1>3 DEF FrameInv, Stack, Top
  <2>7. \A i \in 1 .. n - 1 : frames'[i].kind = "zig" <=> frames'[i + 1].kind # "zig"
    BY <1>1, <1>3 DEF FrameInv, Stack, Top
  <2> QED BY <1>3, <1>6, <2>2, <2>3, <2>4, <2>5, <2>6, <2>7 DEF Stack
<1> QED BY <1>1, <1>3, <1>4, <1>5, <1>6, <1>7 DEF FrameInv, FrameTypes

LEMMA OwnElements ==
  ASSUME NEW S, NEW s \in Seq(S)
  PROVE  s \in Seq(ToSet(s))
  BY DEF ToSet

LEMMA AppendFacts ==
  ASSUME NEW S, NEW s \in Seq(S), NEW g \in S
  PROVE  /\ Append(s, g) \in Seq(S) /\ Len(Append(s, g)) = Len(s) + 1
         /\ Append(s, g)[Len(s) + 1] = g
         /\ \A i \in 1 .. Len(s) : Append(s, g)[i] = s[i]
  OBVIOUS

LEMMA PushFacts ==
  ASSUME NEW S, NEW s \in Seq(S), Len(s) > 0, NEW g \in S, NEW h \in S, NEW r,
         r = Append([s EXCEPT ![Len(s)] = h], g)
  PROVE  /\ r \in Seq(S) /\ Len(r) = Len(s) + 1
         /\ r[Len(s) + 1] = g /\ r[Len(s)] = h
         /\ \A i \in 1 .. Len(s) - 1 : r[i] = s[i]
<1> DEFINE q == [s EXCEPT ![Len(s)] = h]
<1>1. q \in Seq(S) /\ Len(q) = Len(s) /\ q[Len(s)] = h /\ \A i \in 1 .. Len(s) - 1 : q[i] = s[i]
  OBVIOUS
<1> HIDE DEF q
<1>2. r = Append(q, g)
  BY DEF q
<1>3. /\ Append(q, g) \in Seq(S) /\ Len(Append(q, g)) = Len(q) + 1
      /\ Append(q, g)[Len(q) + 1] = g
      /\ \A i \in 1 .. Len(q) : Append(q, g)[i] = q[i]
  BY <1>1, AppendFacts
<1> QED BY <1>1, <1>2, <1>3

\* A frame is put on top of h, which replaces the top frame.
LEMMA FramePushed ==
  ASSUME FrameInv, NEW g, NEW h, frames' = Append([frames EXCEPT ![Len(frames)] = h], g),
         IsFrame(g), IsFrame(h), Placed(g, Len(frames) + 1), Placed(h, Len(frames)),
         Waits(h), h.kind = "zig" <=> Top.kind = "zig", h.kind = "zig" <=> g.kind # "zig",
         Low(h) = Low(Top), ScopeFits(h, Len(arena)),
         Low(g) = Len(arena), g.kind = "zig" => g.scopes = <<>>,
         arena' = arena, arena \in Seq(Identities)
  PROVE  /\ FrameInv'
         /\ Len(frames') = Len(frames) + 1 /\ Top' = g
         /\ frames'[Len(frames) + 1] = g /\ frames'[Len(frames)] = h
         /\ \A i \in 1 .. Len(frames) - 1 : frames'[i] = frames[i]
<1> DEFINE n == Len(frames)
<1>1. n \in Nat /\ n > 0 /\ Low(Top) \in Nat
  BY TopType
<1>2. frames \in Seq(ToSet(frames) \cup {g, h})
  BY DEF FrameInv, FrameTypes
<1>3. /\ frames' \in Seq(ToSet(frames) \cup {g, h}) /\ Len(frames') = n + 1
      /\ frames'[n + 1] = g /\ frames'[n] = h
      /\ \A i \in 1 .. n - 1 : frames'[i] = frames[i]
  <2> DEFINE S == ToSet(frames) \cup {g, h}
             r == frames'
  <2>1. frames \in Seq(S) /\ Len(frames) > 0 /\ g \in S /\ h \in S
    BY <1>1, <1>2
  <2>2. r = Append([frames EXCEPT ![Len(frames)] = h], g)
    OBVIOUS
  <2> HIDE DEF S, r
  <2> QED BY <2>1, <2>2, PushFacts DEF S, r
<1>5. frames' \in Seq(ToSet(frames)')
  <2> DEFINE r == frames'
  <2>1. ToSet(frames)' = ToSet(r)
    BY DEF ToSet
  <2> HIDE DEF r
  <2> QED BY <1>3, <2>1, OwnElements DEF r
<1>6. \A i \in 1 .. n + 1 : IsFrame(frames'[i])
  BY <1>1, <1>3 DEF FrameInv, FrameTypes
<1>7. Top' = g
  BY <1>3 DEF Top
<1>8. Stack'
  <2>1. \A i \in 1 .. n : Low(frames'[i]) = Low(frames[i]) /\ Low(frames[i]) <= Low(Top)
    BY <1>1, <1>3 DEF Top, FrameInv, Stack
  <2>2. \A i \in 1 .. n + 1 : Placed(frames'[i], i)
    BY <1>1, <1>3, StackFacts
  <2>3. \A i \in 1 .. n : Waits(frames'[i])
    BY <1>1, <1>3, StackFacts
  <2>4. \A i \in 1 .. n + 1 : \A j \in i .. n + 1 : Low(frames'[i]) <= Low(frames'[j])
    <3>1. Low(frames'[n + 1]) = Len(arena) /\ Low(Top) <= Len(arena) /\ Len(arena) \in Nat
      BY <1>3 DEF FrameInv, Stack
    <3>2. \A i \in 1 .. n : Low(frames[i]) \in Nat
      BY DEF FrameInv, FrameTypes, IsFrame, ZigFrames, OpFrames, ImportFrames, Low
    <3>3. \A i \in 1 .. n : Low(frames'[i]) <= Low(frames'[n + 1])
      BY <1>1, <2>1, <3>1, <3>2
    <3>4. \A i \in 1 .. n : \A j \in i .. n : Low(frames'[i]) <= Low(frames'[j])
      <4> HIDE DEF n
      <4> SUFFICES ASSUME NEW i \in 1 .. n, NEW j \in i .. n
                   PROVE  Low(frames'[i]) <= Low(frames'[j])
        OBVIOUS
      <4>1. j \in 1 .. n
        BY <1>1
      <4>2. Low(frames[i]) <= Low(frames[j])
        BY LowOrder DEF n
      <4> QED BY <2>1, <4>1, <4>2
    <3> QED BY <1>1, <3>1, <3>3, <3>4
  <2>5. \A i \in 1 .. n : ScopeFits(frames'[i], Low(frames'[i + 1]))
    <3>1. ASSUME NEW i \in 1 .. n - 1
          PROVE  ScopeFits(frames'[i], Low(frames'[i + 1]))
      BY <1>1, <1>3, <2>1, StackFacts
    <3> QED BY <1>1, <1>3, <3>1
  <2>6. Low(Top') <= Len(arena') /\ ScopeFits(Top', Len(arena'))
    BY <1>7 DEF ScopeFits
  <2>7. frames'[1].kind = "zig"
    BY <1>1, <1>3 DEF FrameInv, Stack, Top
  <2>8. \A i \in 1 .. n : frames'[i].kind = "zig" <=> frames'[i + 1].kind # "zig"
    BY <1>1, <1>3 DEF FrameInv, Stack, Top
  <2> QED BY <1>1, <1>3, <2>2, <2>3, <2>4, <2>5, <2>6, <2>7, <2>8 DEF Stack
<1> QED BY <1>1, <1>3, <1>5, <1>6, <1>7, <1>8 DEF FrameInv, FrameTypes

\* The top frame leaves, with at least the slots it found.
LEMMA FramePopped ==
  ASSUME FrameInv, Len(frames) > 1, frames' = Front(frames),
         arena' \in Seq(Identities), Low(Top) <= Len(arena')
  PROVE  /\ FrameInv'
         /\ Len(frames') = Len(frames) - 1 /\ Top' = frames[Len(frames) - 1]
         /\ \A i \in 1 .. Len(frames) - 1 : frames'[i] = frames[i]
<1> DEFINE n == Len(frames)
<1>1. n \in Nat /\ n > 1 /\ Low(Top) \in Nat
  BY TopType
<1>2. /\ frames' \in Seq(ToSet(frames)) /\ Len(frames') = n - 1
      /\ \A i \in 1 .. n - 1 : frames'[i] = frames[i]
  BY <1>1 DEF FrameInv, FrameTypes, Front
<1>3. frames' \in Seq(ToSet(frames)')
  BY <1>2 DEF ToSet
<1>4. Top' = frames[n - 1]
  BY <1>1, <1>2 DEF Top
<1>5. Stack'
  <2>1. ScopeFits(Top', Len(arena')) /\ Low(Top') <= Len(arena')
    <3>1. Low(frames[n - 1]) <= Low(Top) /\ ScopeFits(frames[n - 1], Low(frames[n]))
      BY <1>1 DEF FrameInv, Stack, Top
    <3>2. IsFrame(frames[n - 1])
      BY <1>1 DEF FrameInv, FrameTypes
    <3>3. Low(frames[n - 1]) \in Nat /\ Low(frames[n - 1]) <= Len(arena')
      BY <1>1, <3>1, <3>2 DEF Low, IsFrame, ZigFrames, OpFrames, ImportFrames
    <3>4. CASE frames[n - 1].kind = "zig" /\ frames[n - 1].scopes # <<>>
      <4>1. frames[n - 1].scopes[1] \in Nat
        BY <3>2, <3>4 DEF IsFrame, ZigFrames, OpFrames, ImportFrames
      <4> QED BY <1>1, <1>4, <3>1, <3>3, <3>4, <4>1 DEF ScopeFits, Top
    <3> QED BY <1>4, <3>3, <3>4 DEF ScopeFits
  <2>6. /\ \A i \in 1 .. n : Placed(frames[i], i)
        /\ \A i \in 1 .. n - 1 : Waits(frames[i])
        /\ \A i \in 1 .. n - 1 : ScopeFits(frames[i], Low(frames[i + 1]))
    BY Zenon DEF Stack, FrameInv
  <2>2. \A i \in 1 .. n - 1 : Placed(frames'[i], i)
    BY <1>1, <1>2, <2>6
  <2>3. \A i \in 1 .. n - 2 : Waits(frames'[i])
    BY <1>1, <1>2, <2>6
  <2>7. \A i \in 1 .. n - 2 : ScopeFits(frames'[i], Low(frames'[i + 1]))
    BY <1>1, <1>2, <2>6
  <2>4. \A i \in 1 .. n - 1 : \A j \in i .. n - 1 : Low(frames'[i]) <= Low(frames'[j])
    <3> HIDE DEF n
    <3> SUFFICES ASSUME NEW i \in 1 .. n - 1, NEW j \in i .. n - 1
                 PROVE  Low(frames'[i]) <= Low(frames'[j])
      OBVIOUS
    <3>1. j \in 1 .. n - 1 /\ j \in i .. n /\ i \in 1 .. n
      BY <1>1
    <3>2. Low(frames[i]) <= Low(frames[j])
      BY <3>1, LowOrder DEF n
    <3> QED BY <1>2, <3>1, <3>2
  <2>5. /\ frames'[1].kind = "zig"
        /\ \A i \in 1 .. n - 2 : frames'[i].kind = "zig" <=> frames'[i + 1].kind # "zig"
    BY <1>1, <1>2 DEF FrameInv, Stack
  <2> QED BY <1>1, <1>2, <2>1, <2>2, <2>3, <2>4, <2>5, <2>7 DEF Stack
<1> QED BY <1>1, <1>2, <1>3, <1>4, <1>5 DEF FrameInv, FrameTypes

\* The frames stay, and the arena keeps what the top frame needs.
LEMMA FramesStay ==
  ASSUME FrameInv, UNCHANGED frames, arena' \in Seq(Identities), Low(Top) <= Len(arena'),
         ScopeFits(Top, Len(arena'))
  PROVE  FrameInv' /\ Top' = Top
  BY DEF FrameInv, FrameTypes, Stack, Top, ToSet

---------------------------------------------------------------------------
(* Outcomes and the registry *)

\* What is pending, as the frame that runs knows it.
TopOutcome(f) ==
  /\ f.kind = "zig" => exc = last.due
  /\ f.kind = "import" => exc = f.stale
  /\ f.kind = "op" /\ f.op.clears =>
       /\ f.pc <= Len(f.op.body) /\ ~AtGuest(f) => exc = Nil
       /\ f.pc > Len(f.op.body) => exc = f.own

Outcome ==
  /\ last.ok <=> (last.own = Nil /\ ~last.refused)
  /\ ~escaped => TopOutcome(Top)

\* A value is being rooted for the first time, and its registration is done.
Pending == frames[1].after[1] = "root"
Target == frames[1].after[3]
Done == IF Len(frames) = 1 THEN last.ok ELSE frames[2].pc > 2

Registering == Len(frames) > 1 /\ frames[2].kind = "op" /\ frames[2].op = RegisterRoot

Registry ==
  /\ \A o \in Identities : references[o] = Cardinality({h \in Handles : handles[h] = o})
  /\ \A o \in Identities :
       o \in registered <=> references[o] > 0 \/ (Pending /\ Done /\ o = Target)
  /\ Pending => handles[frames[1].after[2]] = Released /\ references[Target] = 0
  /\ Pending /\ Len(frames) > 1 => Len(frames) = 2 /\ Registering /\ frames[2].arg = Target
  /\ Registering => Pending

VmInv ==
  /\ FrameInv /\ HeapTypes /\ RegistryTypes
  /\ Outcome /\ Registry
  /\ escaped \in BOOLEAN

LEMMA RestoredFacts ==
  ASSUME arena \in Seq(Identities), NEW idx \in Nat, idx <= Len(arena)
  PROVE  /\ ArenaRestored(idx) \in Seq(Identities) /\ Len(ArenaRestored(idx)) = idx
         /\ \A k \in 1 .. idx : ArenaRestored(idx)[k] = arena[k]
  BY DEF ArenaRestored

LEMMA OpTop ==
  ASSUME VmInv, InOp
  PROVE  /\ Top \in OpFrames /\ Len(frames) > 1 /\ Top.entry <= Len(arena)
         /\ Settled(Top) /\ (Top.op = RegisterRoot => Len(frames) = 2)
         /\ ~escaped /\ TopOutcome(Top)
<1>1. Top \in OpFrames /\ Placed(Top, Len(frames)) /\ Len(frames) \in Nat /\ Len(frames) > 0
  BY TopType DEF VmInv, InOp
<1>2. Settled(Top) /\ (Top.op = RegisterRoot => Len(frames) = 2)
  BY <1>1 DEF Placed, InOp
<1>4. Len(frames) # 1
  BY <1>1 DEF VmInv, FrameInv, Stack, InOp, Top
<1>3. Top.entry <= Len(arena)
  BY DEF VmInv, FrameInv, Stack, InOp, Low
<1>5. ~escaped /\ TopOutcome(Top)
  BY Zenon DEF VmInv, Outcome, InOp
<1>6. Len(frames) > 1
  <2>1. Len(frames) \in Nat /\ Len(frames) > 0
    BY <1>1
  <2> DEFINE n == Len(frames)
  <2> HIDE DEF n
  <2>2. n \in Nat /\ n > 0 /\ n # 1
    BY <1>4, <2>1 DEF n
  <2>3. n > 1
    BY <2>2
  <2> QED BY <2>3 DEF n
<1> QED BY <1>1, <1>2, <1>3, <1>5, <1>6

\* The operation that runs moves on.
LEMMA OpMoves ==
  ASSUME VmInv, InOp, NEW g \in OpFrames, SetTop(g), Settled(g),
         g.op = Top.op, g.entry = Top.entry, g.arg = Top.arg,
         HeapTypes', Top.entry <= Len(arena'),
         UNCHANGED <<last, escaped, registryVars>>,
         g.op.clears =>
           /\ g.pc <= Len(g.op.body) /\ ~AtGuest(g) => exc' = Nil
           /\ g.pc > Len(g.op.body) => exc' = g.own,
         g.op # RegisterRoot => registered' = registered,
         g.op = RegisterRoot =>
           /\ Top.pc <= 2
           /\ registered' = IF g.pc > 2 THEN registered \cup {g.arg} ELSE registered
  PROVE  VmInv'
<1> DEFINE n == Len(frames)
<1>1. /\ Top \in OpFrames /\ n \in Nat /\ n > 1 /\ Placed(Top, n) /\ Top.kind = "op"
      /\ g.kind = "op" /\ ~escaped
  BY OpTop, TopType DEF VmInv, InOp, OpFrames
<1>2. Placed(g, n)
  BY <1>1 DEF Placed
<1>3. IsFrame(g) /\ Low(g) = Low(Top) /\ Low(g) <= Len(arena') /\ ScopeFits(g, Len(arena'))
  BY <1>1 DEF IsFrame, Low, ScopeFits
<1>4. /\ FrameInv' /\ Len(frames') = n /\ Top' = g /\ frames'[n] = g
      /\ \A i \in 1 .. n - 1 : frames'[i] = frames[i]
  BY <1>1, <1>2, <1>3, FrameMoves DEF VmInv, HeapTypes
<1>5. Outcome'
  BY <1>1, <1>4 DEF VmInv, Outcome, TopOutcome, AtGuest
<1>6. Registry'
  <2>1. UNCHANGED <<Pending, Target>> /\ (Registering' <=> Registering)
    BY <1>1, <1>4 DEF Pending, Target, Registering, Top
  <2>2. CASE g.op = RegisterRoot
    <3>1. n = 2 /\ Registering
      BY <1>1, <2>2, OpTop DEF Registering, Top
    <3>2. Pending /\ frames[2].arg = Target /\ ~Done /\ (Done' <=> g.pc > 2)
      BY <1>1, <1>4, <2>2, <3>1 DEF VmInv, Registry, Done, Top, OpFrames
    <3> QED BY <1>1, <1>4, <2>1, <2>2, <3>1, <3>2 DEF VmInv, Registry, registryVars, Top
  <2>3. CASE g.op # RegisterRoot
    <3>1. ~Pending
      BY <1>1, <2>3 DEF VmInv, Registry, Registering, Top
    <3> QED BY <1>1, <1>4, <2>1, <2>3, <3>1 DEF VmInv, Registry, registryVars
  <2> QED BY <2>2, <2>3
<1>7. RegistryTypes' /\ escaped' \in BOOLEAN
  <2>1. handles' = handles /\ references' = references /\ escaped' = escaped
    BY DEF registryVars
  <2> QED BY <2>1 DEF VmInv, RegistryTypes
<1> QED BY <1>4, <1>5, <1>6, <1>7 DEF VmInv

\* The value at hand changes, or not, and the next step is due.
LEMMA AdvanceStep ==
  ASSUME VmInv, InOp, Top.pc <= Len(Top.op.body), NEW v \in Values, Advanced(v),
         HeapTypes', Top.entry <= Len(arena'), UNCHANGED <<last, escaped, registryVars>>,
         Top.op.clears => exc' = Nil,
         registered' = IF Top.op.body[Top.pc] = "register" THEN registered \cup {Top.arg}
                       ELSE registered
  PROVE  VmInv'
<1>1. /\ Top \in OpFrames /\ Settled(Top) /\ Top.pc \in Nat \ {0}
      /\ Top.op \in Operations
  BY OpTop DEF OpFrames
<1> DEFINE p == Top.pc + 1
           g == [Top EXCEPT !.pc = p, !.val = v]
<1>2. p \in Nat \ {0}
  BY <1>1
<1>3. SetTop(g)
  BY Zenon DEF Advanced
<1>4. /\ g \in OpFrames /\ g.pc = p /\ g.op = Top.op /\ g.entry = Top.entry
      /\ g.arg = Top.arg /\ g.own = Top.own /\ g.refused = Top.refused
  <2> HIDE DEF p
  <2> QED BY <1>1, <1>2, Zenon DEF OpFrames
<1> HIDE DEF g
<1>5. Top.own = Nil /\ Len(Top.op.body) \in Nat
  <2>1. Top.op \in OpRecords
    BY <1>1, OrdinarySane, RegisterRootFields DEF Operations, Sane
  <2> QED BY <1>1, <2>1 DEF Settled, OpRecords
<1>6. Settled(g)
  BY <1>1, <1>4, <1>5 DEF Settled
<1>7. g.op # RegisterRoot => registered' = registered
  <2>1. CASE Top.op \in Ordinary
    <3>1. Top.op.body \in Seq(StepKinds \ {"register"})
      BY <2>1, OrdinarySane DEF Sane, BodySane
    <3>2. Top.op.body[Top.pc] # "register"
      BY <1>1, <3>1
    <3> QED BY <3>2
  <2> QED BY <1>1, <1>4, <2>1 DEF Operations
<1>8. ASSUME g.op = RegisterRoot
      PROVE  /\ Top.pc <= 2
             /\ registered' = IF g.pc > 2 THEN registered \cup {g.arg} ELSE registered
  BY <1>1, <1>4, <1>8, RegisterRootFields
<1> QED BY <1>1, <1>3, <1>4, <1>5, <1>6, <1>7, <1>8, OpMoves

\* An operation returns.
LEMMA ReturnStep ==
  ASSUME VmInv, InOp, NEW result \in Values, NEW raised \in BOOLEAN,
         Ends(result, raised),
         raised => result # Nil /\ Top.pc <= Len(Top.op.body),
         ~raised => Top.pc > Len(Top.op.body),
         UNCHANGED <<registered, stored, view, registryVars>>
  PROVE  VmInv'
<1> DEFINE n == Len(frames)
<1>1. /\ Top \in OpFrames /\ Settled(Top) /\ n \in Nat /\ n > 1 /\ Top.kind = "op"
      /\ Top.entry \in Nat /\ Top.entry <= Len(arena) /\ ~escaped
      /\ Top.op \in Operations /\ Top.own \in Values /\ Top.saved \in Values
      /\ Top.refused \in BOOLEAN
  BY OpTop, TopType DEF InOp, VmInv, OpFrames
<1>2. /\ Top.op \in OpRecords
      /\ Top.op.keeps => ~Top.op.pends
      /\ ~Top.op.clears => Top.op.keeps
  BY <1>1, OrdinarySane, RegisterRootFields DEF Operations, Sane
<1>3. CASE PostludeEscapes(Top, result)
  <2>1. /\ UNCHANGED <<arena, capacity, exc, frames, last>> /\ escaped' = TRUE
    BY <1>3 DEF PostludeEscapes
  <2>2. UNCHANGED <<Low(Top), ScopeFits(Top, Len(arena))>>
    BY <2>1 DEF Top
  <2>3. FrameInv'
    BY <2>1, FramesStay DEF VmInv, HeapTypes, FrameInv, Stack
  <2>4. Registry'
    BY <2>1 DEF VmInv, Registry, Pending, Target, Done, Registering, registryVars
  <2>5. Outcome'
    BY <2>1 DEF VmInv, Outcome
  <2> QED BY <2>1, <2>3, <2>4, <2>5 DEF VmInv, HeapTypes, RegistryTypes, registryVars
<1>4. CASE Returned(Top, result, raised)
  <2>1. /\ frames' = Front(frames) /\ escaped' = escaped
        /\ exc' = ExceptionAtExit(Top, result, raised)
        /\ ResultRooted(Top, result)
    BY <1>4 DEF Returned
  <2>2. /\ arena' \in Seq(Identities) /\ Top.entry <= Len(arena')
    <3> DEFINE cut == ArenaRestored(Top.entry)
    <3>1. cut \in Seq(Identities) /\ Len(cut) = Top.entry
      BY <1>1, RestoredFacts DEF VmInv, HeapTypes
    <3> HIDE DEF cut
    <3>2. arena' = cut \/ (arena' = Append(cut, result) /\ result # Nil)
      BY <2>1 DEF ResultRooted, Protect, cut
    <3>3. result # Nil => result \in Identities
      BY DEF Values, Identities
    <3> QED BY <1>1, <3>1, <3>2, <3>3
  <2>3. /\ FrameInv' /\ Len(frames') = n - 1 /\ Top' = frames[n - 1]
        /\ \A i \in 1 .. n - 1 : frames'[i] = frames[i]
    BY <1>1, <2>1, <2>2, FramePopped DEF VmInv, Low
  <2> DEFINE own == IF ~Top.op.clears THEN Nil ELSE IF raised THEN result ELSE Top.own
             ok  == Succeeds(Top, result, raised)
             refused == Top.refused \/ (Top.op.pends /\ result = Nil)
             due == IF Top.op.keeps THEN Top.saved
                    ELSE IF Top.op.pends /\ own = Nil THEN result
                    ELSE own
  <2>4. /\ last'.ok = ok /\ last'.own = own /\ last'.due = due /\ last'.refused = refused
    BY <1>4 DEF Returned
  <2>5. (~raised /\ Top.op.clears) => exc = Top.own
    BY <1>1, OpTop DEF TopOutcome, InOp
  <2> HIDE DEF own, ok, due, refused
  <2>6. (ok <=> (own = Nil /\ ~refused)) /\ exc' = due /\ exc' \in Values
    BY <1>1, <1>2, <2>1, <2>5 DEF own, ok, due, refused, Succeeds, ExceptionAtExit, Settled, OpRecords
  <2>7. Outcome'
    <3>1. frames[n - 1].kind = "zig"
      BY <1>1 DEF VmInv, FrameInv, Stack, Top
    <3>2. TopOutcome(Top)'
      BY <2>3, <2>4, <2>6, <3>1 DEF TopOutcome
    <3> QED BY <2>4, <2>6, <3>2 DEF Outcome
  <2>8. Registry'
    <3>1. handles' = handles /\ references' = references /\ registered' = registered
      BY DEF registryVars
    <3>2. UNCHANGED <<Pending, Target>>
      BY <1>1, <2>3 DEF Pending, Target
    <3>3. CASE Pending
      <4>1. n = 2 /\ Registering /\ frames[2].arg = Target /\ Top = frames[2]
        BY <1>1, <3>3 DEF VmInv, Registry, Top
      <4>2. Top.op = RegisterRoot
        BY <4>1 DEF Registering
      <4>3. Done <=> ok
        <5>1. own = IF raised THEN result ELSE Nil
          BY <1>1, <4>2, RegisterRootFields DEF Settled, own
        <5>2. ~refused
          BY <1>1, <4>2, RegisterRootFields DEF Settled, refused
        <5>3. ok <=> ~raised
          BY <2>6, <5>1, <5>2
        <5>4. raised <=> ~(Top.pc > 2)
          BY <1>1, <4>2, RegisterRootFields DEF OpFrames
        <5>5. Done <=> Top.pc > 2
          BY <1>1, <4>1 DEF Done
        <5> QED BY <5>3, <5>4, <5>5
      <4>4. Done' <=> ok
        <5>1. Len(frames') = 1
          BY <2>3, <4>1
        <5> QED BY <2>4, <5>1, Zenon DEF Done
      <4>5. ~Registering' /\ ~(Len(frames') > 1)
        BY <2>3, <4>1 DEF Registering
      <4>6. frames'[1] = frames[1]
        BY <1>1, <2>3
      <4> QED BY <3>1, <3>2, <4>3, <4>4, <4>5, <4>6 DEF VmInv, Registry
    <3>4. CASE ~Pending
      <4>1. Registering' => Registering
        BY <1>1, <2>3 DEF Registering
      <4> QED BY <3>1, <3>2, <3>4, <4>1 DEF VmInv, Registry
    <3> QED BY <3>3, <3>4
  <2>9. HeapTypes' /\ RegistryTypes' /\ escaped' \in BOOLEAN
    <3>1. /\ handles' = handles /\ references' = references
          /\ stored' = stored /\ view' = view
      BY DEF registryVars
    <3> QED BY <2>1, <2>2, <2>6, <3>1 DEF VmInv, HeapTypes, RegistryTypes
  <2> QED BY <2>3, <2>7, <2>8, <2>9 DEF VmInv
<1> QED BY <1>3, <1>4 DEF Ends

\* Only the heap changes, and what is pending only under guest code.
LEMMA HeapStep ==
  ASSUME VmInv, HeapTypes', UNCHANGED <<frames, last, escaped, arena, registered, registryVars>>,
         exc' = exc \/ (Top.kind = "op" /\ AtGuest(Top))
  PROVE  VmInv'
<1>1. UNCHANGED <<Low(Top), ScopeFits(Top, Len(arena)), Top>>
  BY DEF Top
<1>2. FrameInv'
  BY <1>1, FramesStay DEF VmInv, HeapTypes, FrameInv, Stack
<1>3. Registry'
  BY DEF VmInv, Registry, Pending, Target, Done, Registering, registryVars
<1>4. Outcome'
  <2>1. TopOutcome(Top) => TopOutcome(Top)'
    <3>1. CASE exc' = exc
      BY <1>1, <3>1 DEF TopOutcome, AtGuest
    <3>2. CASE Top.kind = "op" /\ AtGuest(Top)
      <4>1. Top.pc <= Len(Top.op.body)
        BY <3>2 DEF AtGuest
      <4>2. ~(Top.pc > Len(Top.op.body))
        <5>1. Top \in OpFrames /\ Top.op \in OpRecords
          BY <3>2, TopType, OrdinarySane, RegisterRootFields
             DEF VmInv, OpFrames, Operations, Sane
        <5>2. Top.pc \in Nat /\ Len(Top.op.body) \in Nat
          BY <5>1 DEF OpFrames, OpRecords
        <5> QED BY <4>1, <5>2
      <4> QED BY <1>1, <3>2, <4>2 DEF TopOutcome, AtGuest
    <3> QED BY <3>1, <3>2
  <2> QED BY <2>1 DEF VmInv, Outcome
<1> QED BY <1>2, <1>3, <1>4 DEF VmInv, RegistryTypes, registryVars

\* Guest code calls back.
LEMMA CallHostStep ==
  ASSUME VmInv, CallHost, UNCHANGED registryVars
  PROVE  VmInv'
<1> DEFINE n == Len(frames)
<1>1. /\ InOp /\ AtGuest(Top) /\ exc = Nil /\ arena' = arena /\ exc' = exc
      /\ frames' = Append(frames, ZigFrame) /\ last' = NoOutcome /\ escaped' = escaped
      /\ UNCHANGED <<stored, view, registered, registryVars>>
  BY DEF CallHost, InGuest, At, AtGuest, heapVars
<1>2. /\ Top \in OpFrames /\ n \in Nat /\ n > 1 /\ Placed(Top, n) /\ Top.kind = "op" /\ ~escaped
  BY <1>1, OpTop, TopType DEF VmInv, InOp
<1>3. Top.op # RegisterRoot
  BY <1>1, <1>2, RegisterRootFields DEF AtGuest, GuestSteps, OpFrames
<1>4. ~Pending
  BY <1>2, <1>3 DEF VmInv, Registry, Registering, Top
<1>5. /\ ZigFrame \in ZigFrames /\ ZigFrame.kind = "zig" /\ ZigFrame.scopes = <<>>
      /\ ZigFrame.base = Len(arena) /\ ZigFrame.after[1] = "read"
  BY DEF VmInv, HeapTypes, ZigFrame, ZigFrames, After
<1>6. frames = [frames EXCEPT ![n] = Top]
  BY <1>2 DEF VmInv, FrameInv, FrameTypes, Top
<1>7. IsFrame(ZigFrame) /\ IsFrame(Top) /\ Placed(ZigFrame, n + 1) /\ Waits(Top)
      /\ Low(ZigFrame) = Len(arena) /\ ScopeFits(Top, Len(arena))
  BY <1>1, <1>2, <1>5 DEF IsFrame, Placed, Waits, Low, ScopeFits
<1>8. /\ FrameInv' /\ Len(frames') = n + 1 /\ Top' = ZigFrame /\ frames'[n] = Top
      /\ \A i \in 1 .. n - 1 : frames'[i] = frames[i]
  <2> DEFINE g == ZigFrame
  <2>1. frames' = Append([frames EXCEPT ![Len(frames)] = Top], g)
    BY <1>1, <1>6
  <2>2. /\ IsFrame(g) /\ IsFrame(Top) /\ Placed(g, n + 1) /\ Waits(Top) /\ Placed(Top, n)
        /\ Low(g) = Len(arena) /\ ScopeFits(Top, Len(arena))
        /\ g.scopes = <<>> /\ Top.kind = "op" /\ g.kind = "zig"
        /\ arena' = arena /\ arena \in Seq(Identities)
    BY <1>1, <1>2, <1>5, <1>7 DEF VmInv, HeapTypes
  <2> HIDE DEF g
  <2> QED BY <2>1, <2>2, FramePushed DEF VmInv, g
<1>9. Outcome'
  BY <1>1, <1>5, <1>8 DEF Outcome, TopOutcome, NoOutcome
<1>10. Registry'
  <2>1. frames'[1] = frames[1] /\ frames'[2] = frames[2] /\ Len(frames') > 1
    BY <1>2, <1>8 DEF Top
  <2>2. ~Pending' /\ (Registering' <=> Registering)
    BY <1>2, <1>4, <2>1 DEF Pending, Registering
  <2> QED BY <1>1, <1>4, <2>1, <2>2 DEF VmInv, Registry, registryVars
<1> QED BY <1>1, <1>8, <1>9, <1>10 DEF VmInv, RegistryTypes, HeapTypes, registryVars

\* A callback returns to the interpreter.
LEMMA ReturnToGuestStep ==
  ASSUME VmInv, ReturnToGuest, UNCHANGED registryVars
  PROVE  VmInv'
<1> DEFINE n == Len(frames)
<1>1. /\ Top.kind = "zig" /\ ~escaped /\ arena' = ArenaRestored(Top.base) /\ frames' = Front(frames)
      /\ UNCHANGED <<exc, stored, view, registered, last, escaped, registryVars>>
  BY DEF ReturnToGuest, InZig
<1>2. n \in Nat /\ n > 1 /\ Low(Top) = Top.base /\ Top.base \in Nat /\ Top.base <= Len(arena)
  BY <1>1, TopType DEF ReturnToGuest, VmInv, FrameInv, Stack, Low, ZigFrames
<1>3. arena' \in Seq(Identities) /\ Low(Top) <= Len(arena')
  BY <1>1, <1>2, RestoredFacts DEF VmInv, HeapTypes
<1>4. /\ FrameInv' /\ Len(frames') = n - 1 /\ Top' = frames[n - 1]
      /\ \A i \in 1 .. n - 1 : frames'[i] = frames[i]
  BY <1>1, <1>2, <1>3, FramePopped DEF VmInv
<1>5. frames[n - 1].kind = "op" /\ AtGuest(frames[n - 1])
  BY <1>1, <1>2 DEF VmInv, FrameInv, Stack, Top, Waits
<1>6. HeapTypes' /\ RegistryTypes' /\ escaped' \in BOOLEAN
  BY <1>1, <1>3 DEF VmInv, HeapTypes, RegistryTypes, registryVars
<1>7. ~Pending
  BY <1>1, <1>2 DEF VmInv, Registry, Registering, Top
<1>8. Outcome'
  <2>1. TopOutcome(Top)'
    <3> DEFINE f == frames[n - 1]
    <3>1. IsFrame(f)
      BY <1>2 DEF VmInv, FrameInv, FrameTypes
    <3>2. f \in OpFrames /\ f.op \in OpRecords
      BY <1>5, <3>1, OrdinarySane, RegisterRootFields
         DEF IsFrame, ZigFrames, OpFrames, ImportFrames, Operations, Sane
    <3> HIDE DEF f
    <3>3. f.kind = "op" /\ AtGuest(f) /\ f.pc \in Nat /\ Len(f.op.body) \in Nat
      BY <1>5, <3>2 DEF f, OpFrames, OpRecords
    <3>4. Top' = f
      BY <1>4 DEF f
    <3> QED BY <3>3, <3>4 DEF TopOutcome, AtGuest
  <2> QED BY <1>1, <2>1 DEF VmInv, Outcome
<1>9. Registry'
  <2>1. frames'[1] = frames[1] /\ (Registering' => Registering)
    BY <1>2, <1>4 DEF Registering
  <2>2. ~Pending'
    BY <1>7, <2>1 DEF Pending
  <2> QED BY <1>1, <1>7, <2>1, <2>2 DEF VmInv, Registry, registryVars
<1> QED BY <1>4, <1>6, <1>8, <1>9 DEF VmInv

\* What a step of a body finds.
LEMMA AtStep ==
  ASSUME VmInv, NEW kinds, At(kinds)
  PROVE  /\ InOp /\ Top \in OpFrames /\ Top.pc <= Len(Top.op.body)
         /\ Top.op.body[Top.pc] \in kinds
         /\ Top.entry \in Nat /\ Len(arena) \in Nat /\ Top.entry <= Len(arena)
         /\ (kinds \cap GuestSteps = {} /\ Top.op.clears) => exc = Nil
         /\ Top.val \in Values /\ Top.arg \in Values
<1>1. InOp /\ Top.pc <= Len(Top.op.body) /\ Top.op.body[Top.pc] \in kinds
  BY DEF At
<1>2. /\ Top \in OpFrames /\ TopOutcome(Top) /\ Top.kind = "op"
      /\ Top.entry <= Len(arena)
  BY <1>1, OpTop DEF OpFrames
<1>3. (kinds \cap GuestSteps = {} /\ Top.op.clears) => exc = Nil
  BY <1>1, <1>2 DEF TopOutcome, AtGuest
<1> QED BY <1>1, <1>2, <1>3 DEF OpFrames, VmInv, HeapTypes

LEMMA AllocateFacts ==
  ASSUME HeapTypes, NEW o, NEW contents, Allocate(o, contents), UNCHANGED <<exc, stored, view>>
  PROVE  /\ HeapTypes' /\ Len(arena') = Len(arena) + 1 /\ Len(arena) \in Nat
         /\ o \in Objects /\ o \in Values /\ arena' = Append(arena, o)
<1>1. o \in Objects /\ arena' = Append(arena, o)
  BY DEF Allocate, Protect
<1> QED BY <1>1 DEF HeapTypes, Identities, Values

LEMMA EndBodyStep ==
  ASSUME VmInv, EndBody, UNCHANGED registryVars
  PROVE  VmInv'
<1>1. InOp /\ Top.pc > Len(Top.op.body) /\ Ends(Result(Top), FALSE)
  BY DEF EndBody, BodyDone
<1>2. Result(Top) \in Values
  <2>1. Top \in OpFrames
    BY <1>1, OpTop
  <2>2. Top.val \in Values /\ Top.arg \in Values
    BY <2>1 DEF OpFrames
  <2> QED BY <2>2 DEF Result, Values
<1>3. UNCHANGED <<registered, stored, view>>
  BY DEF EndBody
<1> QED BY <1>1, <1>2, <1>3, ReturnStep

\* A raise, of an exception that is there.
LEMMA RaiseStep ==
  ASSUME VmInv, InOp, Top.pc <= Len(Top.op.body), NEW e \in Values, e # Nil, Raises(e),
         UNCHANGED registryVars
  PROVE  VmInv'
<1>1. Ends(e, TRUE) /\ UNCHANGED <<registered, stored, view>>
  BY DEF Raises
<1>2. ~(TRUE /\ FALSE)
  OBVIOUS
<1> QED BY <1>1, ReturnStep

LEMMA RaiseNewStep ==
  ASSUME VmInv, InOp, Top.pc <= Len(Top.op.body), NEW o, RaisesNew(o), UNCHANGED registryVars
  PROVE  VmInv'
<1>1. o \in Objects /\ Raises(o)
  BY DEF RaisesNew, Fresh
<1>2. o \in Values /\ o # Nil
  BY <1>1, HeapAssumption DEF Values
<1> QED BY <1>1, <1>2, RaiseStep

LEMMA OutOfMemoryStep ==
  ASSUME VmInv, OutOfMemory, UNCHANGED registryVars
  PROVE  VmInv'
<1>1. InOp /\ Top.pc <= Len(Top.op.body) /\ Raises(NoMem)
  BY DEF OutOfMemory, At
<1>2. NoMem \in Values /\ NoMem # Nil
  BY HeapAssumption DEF Values
<1> QED BY <1>1, <1>2, RaiseStep

\* A step that only moves on, with the value at hand or another.
LEMMA PlainStep ==
  ASSUME VmInv, NEW kinds, At(kinds), kinds \cap GuestSteps = {}, "register" \notin kinds,
         NEW v \in Values, Advanced(v), HeapTypes', Len(arena) <= Len(arena'),
         UNCHANGED <<exc, registered, last, escaped, registryVars>>
  PROVE  VmInv'
<1>1. /\ InOp /\ Top.pc <= Len(Top.op.body) /\ Top.op.body[Top.pc] \in kinds
      /\ Top.op.clears => exc = Nil
      /\ Top.entry \in Nat /\ Len(arena) \in Nat /\ Top.entry <= Len(arena)
  BY AtStep
<1>2. Len(arena') \in Nat /\ Top.entry <= Len(arena')
  BY <1>1 DEF HeapTypes
<1>3. Top.op.body[Top.pc] # "register"
  BY <1>1
<1> QED BY <1>1, <1>2, <1>3, AdvanceStep

LEMMA CheckStep ==
  ASSUME VmInv, Check, UNCHANGED registryVars
  PROVE  VmInv'
<1>1. At({"check"}) /\ InOp /\ Top.pc <= Len(Top.op.body)
  BY DEF Check, At
<1>2. ASSUME Advanced(Top.val), UNCHANGED <<heapVars, last, escaped>>
      PROVE  VmInv'
  <2>1. Top.val \in Values /\ Len(arena) \in Nat
    BY <1>1, AtStep
  <2>2. HeapTypes' /\ Len(arena) <= Len(arena') /\ UNCHANGED <<exc, registered, last, escaped>>
    BY <1>2, <2>1 DEF VmInv, HeapTypes, heapVars
  <2>3. {"check"} \cap GuestSteps = {} /\ "register" \notin {"check"}
    BY DEF GuestSteps
  <2> QED BY <1>1, <1>2, <2>1, <2>2, <2>3, PlainStep
<1>3. ASSUME NEW o \in Fresh, RaisesNew(o)
      PROVE  VmInv'
  BY <1>1, <1>3, RaiseNewStep
<1> QED BY <1>2, <1>3 DEF Check

LEMMA MemoryStep ==
  ASSUME VmInv, Memory \/ Read, UNCHANGED registryVars
  PROVE  VmInv'
<1>1. PICK v \in {Top.val, stored} :
        /\ At({"memory", "read"}) /\ Advanced(v) /\ UNCHANGED <<heapVars, last, escaped>>
  BY DEF Memory, Read, At
<1>2. v \in Values /\ Len(arena) \in Nat
  BY <1>1, AtStep DEF VmInv, HeapTypes
<1>3. HeapTypes' /\ Len(arena) <= Len(arena') /\ UNCHANGED <<exc, registered, last, escaped>>
  BY <1>1, <1>2 DEF VmInv, HeapTypes, heapVars
<1>4. {"memory", "read"} \cap GuestSteps = {} /\ "register" \notin {"memory", "read"}
  BY DEF GuestSteps
<1> QED BY <1>1, <1>2, <1>3, <1>4, PlainStep

LEMMA ObjectStep ==
  ASSUME VmInv, Object, UNCHANGED registryVars
  PROVE  VmInv'
<1>1. PICK o \in Fresh : Allocate(o, Empty) /\ Advanced(o)
  BY DEF Object
<1>2. At({"object"}) /\ UNCHANGED <<exc, stored, view, registered, last, escaped>>
  BY DEF Object
<1>3. HeapTypes' /\ Len(arena) <= Len(arena') /\ o \in Values
  <2>1. HeapTypes' /\ Len(arena') = Len(arena) + 1 /\ Len(arena) \in Nat /\ o \in Values
    BY <1>1, <1>2, AllocateFacts DEF VmInv
  <2> QED BY <2>1
<1>4. {"object"} \cap GuestSteps = {} /\ "register" \notin {"object"}
  BY DEF GuestSteps
<1> QED BY <1>1, <1>2, <1>3, <1>4, PlainStep

LEMMA LinkStep ==
  ASSUME VmInv, Link, UNCHANGED registryVars
  PROVE  VmInv'
<1>1. /\ At({"link", "unlink"}) /\ Advanced(Top.val) /\ stored' \in {Top.val, Nil}
      /\ UNCHANGED <<arena, exc, registered, view, last, escaped>>
  BY DEF Link
<1>2. Top.val \in Values /\ Len(arena) \in Nat
  BY <1>1, AtStep
<1>3. HeapTypes' /\ Len(arena) <= Len(arena')
  BY <1>1, <1>2 DEF VmInv, HeapTypes, Values
<1>4. {"link", "unlink"} \cap GuestSteps = {} /\ "register" \notin {"link", "unlink"}
  BY DEF GuestSteps
<1> QED BY <1>1, <1>2, <1>3, <1>4, PlainStep

LEMMA RegisterStep ==
  ASSUME VmInv, Register, UNCHANGED registryVars
  PROVE  VmInv'
<1>1. /\ At({"register"}) /\ Advanced(Top.val) /\ registered' = registered \cup {Top.arg}
      /\ UNCHANGED <<arena, exc, stored, view, last, escaped>>
  BY DEF Register
<1>2. {"register"} \cap GuestSteps = {}
  BY DEF GuestSteps
<1>3. /\ InOp /\ Top.pc <= Len(Top.op.body) /\ Top.op.body[Top.pc] = "register"
      /\ Top.op.clears => exc = Nil
      /\ Top.entry <= Len(arena) /\ Top.val \in Values
  BY <1>1, <1>2, AtStep
<1>4. HeapTypes' /\ Top.entry <= Len(arena')
  BY <1>1, <1>3 DEF VmInv, HeapTypes
<1> QED BY <1>1, <1>3, <1>4, AdvanceStep

\* The body finds nothing and ends.
LEMMA AbsentStep ==
  ASSUME VmInv, Absent, UNCHANGED registryVars
  PROVE  VmInv'
<1>1. At({"absent"}) /\ UNCHANGED <<heapVars, last, escaped>>
  BY DEF Absent
<1>2. {"absent"} \cap GuestSteps = {} /\ "register" \notin {"absent"}
  BY DEF GuestSteps
<1>3. /\ InOp /\ Top \in OpFrames /\ Top.pc <= Len(Top.op.body)
      /\ Top.op.body[Top.pc] = "absent"
      /\ Top.val \in Values /\ Top.entry <= Len(arena) /\ Len(arena) \in Nat
  BY <1>1, AtStep
<1>8. Top.op.clears => exc = Nil
  BY <1>1, <1>2, AtStep
<1>4. /\ HeapTypes' /\ Len(arena) <= Len(arena') /\ Top.entry <= Len(arena')
      /\ UNCHANGED <<exc, registered, last, escaped>>
  BY <1>1, <1>3 DEF VmInv, HeapTypes, heapVars
<1>5. CASE Advanced(Top.val)
  BY <1>1, <1>2, <1>3, <1>4, <1>5, PlainStep
<1> DEFINE jump ==
      [Top EXCEPT !.pc = Len(Top.op.body) + 1, !.val = Nil, !.refused = Top.op.strict]
<1>7. Advanced(Top.val) \/ SetTop(jump)
  BY Zenon DEF Absent
<1> HIDE DEF jump
<1>6. CASE SetTop(jump)
  <2> DEFINE p == Len(Top.op.body) + 1
             r == Top.op.strict
             g == [Top EXCEPT !.pc = p, !.val = Nil, !.refused = r]
  <2>1. /\ Top.op \in Operations /\ Top.op \in OpRecords /\ Top.op # RegisterRoot
        /\ Top.op.clears
    <3>1. Top.op \in Operations
      BY <1>3 DEF OpFrames
    <3>5. Top.pc \in Nat \ {0} /\ Len(Top.op.body) \in Nat
      BY <1>3, <3>1, OrdinarySane, RegisterRootFields DEF OpFrames, Operations, Sane, OpRecords
    <3>6. Top.pc \in 1 .. Len(Top.op.body) /\ Top.op.body[Top.pc] = "absent"
      BY <1>3, <3>5
    <3>2. Top.op # RegisterRoot
      BY <3>6, RegisterRootFields
    <3>3. Sane(Top.op)
      BY <3>1, <3>2, OrdinarySane DEF Operations
    <3>4. Top.op.clears
      BY <3>3, <3>6 DEF Sane
    <3> QED BY <3>1, <3>2, <3>3, <3>4 DEF Sane
  <2>2. p \in Nat \ {0} /\ r \in BOOLEAN /\ Len(Top.op.body) \in Nat
    BY <2>1 DEF OpRecords
  <2>3. Nil \in Values
    BY DEF Values
  <2>4. SetTop(g)
    BY <1>6, Zenon DEF jump
  <2>5. /\ g \in OpFrames /\ g.pc = p /\ g.op = Top.op /\ g.entry = Top.entry
        /\ g.arg = Top.arg /\ g.own = Top.own
    <3> HIDE DEF p, r
    <3> QED BY <1>3, <2>2, <2>3, Zenon DEF OpFrames
  <2> HIDE DEF g
  <2>6. Settled(Top) /\ Top.own = Nil
    BY <1>3, OpTop DEF Settled
  <2>7. Settled(g)
    BY <2>1, <2>2, <2>5, <2>6 DEF Settled
  <2>8. g.op.clears => exc' = Nil
    BY <1>4, <1>8, <2>5, Zenon
  <2>9. ~(g.pc <= Len(g.op.body)) /\ g.own = Nil
    BY <2>2, <2>5, <2>6
  <2> QED BY <1>3, <1>4, <2>1, <2>4, <2>5, <2>7, <2>8, <2>9, OpMoves
<1> QED BY <1>5, <1>6, <1>7

LEMMA GuestTop ==
  ASSUME VmInv, At(GuestSteps)
  PROVE  /\ InOp /\ Top \in OpFrames /\ AtGuest(Top) /\ Top.kind = "op"
         /\ Top.pc <= Len(Top.op.body) /\ Top.op.body[Top.pc] # "register"
         /\ Top.entry \in Nat /\ Len(arena) \in Nat /\ Top.entry <= Len(arena)
         /\ Top.val \in Values /\ Top.arg \in Values
<1>1. /\ InOp /\ Top \in OpFrames /\ Top.pc <= Len(Top.op.body)
      /\ Top.op.body[Top.pc] \in GuestSteps
      /\ Top.entry \in Nat /\ Len(arena) \in Nat /\ Top.entry <= Len(arena)
      /\ Top.val \in Values /\ Top.arg \in Values
  BY AtStep
<1> QED BY <1>1 DEF AtGuest, GuestSteps, InOp

LEMMA GuestStoresStep ==
  ASSUME VmInv, GuestStores, UNCHANGED registryVars
  PROVE  VmInv'
<1>1. stored' \in Values
  BY DEF GuestStores, Fresh, Values
<1>2. UNCHANGED <<arena, exc, registered, view, frames, last, escaped>>
  BY DEF GuestStores, callVars
<1>3. HeapTypes'
  BY <1>1, <1>2 DEF VmInv, HeapTypes
<1> QED BY <1>2, <1>3, HeapStep

LEMMA GuestReturnsStep ==
  ASSUME VmInv, GuestReturns, UNCHANGED registryVars
  PROVE  VmInv'
<1>1. At(GuestSteps) /\ exc = Nil /\ UNCHANGED <<last, escaped>>
  BY DEF GuestReturns, InGuest
<1>2. PICK v \in Values :
        /\ Advanced(v) /\ HeapTypes' /\ Len(arena) <= Len(arena')
        /\ UNCHANGED <<exc, registered>>
  <2>1. Top.val \in Values /\ Top.arg \in Values /\ Nil \in Values /\ Len(arena) \in Nat
    BY <1>1, GuestTop DEF Values
  <2>2. ASSUME NEW v \in {Top.val, Nil, stored, Top.arg}, Advanced(v), UNCHANGED heapVars
        PROVE  /\ v \in Values /\ HeapTypes' /\ Len(arena) <= Len(arena')
               /\ UNCHANGED <<exc, registered>>
    BY <2>1, <2>2 DEF VmInv, HeapTypes, heapVars
  <2>3. ASSUME NEW o \in Fresh, Allocate(o, Empty), Advanced(o),
               UNCHANGED <<exc, registered, stored, view>>
        PROVE  o \in Values /\ HeapTypes' /\ Len(arena) <= Len(arena')
    <3>1. HeapTypes' /\ Len(arena') = Len(arena) + 1 /\ Len(arena) \in Nat /\ o \in Values
      BY <2>3, AllocateFacts DEF VmInv
    <3> QED BY <3>1
  <2> QED BY <2>2, <2>3 DEF GuestReturns
<1>3. /\ InOp /\ Top.pc <= Len(Top.op.body) /\ Top.op.body[Top.pc] # "register"
      /\ Top.entry \in Nat /\ Len(arena) \in Nat /\ Top.entry <= Len(arena)
  BY <1>1, GuestTop
<1>4. Top.entry <= Len(arena')
  BY <1>2, <1>3 DEF HeapTypes
<1> QED BY <1>1, <1>2, <1>3, <1>4, AdvanceStep

LEMMA GuestRaisesStep ==
  ASSUME VmInv, GuestRaises, UNCHANGED registryVars
  PROVE  VmInv'
<1>1. PICK o : RaisesNew(o)
  BY DEF GuestRaises
<1>2. InOp /\ Top.pc <= Len(Top.op.body)
  BY GuestTop DEF GuestRaises, InGuest
<1> QED BY <1>1, <1>2, RaiseNewStep

\* A syntax error is pending when the body has ended, and the operation's own.
LEMMA LoadFailsStep ==
  ASSUME VmInv, LoadFails, UNCHANGED registryVars
  PROVE  VmInv'
<1>1. PICK o \in Fresh :
        /\ exc' = o
        /\ SetTop([Top EXCEPT !.pc = @ + 1, !.val = Nil, !.own = o])
  BY DEF LoadFails
<1>2. /\ At({"load"}) /\ UNCHANGED <<arena, registered, stored, view, last, escaped>>
  BY DEF LoadFails
<1>3. /\ InOp /\ Top \in OpFrames /\ Top.pc <= Len(Top.op.body)
      /\ Top.op.body[Top.pc] = "load"
      /\ Top.entry <= Len(arena) /\ Len(arena) \in Nat
  BY <1>2, AtStep
<1>4. o \in Values /\ o \in Objects /\ Nil \in Values
  BY DEF Fresh, Values
<1>5. HeapTypes' /\ Top.entry <= Len(arena')
  BY <1>1, <1>2, <1>3, <1>4 DEF VmInv, HeapTypes
<1> DEFINE p == Top.pc + 1
           g == [Top EXCEPT !.pc = p, !.val = Nil, !.own = o]
<1>6. Top.pc \in Nat \ {0} /\ p \in Nat \ {0}
  BY <1>3 DEF OpFrames
<1>7. /\ Top.op # RegisterRoot /\ Top.op.clears /\ Top.pc = Len(Top.op.body)
      /\ Len(Top.op.body) \in Nat
  <2>1. Top.op # RegisterRoot
    BY <1>3, RegisterRootFields DEF OpFrames
  <2>2. Sane(Top.op)
    BY <1>3, <2>1, OrdinarySane DEF OpFrames, Operations
  <2>3. Top.pc \in 1 .. Len(Top.op.body)
    BY <1>3, <1>6, <2>2 DEF Sane, OpRecords
  <2> QED BY <1>3, <2>1, <2>2, <2>3 DEF Sane, OpRecords, BodySane
<1>8. SetTop(g)
  BY <1>1, Zenon
<1>9. /\ g \in OpFrames /\ g.pc = p /\ g.op = Top.op /\ g.entry = Top.entry
      /\ g.arg = Top.arg /\ g.own = o
  <2> HIDE DEF p
  <2> QED BY <1>3, <1>4, <1>6, Zenon DEF OpFrames
<1> HIDE DEF g
<1>10. ~(g.pc <= Len(g.op.body)) /\ g.pc = Len(g.op.body) + 1
  BY <1>7, <1>9
<1>11. Settled(g)
  BY <1>7, <1>9, <1>10 DEF Settled
<1>12. exc' = g.own
  BY <1>1, <1>9
<1> QED BY <1>2, <1>3, <1>5, <1>7, <1>8, <1>9, <1>10, <1>11, <1>12, OpMoves

LEMMA GuestHandlesStep ==
  ASSUME VmInv, GuestHandles, UNCHANGED registryVars
  PROVE  VmInv'
<1>1. InOp /\ AtGuest(Top) /\ Top.kind = "op" /\ Top.pc <= Len(Top.op.body) /\ exc # Nil
  BY GuestTop DEF GuestHandles
<1>2. ASSUME exc' = Nil, UNCHANGED <<alive, arena, capacity, registered, stored, view, cells, callVars>>
      PROVE  VmInv'
  <2>1. HeapTypes'
    BY <1>2 DEF VmInv, HeapTypes, Values
  <2>2. UNCHANGED <<frames, last, escaped, arena, registered>>
    BY <1>2 DEF callVars
  <2> QED BY <1>1, <2>1, <2>2, HeapStep
<1>3. ASSUME Raises(exc)
      PROVE  VmInv'
  <2>1. exc \in Values
    BY DEF VmInv, HeapTypes
  <2> QED BY <1>1, <1>3, <2>1, RaiseStep
<1> QED BY <1>2, <1>3 DEF GuestHandles

\* A collection changes nothing that is rooted.
LEMMA CollectStep ==
  ASSUME VmInv, Collect \/ CollectInImport, UNCHANGED registryVars
  PROVE  VmInv'
<1>1. UNCHANGED <<arena, exc, registered, stored, view, frames, last, escaped>>
  BY DEF Collect, CollectInImport, CollectGarbage, callVars
<1>2. HeapTypes'
  BY <1>1 DEF VmInv, HeapTypes
<1> QED BY <1>1, <1>2, HeapStep

LEMMA OpNextStep ==
  ASSUME VmInv, OpNext, UNCHANGED registryVars
  PROVE  VmInv'
  BY EndBodyStep, OutOfMemoryStep, CheckStep, MemoryStep, ObjectStep, LinkStep, RegisterStep,
     AbsentStep, GuestStoresStep, GuestReturnsStep, GuestRaisesStep, LoadFailsStep,
     CallHostStep, ReturnToGuestStep, GuestHandlesStep, CollectStep, Zenon DEF OpNext

---------------------------------------------------------------------------
(* The host *)

\* A Zig frame that runs and is done with its last operation.
LEMMA ZigTop ==
  ASSUME VmInv, InZig
  PROVE  /\ Top \in ZigFrames /\ Len(frames) \in Nat /\ Len(frames) > 0 /\ ~escaped
         /\ Top.kind = "zig" /\ Placed(Top, Len(frames)) /\ exc = last.due
         /\ Top.base \in Nat /\ Low(Top) = Top.base /\ Top.base <= Len(arena)
         /\ ScopeFits(Top, Len(arena)) /\ Len(arena) \in Nat
         /\ Top.after[1] # "root" => ~Pending /\ ~Registering
<1>1. /\ Top \in ZigFrames /\ Len(frames) \in Nat /\ Len(frames) > 0 /\ ~escaped
      /\ Top.kind = "zig" /\ Placed(Top, Len(frames))
  BY TopType DEF VmInv, InZig
<1>2. Low(Top) = Top.base /\ Low(Top) <= Len(arena) /\ ScopeFits(Top, Len(arena)) /\ Top.base \in Nat
  BY <1>1 DEF VmInv, FrameInv, Stack, Low, ZigFrames
<1>3. exc = last.due
  BY <1>1, Zenon DEF VmInv, Outcome, TopOutcome
<1>4. ASSUME Top.after[1] # "root"
      PROVE  ~Pending /\ ~Registering
  <2>1. CASE Len(frames) = 1
    BY <1>4, <2>1 DEF VmInv, Registry, Pending, Top
  <2>2. CASE Len(frames) # 1
    <3>1. Len(frames) > 1
      <4> DEFINE n == Len(frames)
      <4>1. n \in Nat /\ n > 0 /\ n # 1
        BY <1>1, <2>2
      <4> HIDE DEF n
      <4>2. n > 1
        BY <4>1
      <4> QED BY <4>2 DEF n
    <3>2. Pending => Len(frames) = 2 /\ Registering
      BY <3>1 DEF VmInv, Registry
    <3>3. Len(frames) = 2 => ~Registering
      BY <1>1 DEF Registering, Top
    <3>4. Registering => Pending
      BY DEF VmInv, Registry
    <3> QED BY <3>2, <3>3, <3>4
  <2> QED BY <2>1, <2>2
<1> QED BY <1>1, <1>2, <1>3, <1>4 DEF VmInv, HeapTypes

\* An operation is called.
LEMMA CallStep ==
  ASSUME VmInv, NEW op \in Operations, NEW arg \in Values, NEW after \in After,
         Call(op, arg, after), UNCHANGED registryVars,
         op # RegisterRoot => after[1] # "root",
         op = RegisterRoot =>
           /\ Len(frames) = 1 /\ after[1] = "root" /\ after[3] = arg /\ arg \in Objects
           /\ handles[after[2]] = Released /\ references[arg] = 0
  PROVE  VmInv'
<1> DEFINE n == Len(frames)
           h == [Top EXCEPT !.after = after]
           g == OpFrame(op, arg)
<1>1. /\ InZig /\ Top.after[1] = "read" /\ last' = NoOutcome /\ escaped' = escaped
      /\ exc' = ExceptionAtEntry(op)
      /\ UNCHANGED <<arena, registered, stored, view, handles, references>>
  BY DEF Call, registryVars
<1>2. /\ Top \in ZigFrames /\ n \in Nat /\ n > 0 /\ Top.kind = "zig" /\ Placed(Top, n)
      /\ ~Pending /\ ~Registering /\ ScopeFits(Top, Len(arena)) /\ Len(arena) \in Nat
      /\ ~escaped
  BY <1>1, ZigTop
<1>3. frames' = Append([frames EXCEPT ![Len(frames)] = h], g)
  BY Zenon DEF Call, Top
<1>4. h \in ZigFrames /\ h.after = after /\ h.kind = "zig" /\ h.base = Top.base /\ h.scopes = Top.scopes
  BY <1>2, Zenon DEF ZigFrames
<1>5. /\ g \in OpFrames /\ g.kind = "op" /\ g.op = op /\ g.pc = 1 /\ g.arg = arg
      /\ g.entry = Len(arena) /\ g.own = Nil /\ g.refused = FALSE
  <2>1. exc \in Values /\ Nil \in Values
    BY DEF VmInv, HeapTypes, Values
  <2> QED BY <1>2, <2>1 DEF OpFrame, OpFrames
<1> HIDE DEF g, h
<1>6. IsFrame(g) /\ IsFrame(h) /\ Waits(h) /\ Low(h) = Low(Top) /\ Low(g) = Len(arena)
  BY <1>2, <1>4, <1>5 DEF IsFrame, Waits, Low
<1>7. Placed(h, n) /\ Placed(g, n + 1) /\ ScopeFits(h, Len(arena))
  <2>1. Len(op.body) \in Nat
    BY OrdinarySane, RegisterRootFields DEF Operations, Sane, OpRecords
  <2>2. Settled(g)
    BY <1>5, <2>1 DEF Settled
  <2>3. Placed(h, n)
    BY <1>2, <1>4 DEF Placed
  <2>4. op = RegisterRoot => n + 1 = 2
    <3>1. op = RegisterRoot => n = 1
      BY Zenon
    <3>2. n = 1 => n + 1 = 2
      OBVIOUS
    <3> HIDE DEF n
    <3> QED BY <3>1, <3>2
  <2>5. Placed(g, n + 1)
    BY <1>5, <2>2, <2>4 DEF Placed
  <2>6. ScopeFits(h, Len(arena))
    BY <1>2, <1>4 DEF ScopeFits
  <2> QED BY <2>3, <2>5, <2>6
<1>8. arena' = arena /\ arena \in Seq(Identities)
  BY <1>1 DEF VmInv, HeapTypes
<1>9. /\ FrameInv' /\ Len(frames') = n + 1 /\ Top' = g
      /\ frames'[n + 1] = g /\ frames'[n] = h
      /\ \A i \in 1 .. n - 1 : frames'[i] = frames[i]
  BY <1>2, <1>3, <1>4, <1>5, <1>6, <1>7, <1>8, FramePushed DEF VmInv
<1>10. exc' \in Values /\ (op.clears => exc' = Nil)
  BY <1>1 DEF VmInv, HeapTypes, ExceptionAtEntry, Values
<1>11. Outcome'
  BY <1>1, <1>5, <1>9, <1>10 DEF Outcome, TopOutcome, NoOutcome
<1>12. Registry'
  <2>1. CASE op = RegisterRoot
    <3>1. n = 1 /\ after[1] = "root" /\ after[3] = arg /\ handles[after[2]] = Released
          /\ references[arg] = 0
      BY <2>1
    <3>2. frames'[1] = h /\ frames'[2] = g /\ Len(frames') = 2
      BY <1>9, <3>1
    <3>3. Pending' /\ Target' = arg /\ Registering' /\ ~Done'
      BY <1>4, <1>5, <2>1, <3>1, <3>2 DEF Pending, Target, Registering, Done
    <3>4. frames'[1].after[2] = after[2] /\ frames'[2].arg = arg
      BY <1>4, <1>5, <3>2
    <3> QED BY <1>1, <1>2, <3>1, <3>2, <3>3, <3>4 DEF VmInv, Registry
  <2>2. CASE op # RegisterRoot
    <3>1. ~Pending' /\ ~Registering'
      <4>1. CASE n = 1
        <5>1. frames'[1] = h /\ frames'[2] = g
          BY <1>9, <4>1
        <5> QED BY <1>4, <1>5, <2>2, <5>1 DEF Pending, Registering
      <4>2. CASE n # 1
        <5>3. 1 \in 1 .. n - 1 /\ (n = 2 \/ 2 \in 1 .. n - 1) /\ n > 1
          <6>1. n \in Nat /\ n > 0 /\ n # 1
            BY <1>2, <4>2
          <6> HIDE DEF n
          <6> QED BY <6>1
        <5>1. frames'[1] = frames[1]
          BY <1>9, <5>3
        <5>2. frames'[2] = frames[2] \/ frames'[2] = h
          BY <1>9, <5>3
        <5>4. ~Pending'
          BY <1>2, <5>1 DEF Pending
        <5>5. frames[2].kind = "op" => frames[2].op # RegisterRoot
          BY <1>2, <5>3 DEF Registering
        <5> QED BY <1>4, <5>2, <5>4, <5>5 DEF Registering
      <4> QED BY <4>1, <4>2
    <3> QED BY <1>1, <1>2, <3>1 DEF VmInv, Registry
  <2> QED BY <2>1, <2>2
<1> QED BY <1>1, <1>9, <1>10, <1>11, <1>12 DEF VmInv, HeapTypes, RegistryTypes

\* An ordinary operation is called.
LEMMA OrdinaryCallStep ==
  ASSUME VmInv, NEW op \in Ordinary, NEW arg \in Values,
         NEW after \in {<<"read">>, <<"return">>},
         Call(op, arg, after), UNCHANGED registryVars
  PROVE  VmInv'
<1>1. op # RegisterRoot
  <2>1. op.body \in Seq(StepKinds \ {"register"})
    BY OrdinarySane DEF Sane, BodySane
  <2>2. op.body[2] # "register" \/ Len(op.body) # 2
    BY <2>1
  <2> QED BY <2>2, RegisterRootFields
<1>2. after \in After /\ after[1] # "root"
  BY DEF After
<1>3. op \in Operations
  BY DEF Operations
<1> QED BY <1>1, <1>2, <1>3, CallStep

LEMMA CallOperationStep ==
  ASSUME VmInv, CallOperation
  PROVE  VmInv'
<1>1. PICK op \in OnValue \cup OnNames \cup OnCallback, v \in Held \cup {Nil} :
        Call(op, v, <<"read">>)
  BY DEF CallOperation
<1>2. v \in Values
  BY DEF Held, Values, Identities, VmInv, HeapTypes, RegistryTypes, ToSet, Released
<1>3. op \in Ordinary /\ <<"read">> \in {<<"read">>, <<"return">>} /\ UNCHANGED registryVars
  BY DEF Ordinary, CallOperation
<1> QED BY <1>1, <1>2, <1>3, OrdinaryCallStep

LEMMA ReadDetailsStep ==
  ASSUME VmInv, ReadDetails
  PROVE  VmInv'
<1>1. PICK op \in {FuncallPreserveError, PrintError}, v \in {exc, Nil} :
        Call(op, v, <<"read">>)
  BY DEF ReadDetails
<1>2. v \in Values
  BY DEF VmInv, HeapTypes, Values
<1>3. op \in Ordinary /\ <<"read">> \in {<<"read">>, <<"return">>} /\ UNCHANGED registryVars
  BY DEF Ordinary, ReadDetails
<1> QED BY <1>1, <1>2, <1>3, OrdinaryCallStep

LEMMA FailCallbackStep ==
  ASSUME VmInv, FailCallback
  PROVE  VmInv'
<1>1. /\ Call(SetException, Nil, <<"return">>) /\ UNCHANGED registryVars
      /\ SetException \in Ordinary /\ Nil \in Values
      /\ <<"return">> \in {<<"read">>, <<"return">>}
  BY DEF FailCallback, Ordinary, Values
<1> QED BY <1>1, OrdinaryCallStep

\* The Zig frame that runs moves on, and roots nothing any more.
LEMMA ZigMoves ==
  ASSUME VmInv, InZig, NEW g \in ZigFrames, SetTop(g), g.base = Top.base,
         Placed(g, Len(frames)), g.after[1] # "root",
         HeapTypes', Top.base <= Len(arena'), ScopeFits(g, Len(arena')), escaped' = escaped,
         (last' = last /\ exc' = exc) \/ (last' = NoOutcome /\ exc' = Nil)
  PROVE  FrameInv' /\ Outcome' /\ ~Pending' /\ ~Registering' /\ escaped' \in BOOLEAN
<1> DEFINE n == Len(frames)
<1>1. /\ Top \in ZigFrames /\ n \in Nat /\ n > 0 /\ Top.kind = "zig" /\ g.kind = "zig"
      /\ exc = last.due /\ Low(Top) = Top.base /\ Placed(Top, n)
      /\ Top.after[1] # "root" => ~Pending /\ ~Registering
  BY ZigTop DEF ZigFrames
<1>2. IsFrame(g) /\ Low(g) = Low(Top)
  BY <1>1 DEF IsFrame, Low
<1>3. /\ FrameInv' /\ Len(frames') = n /\ Top' = g /\ frames'[n] = g
      /\ \A i \in 1 .. n - 1 : frames'[i] = frames[i]
  BY <1>1, <1>2, FrameMoves DEF VmInv, HeapTypes
<1>4. Outcome'
  <2>1. exc' = last'.due
    BY <1>1 DEF NoOutcome
  <2>2. last'.ok <=> (last'.own = Nil /\ ~last'.refused)
    BY DEF NoOutcome, VmInv, Outcome
  <2>3. TopOutcome(Top)'
    BY <1>1, <1>3, <2>1 DEF TopOutcome
  <2> QED BY <2>2, <2>3 DEF Outcome
<1>5. CASE n = 1
  <2>1. frames'[1] = g /\ Len(frames') = 1
    BY <1>3, <1>5
  <2>2. ~Registering' /\ ~Pending'
    BY <2>1 DEF Pending, Registering
  <2> QED BY <1>3, <1>4, <2>2 DEF VmInv
<1>6. CASE n # 1
  <2>1. 1 \in 1 .. n - 1 /\ (n = 2 \/ 2 \in 1 .. n - 1) /\ n > 1
    <3>1. n \in Nat /\ n > 0 /\ n # 1
      BY <1>1, <1>6
    <3> HIDE DEF n
    <3> QED BY <3>1
  <2>2. frames'[1] = frames[1] /\ (frames'[2] = frames[2] \/ frames'[2] = g)
    BY <1>3, <2>1
  <2>3. Top.after[1] # "root"
    BY <1>1, <1>6 DEF Placed
  <2>4. ~Pending' /\ ~Registering'
    <3>1. ~Pending /\ ~Registering
      BY <1>1, <2>3, Zenon
    <3>2. frames[2].kind = "op" => frames[2].op # RegisterRoot
      BY <2>1, <3>1 DEF Registering
    <3> QED BY <1>1, <2>2, <3>1, <3>2 DEF Pending, Registering
  <2> QED BY <1>3, <1>4, <2>4 DEF VmInv
<1> QED BY <1>5, <1>6

\* It does not move.
LEMMA ZigStays ==
  ASSUME VmInv, InZig, UNCHANGED frames, Top.after[1] # "root",
         HeapTypes', UNCHANGED <<arena, escaped>>,
         (last' = last /\ exc' = exc) \/ (last' = NoOutcome /\ exc' = Nil)
  PROVE  FrameInv' /\ Outcome' /\ ~Pending' /\ ~Registering' /\ escaped' \in BOOLEAN
<1>1. /\ Top \in ZigFrames /\ Placed(Top, Len(frames)) /\ Top.base <= Len(arena)
      /\ ScopeFits(Top, Len(arena))
  BY ZigTop
<1>2. SetTop(Top)
  BY DEF SetTop, Top, VmInv, FrameInv, FrameTypes
<1>3. Top.base <= Len(arena') /\ ScopeFits(Top, Len(arena'))
  BY <1>1
<1> DEFINE g == Top
<1>4. /\ g \in ZigFrames /\ SetTop(g) /\ g.base = Top.base /\ Placed(g, Len(frames))
      /\ g.after[1] # "root" /\ ScopeFits(g, Len(arena'))
  BY <1>1, <1>2, <1>3
<1> HIDE DEF g
<1> QED BY <1>3, <1>4, ZigMoves

\* The registry is left alone.
LEMMA RegistryStays ==
  ASSUME VmInv, ~Pending, ~Pending', ~Registering',
         UNCHANGED <<handles, references, registered>>
  PROVE  Registry' /\ RegistryTypes'
  BY DEF VmInv, Registry, RegistryTypes

LEMMA OpenScopeStep ==
  ASSUME VmInv, OpenScope
  PROVE  VmInv'
<1> DEFINE s == <<Len(arena)>>
           g == [Top EXCEPT !.scopes = s]
<1>1. /\ InZig /\ Top.after[1] = "read" /\ Len(frames) <= 1
      /\ UNCHANGED <<arena, exc, stored, view, registered, handles, references, last, escaped>>
  BY ZigTop DEF OpenScope, heapVars, registryVars, InCallback
<1>2. /\ Top \in ZigFrames /\ Len(frames) = 1 /\ Top.base <= Len(arena) /\ ~Pending
      /\ Len(arena) \in Nat
  <2>1. /\ Top \in ZigFrames /\ Len(frames) \in Nat /\ Len(frames) > 0
        /\ Top.base <= Len(arena) /\ ~Pending /\ Len(arena) \in Nat
    BY <1>1, ZigTop
  <2> DEFINE n == Len(frames)
  <2>2. n \in Nat /\ n > 0 /\ n <= 1
    BY <1>1, <2>1
  <2> HIDE DEF n
  <2>3. n = 1
    BY <2>2
  <2> QED BY <2>1, <2>3 DEF n
<1>3. SetTop(g)
  BY Zenon DEF OpenScope
<1>4. g \in ZigFrames /\ g.base = Top.base /\ g.after = Top.after /\ g.scopes = s
  <2>1. s \in Seq(Nat)
    BY <1>2
  <2> HIDE DEF s
  <2> QED BY <1>2, <2>1, Zenon DEF ZigFrames
<1> HIDE DEF g
<1>5. Placed(g, Len(frames)) /\ ScopeFits(g, Len(arena'))
  <2>1. g.kind = "zig" /\ g.scopes[1] = Len(arena)
    BY <1>4 DEF ZigFrames
  <2>2. Len(arena') = Len(arena)
    BY <1>1
  <2> HIDE DEF s
  <2> QED BY <1>2, <1>4, <2>1, <2>2 DEF Placed, ScopeFits
<1>6. HeapTypes' /\ Top.base <= Len(arena')
  BY <1>1, <1>2 DEF VmInv, HeapTypes
<1>7. FrameInv' /\ Outcome' /\ ~Pending' /\ ~Registering' /\ escaped' \in BOOLEAN
  BY <1>1, <1>3, <1>4, <1>5, <1>6, ZigMoves
<1> QED BY <1>1, <1>2, <1>6, <1>7, RegistryStays DEF VmInv

LEMMA CloseScopeStep ==
  ASSUME VmInv, CloseScope
  PROVE  VmInv'
<1> DEFINE s == <<>>
           g == [Top EXCEPT !.scopes = s]
<1>1. /\ InZig /\ Top.after[1] = "read" /\ Top.scopes # <<>>
      /\ arena' = ArenaRestored(Top.scopes[1])
      /\ UNCHANGED <<exc, stored, view, registered, handles, references, last, escaped>>
  BY DEF CloseScope, registryVars
<1>2. /\ Top \in ZigFrames /\ Top.base <= Top.scopes[1] /\ Top.scopes[1] <= Len(arena)
      /\ Top.scopes[1] \in Nat /\ ~Pending
  BY <1>1, ZigTop DEF ScopeFits, ZigFrames
<1>3. SetTop(g)
  BY Zenon DEF CloseScope
<1>4. g \in ZigFrames /\ g.base = Top.base /\ g.after = Top.after /\ g.scopes = s
  <2>1. s \in Seq(Nat)
    OBVIOUS
  <2> HIDE DEF s
  <2> QED BY <1>2, <2>1, Zenon DEF ZigFrames
<1> HIDE DEF g
<1>5. Placed(g, Len(frames)) /\ ScopeFits(g, Len(arena'))
  BY <1>1, <1>4 DEF Placed, ScopeFits, ZigFrames
<1>6. arena' \in Seq(Identities) /\ Len(arena') = Top.scopes[1]
  BY <1>1, <1>2, RestoredFacts DEF VmInv, HeapTypes
<1>7. HeapTypes' /\ Top.base <= Len(arena')
  BY <1>1, <1>2, <1>6 DEF VmInv, HeapTypes
<1>8. FrameInv' /\ Outcome' /\ ~Pending' /\ ~Registering' /\ escaped' \in BOOLEAN
  BY <1>1, <1>3, <1>4, <1>5, <1>7, ZigMoves
<1> QED BY <1>1, <1>2, <1>7, <1>8, RegistryStays DEF VmInv

\* The pending exception is cleared or put aside.
LEMMA ErrorStep ==
  ASSUME VmInv, ClearError \/ CaptureErrorView \/ ClearErrorView
  PROVE  VmInv'
<1>1. /\ InZig /\ Top.after[1] = "read"
      /\ (exc' = Nil /\ last' = NoOutcome) \/ (exc' = exc /\ last' = last)
      /\ view' \in {view, exc, Nil}
      /\ UNCHANGED <<arena, stored, registered, frames, handles, references, escaped>>
  BY DEF ClearError, CaptureErrorView, ClearErrorView, registryVars, callVars
<1>2. ~Pending /\ Top.after[1] # "root"
  BY <1>1, ZigTop
<1>3. HeapTypes'
  BY <1>1 DEF VmInv, HeapTypes, Values
<1>4. FrameInv' /\ Outcome' /\ ~Pending' /\ ~Registering' /\ escaped' \in BOOLEAN
  BY <1>1, <1>2, <1>3, ZigStays
<1> QED BY <1>1, <1>2, <1>3, <1>4, RegistryStays DEF VmInv

\* How many handles refer to a value, when one of them changes.
Holding(o) == {h \in Handles : handles[h] = o}
Count(o) == Cardinality(Holding(o))

LEMMA HandleMoved ==
  ASSUME RegistryTypes, NEW h \in Handles, NEW v, handles' = [handles EXCEPT ![h] = v], NEW o
  PROVE  /\ Count(o) \in Nat /\ Count(o)' \in Nat
         /\ (o = handles[h] <=> o = v) => Count(o)' = Count(o)
         /\ o = v /\ o # handles[h] => Count(o)' = Count(o) + 1
         /\ o # v /\ o = handles[h] => Count(o)' = Count(o) - 1
<1> DEFINE F == Holding(o)
           G == Holding(o)'
<1>1. handles'[h] = v /\ \A i \in Handles \ {h} : handles'[i] = handles[i]
  BY DEF RegistryTypes
<1>2. IsFiniteSet(F) /\ IsFiniteSet(G)
  BY FS_Subset, SafeVmAssumption DEF Holding
<1>3. Cardinality(F) \in Nat /\ Cardinality(G) \in Nat
  BY <1>2, FS_CardinalityType
<1>4. (o = handles[h] <=> o = v) => G = F
  BY <1>1 DEF Holding
<1>5. o = v /\ o # handles[h] => G = F \cup {h} /\ h \notin F
  BY <1>1 DEF Holding
<1>6. o # v /\ o = handles[h] => G = F \ {h} /\ h \in F
  BY <1>1 DEF Holding
<1> HIDE DEF F, G
<1>7. h \notin F => Cardinality(F \cup {h}) = Cardinality(F) + 1
  BY <1>2, FS_AddElement
<1>8. h \in F => Cardinality(F \ {h}) = Cardinality(F) - 1
  BY <1>2, FS_RemoveElement
<1>9. /\ Cardinality(F) \in Nat /\ Cardinality(G) \in Nat
      /\ (o = handles[h] <=> o = v) => Cardinality(G) = Cardinality(F)
      /\ o = v /\ o # handles[h] => Cardinality(G) = Cardinality(F) + 1
      /\ o # v /\ o = handles[h] => Cardinality(G) = Cardinality(F) - 1
  BY <1>3, <1>4, <1>5, <1>6, <1>7, <1>8
<1>10. Count(o) = Cardinality(F) /\ Count(o)' = Cardinality(G)
  BY Zenon DEF Count, F, G
<1> QED BY <1>9, <1>10

\* A value is rooted: its first reference registers it.
LEMMA RootStep ==
  ASSUME VmInv, NEW h \in Handles, NEW v \in Objects \cup {Nil}, Root(h, v)
  PROVE  VmInv'
<1>1. /\ InZig /\ Len(frames) <= 1 /\ handles[h] = Released
  <2>1. InZig /\ ~InCallback /\ handles[h] = Released
    BY DEF Root
  <2>2. Len(frames) \in Nat
    BY <2>1, ZigTop
  <2> DEFINE n == Len(frames)
  <2>3. n \in Nat /\ ~(n > 1)
    BY <2>1, <2>2 DEF InCallback
  <2> HIDE DEF n
  <2>4. n <= 1
    BY <2>3
  <2> QED BY <2>1, <2>4 DEF n
<1>2. Len(frames) = 1
  <2> DEFINE n == Len(frames)
  <2>1. n \in Nat /\ n > 0 /\ n <= 1
    BY <1>1, ZigTop
  <2> HIDE DEF n
  <2>2. n = 1
    BY <2>1
  <2> QED BY <2>2 DEF n
<1>3. CASE FirstReference(v)
  <2>1. Call(RegisterRoot, v, <<"root", h, v>>) /\ UNCHANGED registryVars
    BY <1>3 DEF Root
  <2>2. v \in Objects /\ references[v] = 0
    BY <1>3 DEF FirstReference
  <2> DEFINE after == <<"root", h, v>>
  <2>3. after \in After /\ after[1] = "root" /\ after[2] = h /\ after[3] = v
    BY <2>2 DEF After
  <2>4. RegisterRoot \in Operations /\ v \in Values
    BY <2>2 DEF Operations, Values
  <2> HIDE DEF after
  <2>5. Call(RegisterRoot, v, after)
    BY <2>1 DEF after
  <2> QED BY <1>1, <1>2, <2>1, <2>2, <2>3, <2>4, <2>5, CallStep
<1>4. CASE ~FirstReference(v)
  <2>1. /\ Top.after[1] = "read"
        /\ handles' = [handles EXCEPT ![h] = v]
        /\ references' = [o \in Identities |-> references[o] + IF o = v THEN 1 ELSE 0]
        /\ UNCHANGED <<arena, exc, stored, view, registered, frames, last, escaped>>
    BY <1>4 DEF Root, heapVars, callVars
  <2>2. ~Pending /\ Top.after[1] # "root"
    BY <1>1, <2>1, ZigTop
  <2>3. HeapTypes'
    BY <2>1 DEF VmInv, HeapTypes
  <2>4. FrameInv' /\ Outcome' /\ ~Pending' /\ ~Registering' /\ escaped' \in BOOLEAN
    BY <1>1, <2>1, <2>2, <2>3, ZigStays
  <2>5. Released \notin Identities /\ v # Released /\ IsFiniteSet(Handles)
    BY SafeVmAssumption DEF Released, Identities, Values
  <2>6. RegistryTypes'
    BY <2>1 DEF VmInv, RegistryTypes
  <2>7. \A o \in Identities : references'[o] = Cardinality({i \in Handles : handles'[i] = o})
    <3> SUFFICES ASSUME NEW o \in Identities
                 PROVE  references'[o] = Cardinality({i \in Handles : handles'[i] = o})
      OBVIOUS
    <3> DEFINE a == Count(o)
               b == Count(o)'
    <3>1. o # handles[h]
      BY <1>1, <2>5
    <3>2. a \in Nat /\ (o = v => b = a + 1) /\ (o # v => b = a)
      BY <2>1, <3>1, HandleMoved DEF VmInv
    <3>3. references[o] = a
      BY DEF VmInv, Registry, Count, Holding
    <3> HIDE DEF a, b
    <3>4. references'[o] = a + (IF o = v THEN 1 ELSE 0)
      BY <2>1, <3>3
    <3>5. references'[o] = b
      BY <3>2, <3>4
    <3> QED BY <3>5 DEF b, Count, Holding
  <2>8. \A o \in Identities : o \in registered' <=> references'[o] > 0
    <3>1. v \in Identities => references[v] > 0
      BY <1>4, HeapAssumption DEF FirstReference, VmInv, RegistryTypes, Identities
    <3>2. \A o \in Identities : references[o] \in Nat
      BY DEF VmInv, RegistryTypes
    <3>3. \A o \in Identities : o \in registered <=> references[o] > 0
      BY <2>2 DEF VmInv, Registry
    <3>4. \A o \in Identities : references'[o] > 0 <=> references[o] > 0
      BY <2>1, <3>1, <3>2
    <3> QED BY <2>1, <3>3, <3>4
  <2>9. Registry'
    BY <2>4, <2>7, <2>8 DEF Registry
  <2> QED BY <2>3, <2>4, <2>6, <2>9 DEF VmInv
<1> QED BY <1>3, <1>4

LEMMA RootReturnsStep ==
  ASSUME VmInv, RootReturns
  PROVE  VmInv'
<1> DEFINE read == <<"read">>
           g == [Top EXCEPT !.after = read]
           h == Top.after[2]
           v == Top.after[3]
<1>1. /\ InZig /\ Top.after[1] = "root"
      /\ IF last.ok THEN /\ handles' = [handles EXCEPT ![h] = v]
                         /\ references' = [references EXCEPT ![v] = 1]
         ELSE UNCHANGED <<handles, references>>
      /\ UNCHANGED <<arena, exc, stored, view, registered, last, escaped>>
  BY Zenon DEF RootReturns, heapVars, registryVars
<1>2. SetTop(g)
  BY Zenon DEF RootReturns
<1>3. /\ Top \in ZigFrames /\ Len(frames) = 1 /\ Placed(Top, Len(frames)) /\ Top.kind = "zig"
      /\ ScopeFits(Top, Len(arena)) /\ Top.base <= Len(arena)
  BY <1>1, ZigTop DEF Placed
<1>4. g \in ZigFrames /\ g.base = Top.base /\ g.after = read /\ g.scopes = Top.scopes /\ g.kind = "zig"
  <2>1. read \in After
    BY DEF After
  <2> HIDE DEF read
  <2> QED BY <1>3, <2>1, Zenon DEF ZigFrames
<1>5. frames[1] = Top /\ Pending /\ Target = v /\ h \in Handles /\ v \in Objects
  <2>1. frames[1] = Top
    BY <1>3 DEF Top
  <2>2. Top.after \in After
    BY <1>3 DEF ZigFrames
  <2> QED BY <1>1, <2>1, <2>2 DEF After, Pending, Target
<1>6. /\ handles[h] = Released /\ references[v] = 0
      /\ \A o \in Identities : o \in registered <=> references[o] > 0 \/ (last.ok /\ o = v)
  BY <1>3, <1>5 DEF VmInv, Registry, Done
<1> HIDE DEF g
<1>7. g.after[1] # "root"
  BY <1>4
<1>8. Placed(g, Len(frames)) /\ ScopeFits(g, Len(arena'))
  BY <1>1, <1>3, <1>4, <1>7 DEF Placed, ScopeFits
<1>9. HeapTypes' /\ Top.base <= Len(arena')
  BY <1>1, <1>3 DEF VmInv, HeapTypes
<1>10. FrameInv' /\ Outcome' /\ ~Pending' /\ ~Registering' /\ escaped' \in BOOLEAN
  BY <1>1, <1>2, <1>4, <1>7, <1>8, <1>9, ZigMoves
<1> HIDE DEF h, v
<1>11. v \in Identities /\ Released \notin Identities /\ IsFiniteSet(Handles)
  BY <1>5, SafeVmAssumption DEF Released, Identities, Values
<1>12. RegistryTypes'
  BY <1>1, <1>5 DEF VmInv, RegistryTypes
<1>13. \A o \in Identities : references'[o] = Cardinality({i \in Handles : handles'[i] = o})
  <2>1. CASE last.ok
    <3> SUFFICES ASSUME NEW o \in Identities
                 PROVE  references'[o] = Cardinality({i \in Handles : handles'[i] = o})
      OBVIOUS
    <3> DEFINE a == Count(o)
               b == Count(o)'
    <3>1. o # handles[h] /\ handles' = [handles EXCEPT ![h] = v]
      BY <1>1, <1>6, <1>11, <2>1
    <3>2. a \in Nat /\ (o = v => b = a + 1) /\ (o # v => b = a)
      BY <1>5, <3>1, HandleMoved DEF VmInv
    <3>3. references[o] = a
      BY DEF VmInv, Registry, Count, Holding
    <3> HIDE DEF a, b
    <3>4. references'[o] = IF o = v THEN 1 ELSE references[o]
      BY <1>1, <1>11, <2>1 DEF VmInv, RegistryTypes
    <3>5. references'[o] = b
      BY <1>6, <3>2, <3>3, <3>4
    <3> QED BY <3>5 DEF b, Count, Holding
  <2>2. CASE ~last.ok
    BY <1>1, <2>2 DEF VmInv, Registry
  <2> QED BY <2>1, <2>2
<1>14. \A o \in Identities : o \in registered' <=> references'[o] > 0
  <2>1. CASE last.ok
    <3>1. \A o \in Identities : references'[o] = IF o = v THEN 1 ELSE references[o]
      BY <1>1, <1>11, <2>1 DEF VmInv, RegistryTypes
    <3> QED BY <1>1, <1>6, <2>1, <3>1
  <2>2. CASE ~last.ok
    BY <1>1, <1>6, <2>2
  <2> QED BY <2>1, <2>2
<1>15. Registry'
  BY <1>10, <1>13, <1>14 DEF Registry
<1> QED BY <1>9, <1>10, <1>12, <1>15 DEF VmInv

\* A handle is released: the last reference unregisters.
LEMMA UnrootStep ==
  ASSUME VmInv, NEW h \in Handles, Unroot(h)
  PROVE  VmInv'
<1> DEFINE v == handles[h]
<1>1. /\ InZig /\ Top.after[1] = "read" /\ v # Released
      /\ registered' = IF LastReference(v) THEN registered \ {v} ELSE registered
      /\ references' = [o \in Identities |-> references[o] - IF o = v THEN 1 ELSE 0]
      /\ handles' = [handles EXCEPT ![h] = Released]
      /\ UNCHANGED <<arena, exc, stored, view, frames, last, escaped>>
  BY DEF Unroot, callVars
<1>2. ~Pending /\ Top.after[1] # "root"
  BY <1>1, ZigTop
<1>3. HeapTypes'
  BY <1>1 DEF VmInv, HeapTypes
<1>4. FrameInv' /\ Outcome' /\ ~Pending' /\ ~Registering' /\ escaped' \in BOOLEAN
  BY <1>1, <1>2, <1>3, ZigStays
<1>5. v \in Objects \cup {Nil} /\ Released \notin Identities /\ IsFiniteSet(Handles)
  BY <1>1, SafeVmAssumption DEF VmInv, RegistryTypes, Released, Identities, Values
<1>6. ASSUME NEW o \in Identities
      PROVE  /\ references'[o] = Cardinality({i \in Handles : handles'[i] = o})
             /\ o = v => references[o] > 0
             /\ references'[o] \in Nat
  <2> DEFINE a == Count(o)
             b == Count(o)'
  <2>1. o # Released
    BY <1>5
  <2>2. a \in Nat /\ (o = v => b = a - 1) /\ (o # v => b = a)
    BY <1>1, <2>1, HandleMoved DEF VmInv
  <2>3. references[o] = a /\ references[o] \in Nat
    BY DEF VmInv, Registry, RegistryTypes, Count, Holding
  <2>4. b \in Nat
    BY <1>1, HandleMoved DEF VmInv
  <2> HIDE DEF a, b, v
  <2>5. references'[o] = a - (IF o = v THEN 1 ELSE 0)
    BY <1>1, <2>3
  <2>6. references'[o] = b /\ (o = v => a > 0)
    BY <2>2, <2>4, <2>5
  <2> QED BY <2>3, <2>4, <2>6 DEF b, Count, Holding
<1>7. RegistryTypes'
  <2>1. handles' \in [Handles -> Objects \cup {Nil, Released}]
    BY <1>1 DEF VmInv, RegistryTypes
  <2>2. references' \in [Identities -> Nat]
    <3>1. DOMAIN references' = Identities /\ references' = [o \in Identities |-> references'[o]]
      BY <1>1
    <3> QED BY <1>6, <3>1
  <2> QED BY <2>1, <2>2 DEF RegistryTypes
<1>8. \A o \in Identities : o \in registered' <=> references'[o] > 0
  <2> SUFFICES ASSUME NEW o \in Identities
               PROVE  o \in registered' <=> references'[o] > 0
    OBVIOUS
  <2>1. o \in registered <=> references[o] > 0
    BY <1>2 DEF VmInv, Registry
  <2>2. references[o] \in Nat
    BY DEF VmInv, RegistryTypes
  <2>3. o # Nil
    BY HeapAssumption DEF Identities
  <2> HIDE DEF v
  <2>4. CASE o = v
    <3>1. references'[o] = references[o] - 1 /\ (LastReference(v) <=> references[o] = 1)
      BY <1>1, <2>3, <2>4 DEF LastReference
    <3> QED BY <1>1, <1>6, <2>1, <2>2, <2>4, <3>1
  <2>5. CASE o # v
    <3>1. references'[o] = references[o] - 0
      BY <1>1, <2>5
    <3> QED BY <1>1, <2>1, <2>2, <2>5, <3>1
  <2> QED BY <2>4, <2>5
<1>9. Registry'
  BY <1>4, <1>6, <1>8 DEF Registry
<1> QED BY <1>3, <1>4, <1>7, <1>9 DEF VmInv

---------------------------------------------------------------------------
(* Imports *)

\* An import is called, or refused at once.
LEMMA ImportGraphStep ==
  ASSUME VmInv, ImportGraph
  PROVE  VmInv'
<1> DEFINE n == Len(frames)
<1>1. PICK g \in Graphs : Import(g)
  BY DEF ImportGraph
<1>2. /\ InZig /\ ~(n > 1) /\ Top.after[1] = "read"
      /\ UNCHANGED <<arena, exc, stored, view, registered, escaped, handles, references>>
  BY <1>1 DEF ImportGraph, InCallback, Import, heapVars, registryVars
<1>3. /\ Top \in ZigFrames /\ n \in Nat /\ n > 0 /\ Top.kind = "zig" /\ ~escaped
      /\ Placed(Top, n) /\ ~Pending /\ exc = last.due
      /\ ScopeFits(Top, Len(arena)) /\ Low(Top) <= Len(arena) /\ Low(Top) = Top.base
      /\ Len(arena) \in Nat
  BY <1>2, ZigTop
<1>4. n = 1
  <2> HIDE DEF n
  <2> QED BY <1>2, <1>3
<1>5. HeapTypes' /\ arena' = arena /\ arena \in Seq(Identities) /\ exc' \in Values
  BY <1>2 DEF VmInv, HeapTypes
<1>6. CASE GraphValid(g)
  <2> DEFINE f == ImportFrame(g)
  <2>1. frames' = Append(frames, f) /\ last' = last
    BY <1>1, <1>6 DEF Import
  <2>2. /\ f \in ImportFrames({f.vals}) /\ f.kind = "import" /\ f.stale = exc /\ f.phase = "table"
        /\ f.entry = Len(arena)
    BY <1>2, <1>3, <1>5 DEF ImportFrame, ImportFrames, Phases
  <2> HIDE DEF f
  <2>3. frames = [frames EXCEPT ![n] = Top]
    BY <1>3 DEF VmInv, FrameInv, FrameTypes, Top
  <2>4. frames' = Append([frames EXCEPT ![Len(frames)] = Top], f)
    BY <2>1, <2>3
  <2>5. /\ IsFrame(f) /\ IsFrame(Top) /\ Placed(f, n + 1) /\ Waits(Top)
        /\ Low(f) = Len(arena)
    BY <1>3, <2>2 DEF IsFrame, Placed, Waits, Low
  <2>6. /\ FrameInv' /\ Len(frames') = n + 1 /\ Top' = f /\ frames'[n + 1] = f
        /\ frames'[n] = Top
    BY <1>3, <1>5, <2>2, <2>4, <2>5, FramePushed DEF VmInv
  <2>7. Outcome'
    BY <1>2, <2>1, <2>2, <2>6 DEF VmInv, Outcome, TopOutcome
  <2>8. ~Pending' /\ ~Registering'
    <3>1. frames'[1] = Top /\ frames'[2] = f
      BY <1>4, <2>6
    <3> QED BY <1>2, <2>2, <3>1 DEF Pending, Registering
  <2> QED BY <1>2, <1>3, <1>5, <2>6, <2>7, <2>8, RegistryStays DEF VmInv
<1>7. CASE ~GraphValid(g)
  <2>1. /\ frames' = frames
        /\ last' = [ok |-> FALSE, own |-> Nil, refused |-> TRUE, due |-> exc]
    BY <1>1, <1>7 DEF Import, Reported
  <2>2. FrameInv' /\ Top' = Top
    BY <1>3, <1>5, <2>1, FramesStay DEF VmInv
  <2>3. Outcome'
    BY <1>2, <1>3, <2>1, <2>2 DEF Outcome, TopOutcome
  <2>4. ~Pending' /\ ~Registering'
    <3>1. frames'[1] = frames[1] /\ Len(frames') = 1
      BY <1>4, <2>1
    <3> QED BY <1>3, <3>1 DEF Pending, Registering
  <2> QED BY <1>2, <1>3, <1>5, <2>2, <2>3, <2>4, RegistryStays DEF VmInv
<1> QED BY <1>6, <1>7

LEMMA ImportTop ==
  ASSUME VmInv, InImport
  PROVE  /\ Top \in ImportFrames({Top.vals}) /\ Len(frames) \in Nat /\ Len(frames) > 1
         /\ Top.kind = "import" /\ ~escaped /\ Placed(Top, Len(frames))
         /\ exc = Top.stale /\ ~Pending /\ ~Registering
         /\ Top.entry \in Nat /\ Top.entry <= Len(arena) /\ Low(Top) = Top.entry
         /\ Len(arena) \in Nat
<1> DEFINE n == Len(frames)
<1>1. /\ Top \in ImportFrames({Top.vals}) /\ n \in Nat /\ n > 0 /\ Top.kind = "import"
      /\ ~escaped /\ Placed(Top, n)
  BY TopType DEF VmInv, InImport
<1>2. Top.entry \in Nat /\ Top.entry <= Len(arena) /\ Low(Top) = Top.entry
  BY <1>1 DEF VmInv, FrameInv, Stack, Low, ImportFrames
<1>3. exc = Top.stale
  BY <1>1, Zenon DEF VmInv, Outcome, TopOutcome
<1>4. n # 1
  BY <1>1 DEF VmInv, FrameInv, Stack, Top
<1>5. n > 1
  <2> HIDE DEF n
  <2> QED BY <1>1, <1>4
<1>6. Pending => n = 2 /\ Registering
  BY <1>5 DEF VmInv, Registry
<1>7. n = 2 => ~Registering
  BY <1>1 DEF Registering, Top
<1>8. Registering => Pending
  BY DEF VmInv, Registry
<1> QED BY <1>1, <1>2, <1>3, <1>5, <1>6, <1>7, <1>8 DEF VmInv, HeapTypes

\* The import moves on.
LEMMA ImportMoves ==
  ASSUME VmInv, InImport, NEW g, g \in ImportFrames({g.vals}), SetTop(g),
         g.entry = Top.entry, g.stale = Top.stale,
         g.phase \in {"shell", "edges"} => g.table \in Objects,
         HeapTypes', Top.entry <= Len(arena'),
         UNCHANGED <<exc, registered, last, escaped, registryVars>>
  PROVE  VmInv'
<1> DEFINE n == Len(frames)
<1>1. /\ n \in Nat /\ n > 1 /\ Top.kind = "import" /\ ~escaped /\ exc = Top.stale
      /\ ~Pending /\ ~Registering /\ Low(Top) = Top.entry
  BY ImportTop
<1>2. g.kind = "import" /\ IsFrame(g) /\ Low(g) = Low(Top) /\ Placed(g, n) /\ ScopeFits(g, Len(arena'))
  BY <1>1 DEF ImportFrames, IsFrame, Low, Placed, ScopeFits
<1>3. /\ FrameInv' /\ Len(frames') = n /\ Top' = g /\ frames'[n] = g
      /\ \A i \in 1 .. n - 1 : frames'[i] = frames[i]
  BY <1>1, <1>2, FrameMoves DEF VmInv, HeapTypes
<1>4. Outcome'
  BY <1>1, <1>2, <1>3 DEF VmInv, Outcome, TopOutcome
<1>5. ~Pending' /\ ~Registering'
  <2>1. 1 \in 1 .. n - 1 /\ (n = 2 \/ 2 \in 1 .. n - 1)
    <3> HIDE DEF n
    <3> QED BY <1>1
  <2>2. frames'[1] = frames[1] /\ (frames'[2] = frames[2] \/ frames'[2] = g)
    BY <1>3, <2>1
  <2> QED BY <1>1, <1>2, <2>2 DEF Pending, Registering
<1>6. UNCHANGED <<handles, references, registered>>
  BY DEF registryVars
<1> QED BY <1>1, <1>3, <1>4, <1>5, <1>6, RegistryStays DEF VmInv

\* The import is over.
LEMMA ImportPops ==
  ASSUME VmInv, InImport, frames' = Front(frames),
         arena' \in Seq(Identities), Top.entry <= Len(arena'),
         exc' \in Values, exc' = last'.due,
         last'.ok <=> (last'.own = Nil /\ ~last'.refused),
         UNCHANGED <<registered, stored, view, escaped, registryVars>>
  PROVE  VmInv'
<1> DEFINE n == Len(frames)
<1>1. /\ n \in Nat /\ n > 1 /\ Top.kind = "import" /\ ~escaped
      /\ ~Pending /\ ~Registering /\ Low(Top) = Top.entry
  BY ImportTop
<1>2. /\ FrameInv' /\ Len(frames') = n - 1 /\ Top' = frames[n - 1]
      /\ \A i \in 1 .. n - 1 : frames'[i] = frames[i]
  BY <1>1, FramePopped DEF VmInv
<1>3. frames[n - 1].kind = "zig"
  BY <1>1 DEF VmInv, FrameInv, Stack, Top
<1>4. Outcome'
  BY <1>2, <1>3 DEF Outcome, TopOutcome
<1>5. ~Pending' /\ ~Registering'
  <2>1. 1 \in 1 .. n - 1 /\ (n - 1 > 1 => 2 \in 1 .. n - 1)
    BY <1>1
  <2>2. frames'[1] = frames[1] /\ (Len(frames') > 1 => frames'[2] = frames[2] /\ Len(frames) > 1)
    BY <1>1, <1>2, <2>1
  <2> QED BY <1>1, <2>2 DEF Pending, Registering
<1>6. HeapTypes'
  BY DEF VmInv, HeapTypes
<1>7. UNCHANGED <<handles, references, registered>>
  BY DEF registryVars
<1> QED BY <1>1, <1>2, <1>4, <1>5, <1>6, <1>7, RegistryStays DEF VmInv

\* It failed, by itself or for an exception.
LEMMA FailsStep ==
  ASSUME VmInv, InImport, NEW own, NEW refused \in BOOLEAN, Fails(own, refused),
         own # Nil \/ refused, UNCHANGED registryVars
  PROVE  VmInv'
<1>1. /\ arena' = ArenaRestored(Top.entry) /\ exc' = Nil /\ frames' = Front(frames)
      /\ last' = [ok |-> FALSE, own |-> own, refused |-> refused, due |-> Nil]
      /\ UNCHANGED <<registered, stored, view, escaped>>
  BY DEF Fails, Reported
<1>2. arena' \in Seq(Identities) /\ Top.entry <= Len(arena')
  <2>1. Top.entry \in Nat /\ Top.entry <= Len(arena)
    BY ImportTop
  <2> QED BY <1>1, <2>1, RestoredFacts DEF VmInv, HeapTypes
<1>3. exc' \in Values /\ exc' = last'.due /\ (last'.ok <=> (last'.own = Nil /\ ~last'.refused))
  BY <1>1 DEF Values
<1> QED BY <1>1, <1>2, <1>3, ImportPops

LEMMA PostludeRefusedStep ==
  ASSUME VmInv, InImport, NEW result, PostludeRefused(result), UNCHANGED registryVars
  PROVE  VmInv'
<1>1. Fails(NoMem, FALSE)
  BY DEF PostludeRefused, PostludeCaught
<1>2. NoMem # Nil
  BY HeapAssumption
<1> QED BY <1>1, <1>2, FailsStep

LEMMA ReturnImportStep ==
  ASSUME VmInv, Return, UNCHANGED registryVars
  PROVE  VmInv'
<1> DEFINE value == Top.vals[1]
<1>1. InImport /\ Completes(value)
  BY DEF Return, Phase
<1> HIDE DEF value
<1>2. /\ Top.entry \in Nat /\ Top.entry <= Len(arena) /\ exc = Top.stale
      /\ Top.stale \in Values
  BY <1>1, ImportTop DEF ImportFrames
<1>3. CASE PostludeRefused(value)
  BY <1>1, <1>3, PostludeRefusedStep
<1>4. CASE Top.stale # Nil /\ Fails(Top.stale, FALSE)
  BY <1>1, <1>2, <1>4, FailsStep
<1>5. CASE /\ Top.stale = Nil
           /\ IF value \in Objects THEN Protect(ArenaRestored(Top.entry), value)
              ELSE arena' = ArenaRestored(Top.entry) /\ UNCHANGED capacity
           /\ frames' = Front(frames)
           /\ Reported(TRUE, Nil, FALSE, Nil)
           /\ UNCHANGED <<exc, registered, stored, view, escaped>>
  <2> DEFINE cut == ArenaRestored(Top.entry)
  <2>1. cut \in Seq(Identities) /\ Len(cut) = Top.entry
    BY <1>2, RestoredFacts DEF VmInv, HeapTypes
  <2> HIDE DEF cut
  <2>2. arena' = cut \/ (arena' = Append(cut, value) /\ value \in Identities)
    BY <1>5 DEF Protect, cut, Identities
  <2>3. arena' \in Seq(Identities) /\ Top.entry <= Len(arena')
    BY <1>2, <2>1, <2>2
  <2>4. last' = [ok |-> TRUE, own |-> Nil, refused |-> FALSE, due |-> Nil]
    BY <1>5 DEF Reported
  <2>5. exc' \in Values /\ exc' = last'.due /\ (last'.ok <=> (last'.own = Nil /\ ~last'.refused))
    BY <1>2, <1>5, <2>4
  <2> QED BY <1>1, <1>5, <2>3, <2>5, ImportPops
<1> QED BY <1>1, <1>3, <1>4, <1>5 DEF Completes

LEMMA ImportRaisesStep ==
  ASSUME VmInv, ImportRaises, UNCHANGED registryVars
  PROVE  VmInv'
<1>1. PICK e \in Objects \cup {NoMem} : Fails(e, FALSE) \/ PostludeRefused(e)
  BY DEF ImportRaises, Fresh
<1>2. InImport /\ e # Nil
  BY HeapAssumption DEF ImportRaises
<1> QED BY <1>1, <1>2, FailsStep, PostludeRefusedStep

LEMMA ScalarRootStep ==
  ASSUME VmInv, ScalarRoot, UNCHANGED registryVars
  PROVE  VmInv'
<1> DEFINE p == "root"
           g == [Top EXCEPT !.phase = p]
<1>1. InImport /\ UNCHANGED <<heapVars, last, escaped>>
  BY Zenon DEF ScalarRoot, Phase
<1>2. SetTop(g)
  BY Zenon DEF ScalarRoot, Continue, SetTop
<1>3. /\ Top \in ImportFrames({Top.vals}) /\ Top.entry <= Len(arena)
  BY <1>1, ImportTop
<1>4. /\ g \in ImportFrames({Top.vals}) /\ g.vals = Top.vals /\ g.phase = p
      /\ g.entry = Top.entry /\ g.stale = Top.stale
  <2>1. p \in Phases
    BY DEF Phases
  <2> HIDE DEF p
  <2> QED BY <1>3, <2>1, Zenon DEF ImportFrames
<1> HIDE DEF g
<1>5. g \in ImportFrames({g.vals}) /\ g.phase \notin {"shell", "edges"}
  BY <1>4
<1>6. HeapTypes' /\ Top.entry <= Len(arena') /\ UNCHANGED <<exc, registered>>
  BY <1>1, <1>3 DEF VmInv, HeapTypes, heapVars
<1> QED BY <1>1, <1>2, <1>4, <1>5, <1>6, ImportMoves

\* What an allocation of the import leaves.
LEMMA ImportAllocates ==
  ASSUME VmInv, InImport, NEW o, NEW contents, Allocate(o, contents),
         UNCHANGED <<exc, stored, view>>
  PROVE  HeapTypes' /\ Top.entry <= Len(arena') /\ o \in Objects
<1>1. Top.entry \in Nat /\ Top.entry <= Len(arena)
  BY ImportTop
<1>2. HeapTypes' /\ Len(arena') = Len(arena) + 1 /\ Len(arena) \in Nat /\ o \in Objects
  BY AllocateFacts DEF VmInv
<1> QED BY <1>1, <1>2

LEMMA NewTableStep ==
  ASSUME VmInv, NewTable, UNCHANGED registryVars
  PROVE  VmInv'
<1>1. PICK o \in Objects :
        /\ \E c : Allocate(o, c)
        /\ SetTop([Top EXCEPT !.phase = "shell", !.table = o])
  BY Zenon DEF NewTable, Continue, SetTop
<1>2. InImport /\ UNCHANGED <<exc, registered, stored, view, last, escaped>>
  BY Zenon DEF NewTable, Phase
<1> DEFINE p == "shell"
           g == [Top EXCEPT !.phase = p, !.table = o]
<1>3. Top \in ImportFrames({Top.vals})
  BY <1>2, ImportTop
<1>4. SetTop(g)
  BY <1>1, Zenon
<1>5. /\ g \in ImportFrames({Top.vals}) /\ g.vals = Top.vals /\ g.table = o
      /\ g.entry = Top.entry /\ g.stale = Top.stale
  <2>1. p \in Phases /\ o \in Objects \cup {Nil}
    BY DEF Phases
  <2> HIDE DEF p
  <2> QED BY <1>3, <2>1, Zenon DEF ImportFrames
<1> HIDE DEF g
<1>6. g \in ImportFrames({g.vals}) /\ g.table \in Objects
  BY <1>5
<1>7. PICK c : Allocate(o, c)
  BY <1>1, Zenon
<1>8. HeapTypes' /\ Top.entry <= Len(arena')
  BY <1>2, <1>7, ImportAllocates
<1> QED BY <1>2, <1>4, <1>5, <1>6, <1>8, ImportMoves

\* Only the values at hand change.
LEMMA ValuesStep ==
  ASSUME VmInv, InImport, NEW l, SetTop([Top EXCEPT !.vals = l]),
         HeapTypes', Top.entry <= Len(arena'),
         UNCHANGED <<exc, registered, last, escaped, registryVars>>
  PROVE  VmInv'
<1> DEFINE g == [Top EXCEPT !.vals = l]
<1>1. Top \in ImportFrames({Top.vals}) /\ Top.kind = "import" /\ Placed(Top, Len(frames))
  BY Zenon, ImportTop
<1>2. SetTop(g)
  BY Zenon
<1>3. /\ g \in ImportFrames({l}) /\ g.vals = l /\ g.table = Top.table
      /\ g.entry = Top.entry /\ g.stale = Top.stale /\ g.phase = Top.phase
  BY <1>1, Zenon DEF ImportFrames
<1> HIDE DEF g
<1>4. g \in ImportFrames({g.vals}) /\ (g.phase \in {"shell", "edges"} => g.table \in Objects)
  BY <1>1, <1>3, Zenon DEF Placed
<1> QED BY <1>2, <1>3, <1>4, ImportMoves, Zenon

LEMMA NewShellStep ==
  ASSUME VmInv, NewShell, UNCHANGED registryVars
  PROVE  VmInv'
<1>1. PICK o \in Objects :
        (\E c : Allocate(o, c)) /\ SetTop([Top EXCEPT !.vals = <<o>>])
  BY Zenon DEF NewShell, Continue, SetTop
<1>2. InImport /\ UNCHANGED <<exc, registered, stored, view, last, escaped>>
  BY Zenon DEF NewShell, Phase
<1>3. PICK c : Allocate(o, c)
  BY <1>1, Zenon
<1>4. HeapTypes' /\ Top.entry <= Len(arena')
  BY <1>2, <1>3, ImportAllocates
<1> QED BY <1>1, <1>2, <1>4, ValuesStep, Zenon

\* A reference was decoded.
LEMMA DecodedFacts ==
  ASSUME VmInv, InImport, NEW ref, NEW v, Decoded(ref, v)
  PROVE  HeapTypes' /\ Top.entry <= Len(arena') /\ UNCHANGED <<exc, registered>>
<1>1. CASE UNCHANGED heapVars
  <2>1. Top.entry <= Len(arena)
    BY ImportTop
  <2> QED BY <1>1, <2>1 DEF VmInv, HeapTypes, heapVars
<1>2. ASSUME NEW c, Allocate(v, c), UNCHANGED <<exc, registered, stored, view>>
      PROVE  HeapTypes' /\ Top.entry <= Len(arena') /\ UNCHANGED <<exc, registered>>
  BY <1>2, ImportAllocates
<1> QED BY <1>1, <1>2, Zenon DEF Decoded

LEMMA DecodeStep ==
  ASSUME VmInv, DecodeEdge \/ DecodeRoot, UNCHANGED registryVars
  PROVE  VmInv'
<1>1. PICK ref, v, l : Decoded(ref, v) /\ SetTop([Top EXCEPT !.vals = l])
  BY Zenon DEF DecodeEdge, DecodeRoot, Continue, SetTop
<1>2. InImport /\ UNCHANGED <<last, escaped>>
  BY Zenon DEF DecodeEdge, DecodeRoot, Phase
<1>3. Decoded(ref, v)
  BY <1>1, Zenon
<1>4. HeapTypes' /\ Top.entry <= Len(arena') /\ UNCHANGED <<exc, registered>>
  BY <1>2, <1>3, DecodedFacts
<1> QED BY <1>1, <1>2, <1>4, ValuesStep, Zenon

\* The arena is cut back to the table.
LEMMA TrimmedFacts ==
  ASSUME VmInv, InImport, Top.phase \in {"shell", "edges"}, arena' = Trimmed,
         UNCHANGED <<exc, stored, view>>
  PROVE  HeapTypes' /\ Top.entry <= Len(arena') /\ Top.table \in Objects
<1>1. Top.entry \in Nat /\ Top.entry <= Len(arena) /\ Top.table \in Objects
  BY ImportTop DEF Placed
<1> DEFINE cut == ArenaRestored(Top.entry)
<1>2. cut \in Seq(Identities) /\ Len(cut) = Top.entry
  BY <1>1, RestoredFacts DEF VmInv, HeapTypes
<1>3. arena' = Append(cut, Top.table)
  BY DEF Trimmed
<1> HIDE DEF cut
<1>4. arena' \in Seq(Identities) /\ Top.entry <= Len(arena')
  BY <1>1, <1>2, <1>3 DEF Identities
<1> QED BY <1>1, <1>4 DEF VmInv, HeapTypes

LEMMA KeepShellStep ==
  ASSUME VmInv, KeepShell, UNCHANGED registryVars
  PROVE  VmInv'
<1> DEFINE all == Top.node = Len(Top.graph.nodes)
           m == IF all THEN 1 ELSE Top.node + 1
           p == IF all THEN "edges" ELSE Top.phase
           l == <<>>
           g == [Top EXCEPT !.vals = l, !.node = m, !.phase = p]
<1>1. /\ InImport /\ Top.phase = "shell" /\ arena' = Trimmed
      /\ UNCHANGED <<exc, registered, stored, view, last, escaped>>
  BY Zenon DEF KeepShell, Phase
<1>2. SetTop(g)
  BY Zenon DEF KeepShell, Continue, SetTop
<1>3. Top \in ImportFrames({Top.vals})
  BY <1>1, ImportTop
<1>4. m \in Nat /\ p \in Phases
  BY <1>1, <1>3 DEF ImportFrames, Phases
<1>5. /\ g \in ImportFrames({l}) /\ g.vals = l /\ g.table = Top.table
      /\ g.entry = Top.entry /\ g.stale = Top.stale
  <2> HIDE DEF m, p, l
  <2> QED BY <1>3, <1>4, Zenon DEF ImportFrames
<1> HIDE DEF g
<1>6. HeapTypes' /\ Top.entry <= Len(arena') /\ Top.table \in Objects
  BY <1>1, TrimmedFacts
<1>7. g \in ImportFrames({g.vals}) /\ g.table \in Objects
  BY <1>5, <1>6
<1> QED BY <1>1, <1>2, <1>5, <1>6, <1>7, ImportMoves

LEMMA LinkEdgeStep ==
  ASSUME VmInv, LinkEdge, UNCHANGED registryVars
  PROVE  VmInv'
<1>1. InImport /\ Top.phase = "edges"
  BY Zenon DEF LinkEdge, Phase
<1>2. CASE Invalid
  <2>1. Fails(Nil, TRUE) \/ (Top.stale # Nil /\ Fails(Top.stale, FALSE))
    BY <1>2 DEF Invalid
  <2> QED BY <1>1, <2>1, FailsStep
<1> DEFINE e == Top.edge + Group
           l == <<>>
           g == [Top EXCEPT !.vals = l, !.edge = e]
<1>3. ASSUME arena' = Trimmed, SetTop(g),
             UNCHANGED <<exc, registered, stored, view, last, escaped>>
      PROVE  VmInv'
  <2>1. Top \in ImportFrames({Top.vals}) /\ SetTop(g)
    BY <1>1, <1>3, ImportTop, Zenon
  <2>2. e \in Nat
    BY <2>1 DEF Group, ImportFrames
  <2>3. /\ g \in ImportFrames({l}) /\ g.vals = l /\ g.table = Top.table
        /\ g.entry = Top.entry /\ g.stale = Top.stale
    <3> HIDE DEF e, l
    <3> QED BY <2>1, <2>2, Zenon DEF ImportFrames
  <2> HIDE DEF g
  <2>4. HeapTypes' /\ Top.entry <= Len(arena') /\ Top.table \in Objects
    BY <1>1, <1>3, TrimmedFacts
  <2>5. g \in ImportFrames({g.vals}) /\ g.table \in Objects
    BY <2>3, <2>4
  <2> QED BY <1>1, <1>3, <2>1, <2>3, <2>4, <2>5, ImportMoves
<1>4. Invalid \/ (/\ arena' = Trimmed /\ SetTop(g)
                  /\ UNCHANGED <<exc, registered, stored, view, last, escaped>>)
  BY Zenon DEF LinkEdge, Continue, SetTop
<1> QED BY <1>2, <1>3, <1>4, Zenon

LEMMA NextNodeStep ==
  ASSUME VmInv, NextNode, UNCHANGED registryVars
  PROVE  VmInv'
<1> DEFINE all == Top.node = Len(Top.graph.nodes)
           m == IF all THEN 1 ELSE Top.node + 1
           p == IF all THEN "root" ELSE Top.phase
           e == 1
           g == [Top EXCEPT !.edge = e, !.node = m, !.phase = p]
<1>1. /\ InImport /\ Top.phase = "edges"
      /\ UNCHANGED <<arena, exc, registered, stored, view, last, escaped>>
  BY Zenon DEF NextNode, Phase
<1>2. SetTop(g)
  BY Zenon DEF NextNode, Continue, SetTop
<1>3. Top \in ImportFrames({Top.vals}) /\ Top.table \in Objects /\ Top.entry <= Len(arena)
  BY <1>1, ImportTop DEF Placed
<1>4. m \in Nat /\ p \in Phases /\ e \in Nat
  BY <1>1, <1>3 DEF ImportFrames, Phases
<1>5. /\ g \in ImportFrames({Top.vals}) /\ g.vals = Top.vals /\ g.table = Top.table
      /\ g.entry = Top.entry /\ g.stale = Top.stale
  <2> HIDE DEF m, p, e
  <2> QED BY <1>3, <1>4, Zenon DEF ImportFrames
<1> HIDE DEF g
<1>6. HeapTypes' /\ Top.entry <= Len(arena')
  BY <1>1, <1>3 DEF VmInv, HeapTypes
<1>7. g \in ImportFrames({g.vals}) /\ g.table \in Objects
  BY <1>3, <1>5
<1> QED BY <1>1, <1>2, <1>5, <1>6, <1>7, ImportMoves

LEMMA ImportNextStep ==
  ASSUME VmInv, ImportNext, UNCHANGED registryVars
  PROVE  VmInv'
  BY ScalarRootStep, NewTableStep, NewShellStep, KeepShellStep, DecodeStep, LinkEdgeStep,
     NextNodeStep, ReturnImportStep, ImportRaisesStep, CollectStep, Zenon DEF ImportNext

---------------------------------------------------------------------------
(* The invariant and the theorems *)

LEMMA InitVmInv ==
  ASSUME SafeInit
  PROVE  VmInv
<1>1. /\ arena = <<>> /\ exc = Nil /\ stored = Nil /\ view = Nil /\ registered = {}
      /\ frames = <<ZigFrame>> /\ last = NoOutcome /\ escaped = FALSE
      /\ handles = [h \in Handles |-> Released] /\ references = [o \in Identities |-> 0]
  BY DEF SafeInit, InitHeap
<1>2. HeapTypes
  BY <1>1 DEF HeapTypes, Values
<1> DEFINE z == ZigFrame
<1>3. /\ z \in ZigFrames /\ z.kind = "zig" /\ z.base = 0 /\ z.scopes = <<>> /\ z.after[1] = "read"
  BY <1>1 DEF ZigFrame, ZigFrames, After
<1> HIDE DEF z
<1>4. frames = <<z>>
  BY <1>1 DEF z
<1>5. /\ frames \in Seq({z}) /\ Len(frames) = 1 /\ frames[1] = z /\ Top = z
  BY <1>4 DEF Top
<1>6. FrameInv
  <2>1. frames \in Seq(ToSet(frames))
    BY <1>5, OwnElements
  <2>2. FrameTypes
    BY <1>3, <1>5, <2>1 DEF FrameTypes, IsFrame
  <2>3. Placed(z, 1) /\ Low(z) = 0 /\ ScopeFits(z, 0) /\ Len(arena) = 0
    BY <1>1, <1>3 DEF Placed, Low, ScopeFits
  <2>4. Stack
    BY <1>3, <1>5, <2>3 DEF Stack
  <2> QED BY <2>2, <2>4 DEF FrameInv
<1>7. Outcome
  BY <1>1, <1>3, <1>5 DEF Outcome, TopOutcome, NoOutcome
<1>8. Registry /\ RegistryTypes
  <2>1. ~Pending /\ ~Registering
    BY <1>3, <1>5 DEF Pending, Registering
  <2>2. \A o \in Identities : Cardinality({h \in Handles : handles[h] = o}) = 0
    <3> SUFFICES ASSUME NEW o \in Identities
                 PROVE  Cardinality({h \in Handles : handles[h] = o}) = 0
      OBVIOUS
    <3>1. o # Released
      BY SafeVmAssumption DEF Released, Identities, Values
    <3>2. {h \in Handles : handles[h] = o} = {}
      BY <1>1, <3>1
    <3> QED BY <3>2, FS_EmptySet
  <2> QED BY <1>1, <2>1, <2>2 DEF Registry, RegistryTypes
<1> QED BY <1>1, <1>2, <1>6, <1>7, <1>8 DEF VmInv

LEMMA NextVmInv ==
  ASSUME VmInv, [SafeNext]_vmVars
  PROVE  VmInv'
<1>1. CASE Host
  BY <1>1, CallOperationStep, ReadDetailsStep, FailCallbackStep, ImportGraphStep, UnrootStep,
     RootStep, RootReturnsStep, OpenScopeStep, CloseScopeStep, ErrorStep, Zenon DEF Host
<1>2. CASE (OpNext \/ ImportNext) /\ UNCHANGED registryVars
  BY <1>2, OpNextStep, ImportNextStep, Zenon
<1>3. CASE UNCHANGED vmVars
  <2>1. UNCHANGED <<arena, exc, stored, view, registered, frames, last, escaped,
                    handles, references>>
    BY <1>3 DEF vmVars, heapVars, callVars
  <2>2. HeapTypes' /\ RegistryTypes' /\ escaped' \in BOOLEAN
    BY <2>1 DEF VmInv, HeapTypes, RegistryTypes
  <2>3. FrameInv' /\ Outcome'
    BY <2>1 DEF VmInv, FrameInv, FrameTypes, Stack, Outcome, TopOutcome, Top, ToSet
  <2>4. Registry'
    BY <2>1 DEF VmInv, Registry, Pending, Target, Done, Registering
  <2> QED BY <2>2, <2>3, <2>4 DEF VmInv
<1> QED BY <1>1, <1>2, <1>3 DEF SafeNext

\* The invariant holds.
THEOREM VmInvHolds == SafeSpec => []VmInv
  BY InitVmInv, NextVmInv, PTL DEF SafeSpec

\* The registry and the collector's roots agree: an entry counts the handles,
\* and an object is registered exactly while there is one, or its first is made
\* (src/arena.zig, RootRegistry).
THEOREM RootsExactHolds == SafeSpec => []RootsExact
<1>1. VmInv => RootsExact
  <2> SUFFICES ASSUME VmInv, NEW o \in Identities
               PROVE  /\ references[o] = Cardinality({h \in Handles : handles[h] = o})
                      /\ o \in registered =>
                           \/ references[o] > 0
                           \/ \E i \in DOMAIN frames :
                                frames[i].kind = "op" /\ frames[i].op = RegisterRoot
                                  /\ frames[i].arg = o
                           \/ Top.kind = "zig" /\ Top.after[1] = "root" /\ Top.after[3] = o
                      /\ references[o] > 0 => o \in registered
    BY DEF RootsExact
  <2>1. /\ references[o] = Cardinality({h \in Handles : handles[h] = o})
        /\ o \in registered <=> references[o] > 0 \/ (Pending /\ Done /\ o = Target)
    BY DEF VmInv, Registry
  <2>2. ASSUME Pending, o = Target
        PROVE  \/ \E i \in DOMAIN frames :
                    frames[i].kind = "op" /\ frames[i].op = RegisterRoot /\ frames[i].arg = o
               \/ Top.kind = "zig" /\ Top.after[1] = "root" /\ Top.after[3] = o
    <3>1. CASE Len(frames) = 1
      BY <2>2, <3>1 DEF VmInv, FrameInv, Stack, Pending, Target, Top
    <3>2. CASE Len(frames) # 1
      <4> DEFINE n == Len(frames)
      <4>1. n \in Nat /\ n > 0 /\ n # 1
        BY <3>2, TopType DEF VmInv
      <4>2. n > 1
        <5> HIDE DEF n
        <5> QED BY <4>1
      <4>3. n = 2 /\ Registering /\ frames[2].arg = Target
        BY <2>2, <4>2 DEF VmInv, Registry
      <4>4. 2 \in DOMAIN frames
        BY <4>3 DEF VmInv, FrameInv, FrameTypes
      <4> QED BY <2>2, <4>3, <4>4 DEF Registering
    <3> QED BY <3>1, <3>2
  <2> QED BY <2>1, <2>2
<1> QED BY <1>1, VmInvHolds, PTL

\* A wrapper reports failure exactly if its operation failed, and what is
\* pending in the Zig code that called it is that operation's own exception
\* (src/shim.c, mrz_protect_result).
THEOREM OwnOutcomeHolds == SafeSpec => []OwnOutcome
<1>1. VmInv => OwnOutcome
  <2> SUFFICES ASSUME VmInv
               PROVE  OwnOutcome
    OBVIOUS
  <2>1. last.ok <=> (last.own = Nil /\ ~last.refused)
    BY DEF VmInv, Outcome
  <2>2. InZig => exc = last.due
    BY ZigTop
  <2> QED BY <2>1, <2>2 DEF OwnOutcome
<1> QED BY <1>1, VmInvHolds, PTL

\* The refused arena slot of an operation's result is the only way by which a
\* raise leaves the shim's C frames: with an allocator that never refuses it,
\* none does (src/shim.c, the end of mrb_protect_error).
THEOREM FramesIntactHolds ==
  ASSUME ~PostludeMayFail
  PROVE  SafeSpec => []FramesIntact
<1>1. SafeInit => FramesIntact
  BY DEF SafeInit, FramesIntact
<1>2. ASSUME [SafeNext]_vmVars
      PROVE  escaped' = escaped
  <2>1. CASE Host
    BY <2>1, Zenon DEF Host, CallOperation, ReadDetails, FailCallback, ImportGraph, Unroot, Root,
       RootReturns, OpenScope, CloseScope, ClearError, CaptureErrorView, ClearErrorView, Call,
       Import, callVars, heapVars
  <2>2. ASSUME NEW result, NEW raised, Ends(result, raised)
        PROVE  escaped' = escaped
    BY <2>2, Zenon DEF Ends, Returned, PostludeEscapes
  <2>3. CASE OpNext
    BY <2>2, <2>3, Zenon DEF OpNext, EndBody, OutOfMemory, Check, Memory, Object, Read, Link,
       Register, Absent, GuestStores, GuestReturns, GuestRaises, LoadFails, CallHost,
       ReturnToGuest, GuestHandles, Collect, RaisesNew, Raises, callVars
  <2>4. ASSUME NEW own, NEW refused, Fails(own, refused)
        PROVE  escaped' = escaped
    BY <2>4 DEF Fails
  <2>5. CASE ImportNext
    BY <2>4, <2>5, Zenon DEF ImportNext, ScalarRoot, NewTable, NewShell, KeepShell, DecodeEdge,
       LinkEdge, NextNode, DecodeRoot, Return, ImportRaises, CollectInImport, Completes,
       Invalid, PostludeRefused, PostludeCaught, callVars
  <2>6. CASE UNCHANGED vmVars
    BY <2>6 DEF vmVars, callVars
  <2> QED BY <1>2, <2>1, <2>3, <2>5, <2>6, Zenon DEF SafeNext
<1>3. FramesIntact /\ [SafeNext]_vmVars => FramesIntact'
  BY <1>2 DEF FramesIntact
<1> QED BY <1>1, <1>3, PTL DEF SafeSpec

---------------------------------------------------------------------------
(* The arena at a return *)

\* What an import has at hand belongs to the edge, or the root, it resolves.
ImportInv ==
  Top.kind = "import" =>
    LET nodes == Top.graph.nodes IN
    /\ Top.phase = "table" => Top.vals = <<>> /\ Top.node = 1
    /\ Top.phase \in {"shell", "edges"} => Top.node \in 1 .. Len(nodes)
    /\ Top.phase = "edges" /\ Top.vals # <<>> => Top.edge <= Len(nodes[Top.node].edges)
    /\ Top.phase = "root" /\ Top.vals # <<>> => Top.vals[1] \in Objects \cup {Top.graph.root}

\* An operation that returns was at the end of its body, or raised.
LEMMA OpPops ==
  ASSUME VmInv, OpNext, Len(frames') < Len(frames), Top.kind # "zig"
  PROVE  /\ InOp
         /\ \E result, raised :
              /\ Returned(Top, result, raised)
              /\ raised \/ result = Result(Top)
              /\ raised \in BOOLEAN /\ result \in Values
<1>1. ASSUME NEW g, SetTop(g)
      PROVE  FALSE
  <2>1. Len(frames') = Len(frames) /\ Len(frames) \in Nat
    BY <1>1 DEF SetTop, VmInv, FrameInv, FrameTypes
  <2> QED BY <2>1
<1>2. ASSUME UNCHANGED frames
      PROVE  FALSE
  <2>1. Len(frames') = Len(frames) /\ Len(frames) \in Nat
    BY <1>2 DEF VmInv, FrameInv, FrameTypes
  <2> QED BY <2>1
<1>3. ~CallHost
  <2> SUFFICES ASSUME CallHost
               PROVE  FALSE
    OBVIOUS
  <2> DEFINE f == ZigFrame
             n == Len(frames)
  <2>1. frames' = Append(frames, f)
    BY DEF CallHost
  <2> HIDE DEF f
  <2>2. Len(frames') = n + 1 /\ n \in Nat
    BY <2>1 DEF VmInv, FrameInv, FrameTypes
  <2> QED BY <2>2
<1>4. ASSUME NEW result \in Values, NEW raised \in BOOLEAN, Ends(result, raised),
             raised \/ result = Result(Top)
      PROVE  \E r, s : /\ Returned(Top, r, s)
                       /\ s \/ r = Result(Top)
                       /\ s \in BOOLEAN /\ r \in Values
  BY <1>2, <1>4, Zenon DEF Ends, PostludeEscapes
<1>8. NoMem \in Values /\ exc \in Values /\ \A o : o \in Fresh => o \in Values
  BY DEF Values, VmInv, HeapTypes, Fresh
<1>5. EndBody \/ \E e \in Values : InOp /\ Raises(e)
  BY <1>1, <1>2, <1>3, <1>8, Zenon DEF OpNext, OutOfMemory, Check, Memory, Object, Read, Link,
     Register, Absent, GuestStores, GuestReturns, GuestRaises, LoadFails, ReturnToGuest,
     GuestHandles, Collect, RaisesNew, callVars, Advanced, InZig, InGuest, At
<1>6. CASE EndBody
  <2>1. Ends(Result(Top), FALSE) /\ InOp
    BY <1>6 DEF EndBody, BodyDone
  <2>2. Result(Top) \in Values
    <3>1. Top.val \in Values /\ Top.arg \in Values
      BY <2>1, OpTop DEF OpFrames
    <3> QED BY <3>1 DEF Result, Values
  <2> QED BY <1>4, <2>1, <2>2, Zenon
<1>7. CASE \E e \in Values : InOp /\ Raises(e)
  <2>1. PICK e \in Values : InOp /\ Ends(e, TRUE)
    BY <1>7, Zenon DEF Raises
  <2> QED BY <1>4, <2>1, Zenon
<1> QED BY <1>5, <1>6, <1>7

\* An import that returns failed, or has the value of the root.
LEMMA ImportPopped ==
  ASSUME VmInv, ImportInv, ImportNext, Len(frames') < Len(frames)
  PROVE  /\ InImport
         /\ \/ \E own, refused : Fails(own, refused)
            \/ /\ Top.vals[1] # NoMem /\ Reported(TRUE, Nil, FALSE, Nil)
               /\ IF Top.vals[1] \in Objects
                    THEN Protect(ArenaRestored(Top.entry), Top.vals[1])
                    ELSE arena' = ArenaRestored(Top.entry) /\ UNCHANGED capacity
<1>1. ASSUME NEW g, SetTop(g)
      PROVE  FALSE
  <2>1. Len(frames') = Len(frames) /\ Len(frames) \in Nat
    BY <1>1 DEF SetTop, VmInv, FrameInv, FrameTypes
  <2> QED BY <2>1
<1>2. ASSUME UNCHANGED frames
      PROVE  FALSE
  <2>1. Len(frames') = Len(frames) /\ Len(frames) \in Nat
    BY <1>2 DEF VmInv, FrameInv, FrameTypes
  <2> QED BY <2>1
<1>3. InImport /\ ((\E own, refused : Fails(own, refused)) \/ Return)
  BY <1>1, <1>2, Zenon DEF ImportNext, ScalarRoot, NewTable, NewShell, KeepShell, DecodeEdge,
     LinkEdge, NextNode, DecodeRoot, Return, ImportRaises, CollectInImport, Invalid,
     PostludeRefused, PostludeCaught, Continue, SetTop, Phase, callVars
<1>4. CASE Return
  <2>1. Top.vals[1] # NoMem
    <3>1. Top \in ImportFrames({Top.vals}) /\ Top.vals[1] \in Objects \cup {Top.graph.root}
      BY <1>3, <1>4, ImportTop, Zenon DEF Return, Phase, ImportInv, InImport
    <3>2. Top.graph \in Graphs
      BY <3>1 DEF ImportFrames
    <3>3. Top.graph.root \notin Values
      BY <3>2, GraphAssumption DEF References
    <3> QED BY <3>1, <3>3, HeapAssumption DEF Values
  <2> QED BY <1>3, <1>4, <2>1, Zenon DEF Return, Completes, PostludeRefused, PostludeCaught
<1> QED BY <1>3, <1>4

\* The frame on top after a step.
LEMMA TopAfter ==
  ASSUME VmInv
  PROVE  /\ \A g : SetTop(g) => Top' = g
         /\ \A g : frames' = Append(frames, g) => Top' = g
         /\ \A g, h : frames' = Append([frames EXCEPT ![Len(frames)] = h], g) => Top' = g
         /\ Len(frames) > 1 /\ frames' = Front(frames) => Top'.kind # "import"
         /\ UNCHANGED frames => Top' = Top
<1> DEFINE n == Len(frames)
<1>1. frames \in Seq(ToSet(frames)) /\ n \in Nat /\ n > 0
  BY DEF VmInv, FrameInv, FrameTypes
<1>2. ASSUME NEW g, SetTop(g)
      PROVE  Top' = g
  <2>1. Len(frames') = n /\ frames'[n] = g
    BY <1>1, <1>2 DEF SetTop
  <2> QED BY <2>1 DEF Top
<1>3. ASSUME NEW g, frames' = Append(frames, g)
      PROVE  Top' = g
  <2>1. frames \in Seq(ToSet(frames) \cup {g})
    BY <1>1
  <2>2. Len(frames') = n + 1 /\ frames'[n + 1] = g
    BY <1>1, <1>3, <2>1
  <2> QED BY <2>2 DEF Top
<1>4. ASSUME NEW g, NEW h, frames' = Append([frames EXCEPT ![Len(frames)] = h], g)
      PROVE  Top' = g
  <2> DEFINE S == ToSet(frames) \cup {g, h}
             r == frames'
  <2>1. frames \in Seq(S) /\ Len(frames) > 0 /\ g \in S /\ h \in S
    BY <1>1
  <2>2. r = Append([frames EXCEPT ![Len(frames)] = h], g)
    BY <1>4
  <2> HIDE DEF S, r
  <2>3. Len(r) = n + 1 /\ r[n + 1] = g
    BY <2>1, <2>2, PushFacts
  <2> QED BY <2>3 DEF Top, r
<1>5. ASSUME n > 1, frames' = Front(frames)
      PROVE  Top'.kind # "import"
  <2>1. Len(frames') = n - 1 /\ frames'[n - 1] = frames[n - 1]
    BY <1>1, <1>5 DEF Front
  <2>2. Waits(frames[n - 1])
    BY <1>1, <1>5 DEF VmInv, FrameInv, Stack
  <2> QED BY <2>1, <2>2 DEF Top, Waits
<1>6. UNCHANGED frames => Top' = Top
  BY DEF Top
<1> QED BY <1>2, <1>3, <1>4, <1>5, <1>6, Zenon

LEMMA OpKeepsImportInv ==
  ASSUME VmInv, ImportInv, OpNext
  PROVE  ImportInv'
<1>1. ASSUME NEW g, SetTop(g), g.kind = "op"
      PROVE  ImportInv'
  BY <1>1, TopAfter DEF ImportInv
<1>2. ASSUME UNCHANGED frames
      PROVE  ImportInv'
  <2>1. Top' = Top
    BY <1>2, TopAfter
  <2> DEFINE f == Top'
  <2>2. f = Top
    BY <2>1
  <2> QED BY <2>1, Zenon DEF ImportInv
<1>3. ASSUME frames' = Front(frames), Len(frames) > 1
      PROVE  ImportInv'
  BY <1>3, TopAfter DEF ImportInv
<1>4. ASSUME frames' = Append(frames, ZigFrame)
      PROVE  ImportInv'
  <2> DEFINE f == ZigFrame
  <2>1. f.kind = "zig" /\ frames' = Append(frames, f)
    BY <1>4 DEF ZigFrame
  <2> HIDE DEF f
  <2>2. Top' = f
    BY <2>1, TopAfter
  <2> QED BY <2>1, <2>2 DEF ImportInv
<1>5. ASSUME InOp, NEW v, Advanced(v)
      PROVE  ImportInv'
  <2> DEFINE p == Top.pc + 1
             g == [Top EXCEPT !.pc = p, !.val = v]
  <2>1. Top \in OpFrames
    BY <1>5, OpTop
  <2>2. SetTop(g)
    BY <1>5, Zenon DEF Advanced
  <2>3. g.kind = "op"
    <3> HIDE DEF p
    <3> QED BY <2>1, Zenon DEF OpFrames
  <2> HIDE DEF g
  <2> QED BY <1>1, <2>2, <2>3
<1>6. ASSUME InOp, NEW result, NEW raised, Ends(result, raised)
      PROVE  ImportInv'
  <2>1. Len(frames) > 1
    BY <1>6, OpTop
  <2> QED BY <1>2, <1>3, <1>6, <2>1, Zenon DEF Ends, Returned, PostludeEscapes
<1>7. ASSUME Absent
      PROVE  ImportInv'
  <2> DEFINE p == Len(Top.op.body) + 1
             r == Top.op.strict
             g == [Top EXCEPT !.pc = p, !.val = Nil, !.refused = r]
  <2>1. InOp /\ (Advanced(Top.val) \/ SetTop(g))
    BY <1>7, Zenon DEF Absent, At
  <2>2. Top \in OpFrames
    BY <2>1, OpTop
  <2>3. g.kind = "op"
    <3> HIDE DEF p, r
    <3> QED BY <2>2, Zenon DEF OpFrames
  <2> HIDE DEF g
  <2> QED BY <1>1, <1>5, <2>1, <2>3
<1>8. ASSUME LoadFails
      PROVE  ImportInv'
  <2>1. PICK o : SetTop([Top EXCEPT !.pc = @ + 1, !.val = Nil, !.own = o])
    BY <1>8, Zenon DEF LoadFails
  <2> DEFINE p == Top.pc + 1
             g == [Top EXCEPT !.pc = p, !.val = Nil, !.own = o]
  <2>2. SetTop(g)
    BY <2>1, Zenon
  <2>3. Top \in OpFrames
    BY <1>8, OpTop DEF LoadFails, At
  <2>4. g.kind = "op"
    <3> HIDE DEF p
    <3> QED BY <2>3, Zenon DEF OpFrames
  <2> HIDE DEF g
  <2> QED BY <1>1, <2>2, <2>4
<1> QED BY <1>2, <1>3, <1>4, <1>5, <1>6, <1>7, <1>8, Zenon DEF OpNext, EndBody, BodyDone,
      OutOfMemory, Check, Memory, Object, Read, Link, Register, GuestStores, GuestReturns,
      GuestRaises, CallHost, ReturnToGuest, GuestHandles, Collect, RaisesNew, Raises, callVars,
      InGuest, At

LEMMA HostKeepsImportInv ==
  ASSUME VmInv, ImportInv, Host
  PROVE  ImportInv'
<1>1. ASSUME UNCHANGED frames
      PROVE  ImportInv'
  <2>1. Top' = Top
    BY <1>1, TopAfter
  <2> QED BY <2>1, Zenon DEF ImportInv
<1>2. ASSUME NEW op, NEW arg, NEW after, Call(op, arg, after)
      PROVE  ImportInv'
  <2> DEFINE h == [Top EXCEPT !.after = after]
             g == OpFrame(op, arg)
  <2>1. frames' = Append([frames EXCEPT ![Len(frames)] = h], g)
    BY <1>2, Zenon DEF Call, Top
  <2>2. g.kind = "op"
    BY DEF OpFrame
  <2> HIDE DEF g, h
  <2>3. Top' = g
    BY <2>1, TopAfter
  <2> QED BY <2>2, <2>3 DEF ImportInv
<1>3. ASSUME NEW g, Import(g)
      PROVE  ImportInv'
  <2>1. CASE ~GraphValid(g)
    BY <1>1, <1>3, <2>1 DEF Import
  <2>2. CASE GraphValid(g)
    <3> DEFINE f == ImportFrame(g)
    <3>1. frames' = Append(frames, f)
      BY <1>3, <2>2 DEF Import
    <3>2. f.phase = "table" /\ f.vals = <<>> /\ f.node = 1
      BY DEF ImportFrame
    <3> HIDE DEF f
    <3>3. Top' = f
      BY <3>1, TopAfter
    <3> QED BY <3>2, <3>3 DEF ImportInv
  <2> QED BY <2>1, <2>2
<1>4. ASSUME InZig, NEW a, SetTop([Top EXCEPT !.after = a]) \/ SetTop([Top EXCEPT !.scopes = a])
      PROVE  ImportInv'
  <2>1. Top \in ZigFrames
    <3>1. InZig
      BY <1>4, Zenon
    <3> QED BY <3>1, ZigTop
  <2> DEFINE g == [Top EXCEPT !.after = a]
             h == [Top EXCEPT !.scopes = a]
  <2>2. g.kind = "zig" /\ h.kind = "zig"
    BY <2>1, Zenon DEF ZigFrames
  <2>3. SetTop(g) \/ SetTop(h)
    BY <1>4, Zenon
  <2> HIDE DEF g, h
  <2>4. Top' = g \/ Top' = h
    BY <2>3, TopAfter
  <2> QED BY <2>2, <2>4 DEF ImportInv
<1> QED BY <1>1, <1>2, <1>3, <1>4, Zenon DEF Host, CallOperation, ReadDetails, FailCallback,
      ImportGraph, Unroot, Root, RootReturns, OpenScope, CloseScope, ClearError,
      CaptureErrorView, ClearErrorView, callVars

\* The lists of a graph are sequences.
LEMMA GraphLists ==
  ASSUME NEW g \in Graphs
  PROVE  /\ Len(g.nodes) \in Nat
         /\ \A n \in 1 .. Len(g.nodes) : Len(g.nodes[n].edges) \in Nat
         /\ g.nodes # <<>> => 1 \in 1 .. Len(g.nodes)
<1>1. g.nodes \in Seq(ToSet(g.nodes))
  BY GraphAssumption
<1>2. \A n \in DOMAIN g.nodes : g.nodes[n].edges \in Seq(ToSet(g.nodes[n].edges))
  BY GraphAssumption
<1>3. DOMAIN g.nodes = 1 .. Len(g.nodes) /\ Len(g.nodes) \in Nat
  BY <1>1
<1>4. \A n \in 1 .. Len(g.nodes) : Len(g.nodes[n].edges) \in Nat
  BY <1>2, <1>3
<1>5. g.nodes # <<>> => Len(g.nodes) > 0
  BY <1>1
<1> QED BY <1>3, <1>4, <1>5

\* An import's frame whose fields are these satisfies the invariant.
LEMMA ImportInvFrom ==
  ASSUME VmInv, NEW g, SetTop(g),
         LET nodes == g.graph.nodes IN
         /\ g.phase = "table" => g.vals = <<>> /\ g.node = 1
         /\ g.phase \in {"shell", "edges"} => g.node \in 1 .. Len(nodes)
         /\ g.phase = "edges" /\ g.vals # <<>> => g.edge <= Len(nodes[g.node].edges)
         /\ g.phase = "root" /\ g.vals # <<>> => g.vals[1] \in Objects \cup {g.graph.root}
  PROVE  ImportInv'
<1>1. Top' = g
  BY TopAfter
<1> QED BY <1>1, Zenon DEF ImportInv

LEMMA ImportKeepsImportInv ==
  ASSUME VmInv, ImportInv, ImportNext
  PROVE  ImportInv'
<1>1. ASSUME UNCHANGED frames
      PROVE  ImportInv'
  <2>1. Top' = Top
    BY <1>1, TopAfter
  <2> QED BY <2>1, Zenon DEF ImportInv
<1>2. InImport
  BY Zenon DEF ImportNext, ScalarRoot, NewTable, NewShell, KeepShell, DecodeEdge, LinkEdge,
     NextNode, DecodeRoot, Return, ImportRaises, CollectInImport, Phase
<1>3. /\ Top \in ImportFrames({Top.vals}) /\ Len(frames) > 1 /\ Top.kind = "import"
      /\ Top.graph \in Graphs
  BY <1>2, ImportTop DEF ImportFrames
<1>4. ASSUME frames' = Front(frames)
      PROVE  ImportInv'
  BY <1>3, <1>4, TopAfter DEF ImportInv
<1> DEFINE nodes == Top.graph.nodes
<1>5. /\ Top.phase = "table" => Top.vals = <<>> /\ Top.node = 1
      /\ Top.phase \in {"shell", "edges"} => Top.node \in 1 .. Len(nodes)
      /\ Top.phase = "edges" /\ Top.vals # <<>> => Top.edge <= Len(nodes[Top.node].edges)
      /\ Top.phase = "root" /\ Top.vals # <<>> => Top.vals[1] \in Objects \cup {Top.graph.root}
  BY <1>3, Zenon DEF ImportInv
<1>6. /\ Len(nodes) \in Nat
      /\ \A n \in 1 .. Len(nodes) : Len(nodes[n].edges) \in Nat
      /\ nodes # <<>> => 1 \in 1 .. Len(nodes)
      /\ Top.edge \in Nat /\ Top.node \in Nat
  BY <1>3, GraphLists DEF ImportFrames
<1> HIDE DEF nodes
<1>7. CASE ScalarRoot
  <2> DEFINE p == "root"
             g == [Top EXCEPT !.phase = p]
  <2>1. SetTop(g) /\ Top.phase = "table"
    BY <1>7, Zenon DEF ScalarRoot, Continue, SetTop, Phase
  <2>2. g.phase = p /\ g.vals = Top.vals /\ g.graph = Top.graph
    <3> HIDE DEF p
    <3> QED BY <1>3, Zenon DEF ImportFrames
  <2> HIDE DEF g
  <2> QED BY <1>5, <2>1, <2>2, ImportInvFrom
<1>8. CASE NewTable
  <2>1. PICK o \in Objects : SetTop([Top EXCEPT !.phase = "shell", !.table = o])
    BY <1>8, Zenon DEF NewTable, Continue, SetTop
  <2>2. Top.phase = "table" /\ nodes # <<>>
    BY <1>8, Zenon DEF NewTable, Phase, nodes
  <2> DEFINE p == "shell"
             g == [Top EXCEPT !.phase = p, !.table = o]
  <2>3. SetTop(g)
    BY <2>1, Zenon
  <2>4. g.phase = p /\ g.vals = Top.vals /\ g.graph = Top.graph /\ g.node = Top.node
    <3> HIDE DEF p
    <3> QED BY <1>3, Zenon DEF ImportFrames
  <2> HIDE DEF g
  <2> QED BY <1>5, <1>6, <2>2, <2>3, <2>4, ImportInvFrom DEF nodes
<1>9. ASSUME NEW l, SetTop([Top EXCEPT !.vals = l]), Top.phase # "table",
             Top.phase = "edges" => Top.edge <= Len(nodes[Top.node].edges),
             Top.phase = "root" => l[1] \in Objects \cup {Top.graph.root}
      PROVE  ImportInv'
  <2> DEFINE g == [Top EXCEPT !.vals = l]
  <2>1. SetTop(g)
    BY <1>9, Zenon
  <2>2. /\ g.phase = Top.phase /\ g.vals = l /\ g.graph = Top.graph /\ g.node = Top.node
        /\ g.edge = Top.edge
    BY <1>3, Zenon DEF ImportFrames
  <2>3. /\ Top.phase # "table" /\ (Top.phase = "edges" => Top.edge <= Len(nodes[Top.node].edges))
        /\ (Top.phase = "root" => l[1] \in Objects \cup {Top.graph.root})
    BY <1>9, Zenon
  <2> HIDE DEF g
  <2> QED BY <1>5, <2>1, <2>2, <2>3, ImportInvFrom DEF nodes
<1>10. CASE NewShell
  <2>1. Top.phase = "shell" /\ \E o : SetTop([Top EXCEPT !.vals = <<o>>])
    BY <1>10, Zenon DEF NewShell, Continue, SetTop, Phase
  <2> QED BY <1>9, <2>1, Zenon
<1>11. CASE KeepShell
  <2> DEFINE all == Top.node = Len(Top.graph.nodes)
             m == IF all THEN 1 ELSE Top.node + 1
             p == IF all THEN "edges" ELSE Top.phase
             l == <<>>
             g == [Top EXCEPT !.vals = l, !.node = m, !.phase = p]
  <2>1. SetTop(g) /\ Top.phase = "shell"
    BY <1>11, Zenon DEF KeepShell, Continue, SetTop, Phase
  <2>2. g.phase = p /\ g.vals = l /\ g.graph = Top.graph /\ g.node = m
    <3> HIDE DEF p, l, m
    <3> QED BY <1>3, Zenon DEF ImportFrames
  <2>3. m \in 1 .. Len(nodes) /\ p \in {"shell", "edges"}
    BY <1>5, <1>6, <2>1 DEF nodes
  <2>4. l = <<>>
    OBVIOUS
  <2> HIDE DEF g, m, p, l
  <2> QED BY <2>1, <2>2, <2>3, <2>4, ImportInvFrom DEF nodes
<1>12. CASE DecodeEdge
  <2>1. /\ Top.phase = "edges" /\ Top.edge <= Len(nodes[Top.node].edges)
        /\ \E l : SetTop([Top EXCEPT !.vals = l])
    BY <1>12, Zenon DEF DecodeEdge, Continue, SetTop, Phase, Node, nodes
  <2> QED BY <1>9, <2>1, Zenon
<1>13. CASE LinkEdge
  <2> DEFINE e == Top.edge + Group
             l == <<>>
             g == [Top EXCEPT !.vals = l, !.edge = e]
  <2>1. Top.phase = "edges"
    BY <1>13, Zenon DEF LinkEdge, Phase
  <2>2. frames' = Front(frames) \/ SetTop(g)
    BY <1>13, Zenon DEF LinkEdge, Invalid, Fails, Continue, SetTop
  <2>3. CASE SetTop(g)
    <3>1. SetTop(g)
      BY <2>3
    <3>2. g.phase = Top.phase /\ g.vals = l /\ g.graph = Top.graph /\ g.node = Top.node
      <4> HIDE DEF e, l
      <4> QED BY <1>3, Zenon DEF ImportFrames
    <3>3. l = <<>>
      OBVIOUS
    <3> HIDE DEF g, l
    <3> QED BY <1>5, <2>1, <3>1, <3>2, <3>3, ImportInvFrom DEF nodes
  <2> QED BY <1>4, <2>2, <2>3, Zenon
<1>14. CASE NextNode
  <2> DEFINE all == Top.node = Len(Top.graph.nodes)
             m == IF all THEN 1 ELSE Top.node + 1
             p == IF all THEN "root" ELSE Top.phase
             e == 1
             g == [Top EXCEPT !.edge = e, !.node = m, !.phase = p]
  <2>1. SetTop(g) /\ Top.phase = "edges" /\ Top.edge > Len(nodes[Top.node].edges)
    BY <1>14, Zenon DEF NextNode, Continue, SetTop, Phase, Node, nodes
  <2>2. g.phase = p /\ g.vals = Top.vals /\ g.graph = Top.graph /\ g.node = m
    <3> HIDE DEF p, e, m
    <3> QED BY <1>3, Zenon DEF ImportFrames
  <2>3. Top.vals = <<>>
    <3>1. Top.phase = "edges" /\ Top.edge > Len(nodes[Top.node].edges)
      BY <2>1, Zenon
    <3> QED BY <1>5, <1>6, <3>1
  <2>4. p \in {"edges", "root"} /\ (p = "edges" => m \in 1 .. Len(nodes))
    <3>1. Top.phase = "edges"
      BY <2>1, Zenon
    <3> QED BY <1>5, <1>6, <3>1 DEF nodes
  <2>5. SetTop(g)
    BY <2>1, Zenon
  <2> HIDE DEF g, m, p
  <2> QED BY <2>2, <2>3, <2>4, <2>5, ImportInvFrom DEF nodes
<1>15. CASE DecodeRoot
  <2>1. PICK v \in Objects \cup {Top.graph.root} : SetTop([Top EXCEPT !.vals = <<v>>])
    BY <1>15, Zenon DEF DecodeRoot, Continue, SetTop
  <2> DEFINE l == <<v>>
  <2>2. l[1] = v
    OBVIOUS
  <2>3. Top.phase = "root"
    BY <1>15, Zenon DEF DecodeRoot, Phase
  <2>4. SetTop([Top EXCEPT !.vals = l])
    BY <2>1, Zenon
  <2> HIDE DEF l
  <2>5. Top.phase # "table" /\ Top.phase # "edges"
    BY <2>3
  <2> QED BY <1>9, <2>2, <2>4, <2>5, Zenon
<1>16. CASE Return \/ ImportRaises \/ CollectInImport
  <2>1. frames' = Front(frames) \/ UNCHANGED frames
    BY <1>16, Zenon DEF Return, ImportRaises, CollectInImport, Completes, PostludeRefused,
       PostludeCaught, Fails, callVars
  <2> QED BY <1>1, <1>4, <2>1, Zenon
<1> QED BY <1>7, <1>8, <1>10, <1>11, <1>12, <1>13, <1>14, <1>15, <1>16, Zenon DEF ImportNext

LEMMA ImportInvHolds == SafeSpec => []ImportInv
<1>1. SafeInit => ImportInv
  <2> SUFFICES ASSUME SafeInit
               PROVE  ImportInv
    OBVIOUS
  <2> DEFINE z == ZigFrame
  <2>1. z.kind = "zig"
    BY DEF ZigFrame
  <2> HIDE DEF z
  <2>2. frames = <<z>>
    BY DEF SafeInit, z
  <2>3. Top = z
    BY <2>2 DEF Top
  <2> QED BY <2>1, <2>3 DEF ImportInv
<1>2. VmInv /\ ImportInv /\ [SafeNext]_vmVars => ImportInv'
  <2> SUFFICES ASSUME VmInv, ImportInv, [SafeNext]_vmVars
               PROVE  ImportInv'
    OBVIOUS
  <2>1. CASE UNCHANGED vmVars
    <3>1. Top' = Top
      BY <2>1 DEF vmVars, callVars, Top
    <3> QED BY <3>1, Zenon DEF ImportInv
  <2> QED BY <2>1, HostKeepsImportInv, OpKeepsImportInv, ImportKeepsImportInv, Zenon DEF SafeNext
<1> QED BY <1>1, <1>2, VmInvHolds, PTL DEF SafeSpec

\* What is left of a cut arena, and what is put on it.
LEMMA CutFacts ==
  ASSUME arena \in Seq(Identities), NEW idx \in Nat, idx <= Len(arena), NEW v \in Identities
  PROVE  LET cut == ArenaRestored(idx) IN
         /\ SubSeq(cut, 1, idx) = SubSeq(arena, 1, idx) /\ Len(cut) = idx
         /\ SubSeq(Append(cut, v), 1, idx) = SubSeq(arena, 1, idx)
         /\ Len(Append(cut, v)) = idx + 1
         /\ SubSeq(Append(cut, v), idx + 1, idx + 1) = <<v>>
<1> DEFINE cut == ArenaRestored(idx)
<1>1. cut \in Seq(Identities) /\ Len(cut) = idx /\ cut = SubSeq(arena, 1, idx)
  BY RestoredFacts DEF ArenaRestored
<1> HIDE DEF cut
<1>2. SubSeq(cut, 1, idx) = cut
  BY <1>1
<1>3. SubSeq(Append(cut, v), 1, idx) = cut
  BY <1>1
<1>4. Len(Append(cut, v)) = idx + 1
  BY <1>1
<1>5. SubSeq(Append(cut, v), idx + 1, idx + 1) = <<v>>
  <2> DEFINE r == Append(cut, v)
             s == SubSeq(r, idx + 1, idx + 1)
             t == <<v>>
  <2>1. r \in Seq(Identities) /\ Len(r) = idx + 1 /\ r[idx + 1] = v
    BY <1>1
  <2> HIDE DEF r
  <2>2. s \in Seq(Identities) /\ Len(s) = 1 /\ s[1] = v
    BY <2>1
  <2>3. t \in Seq(Identities) /\ Len(t) = 1 /\ t[1] = v
    OBVIOUS
  <2> HIDE DEF s, t
  <2>4. Len(s) = Len(t) /\ \A i \in 1 .. Len(s) : s[i] = t[i]
    BY <2>2, <2>3
  <2>5. s = t
    BY <2>2, <2>3, <2>4, SeqEqual
  <2> QED BY <2>5 DEF s, t, r
<1> QED BY <1>1, <1>2, <1>3, <1>4, <1>5 DEF cut

\* What a return leaves in the arena.
Balance ==
  Len(frames') < Len(frames) /\ Top.kind # "zig" =>
    LET value == IF last'.own # Nil THEN last'.own
                 ELSE IF Top.kind = "import" THEN Top.vals[1]
                 ELSE Result(Top)
    IN  /\ SubSeq(arena', 1, Top.entry) = SubSeq(arena, 1, Top.entry)
        /\ Len(arena') <= Top.entry + 1
        /\ last'.ok /\ value \in Identities /\ (Top.kind = "op" => Top.op.slot)
             => SubSeq(arena', Top.entry + 1, Len(arena')) = <<value>>
        /\ Top.kind = "import" /\ ~last'.ok => Len(arena') = Top.entry

LEMMA OpBalance ==
  ASSUME VmInv, VmInv', OpNext
  PROVE  Balance
<1> SUFFICES ASSUME Len(frames') < Len(frames), Top.kind # "zig"
             PROVE  Balance
  BY DEF Balance
<1>1. InOp
  BY OpPops
<1>2. PICK result, raised :
        /\ Returned(Top, result, raised)
        /\ raised \/ result = Result(Top)
        /\ raised \in BOOLEAN /\ result \in Values
  BY OpPops, Zenon
<1>3. /\ Top \in OpFrames /\ Top.kind = "op" /\ Top.entry \in Nat /\ Top.entry <= Len(arena)
      /\ arena \in Seq(Identities)
  BY <1>1, OpTop DEF OpFrames, VmInv, HeapTypes
<1>4. ~Top.op.clears => Result(Top) = Nil
  BY <1>3, OrdinarySane, RegisterRootFields DEF OpFrames, Operations, Sane, Result
<1> DEFINE cut == ArenaRestored(Top.entry)
           value == IF last'.own # Nil THEN last'.own ELSE Result(Top)
<1>5. /\ SubSeq(cut, 1, Top.entry) = SubSeq(arena, 1, Top.entry) /\ Len(cut) = Top.entry
      /\ \A v \in Identities :
           /\ SubSeq(Append(cut, v), 1, Top.entry) = SubSeq(arena, 1, Top.entry)
           /\ Len(Append(cut, v)) = Top.entry + 1
           /\ SubSeq(Append(cut, v), Top.entry + 1, Top.entry + 1) = <<v>>
  <2>1. NoMem \in Identities
    BY DEF Identities
  <2> QED BY <1>3, <2>1, CutFacts
<1> HIDE DEF cut
<1>6. result # Nil => result \in Identities
  BY <1>2 DEF Values, Identities
<1>7. IF result = Nil \/ ~Top.op.slot THEN arena' = cut ELSE arena' = Append(cut, result)
  BY <1>2 DEF Returned, ResultRooted, Protect, cut
<1>8. ASSUME last'.ok, value \in Identities, Top.op.slot
      PROVE  SubSeq(arena', Top.entry + 1, Len(arena')) = <<value>>
  <2>1. last'.own = Nil
    BY <1>8 DEF VmInv, Outcome
  <2>2. value = Result(Top) /\ value # Nil
    BY <1>8, <2>1, HeapAssumption DEF Identities
  <2>3. ~raised
    <3>1. Succeeds(Top, result, raised)
      BY <1>2, <1>8 DEF Returned
    <3> QED BY <1>4, <2>2, <3>1 DEF Succeeds
  <2>4. result = value
    BY <1>2, <2>2, <2>3
  <2> HIDE DEF value
  <2>5. arena' = Append(cut, value) /\ Len(arena') = Top.entry + 1
    BY <1>5, <1>7, <1>8, <2>2, <2>4
  <2> QED BY <1>5, <1>8, <2>5
<1>9. SubSeq(arena', 1, Top.entry) = SubSeq(arena, 1, Top.entry) /\ Len(arena') <= Top.entry + 1
  <2>1. CASE arena' = cut
    BY <1>3, <1>5, <2>1
  <2>2. CASE arena' = Append(cut, result) /\ result \in Identities
    BY <1>3, <1>5, <2>2
  <2> QED BY <1>6, <1>7, <2>1, <2>2
<1> QED BY <1>3, <1>8, <1>9 DEF Balance

LEMMA ImportBalance ==
  ASSUME VmInv, VmInv', ImportInv, ImportNext
  PROVE  Balance
<1> SUFFICES ASSUME Len(frames') < Len(frames)
             PROVE  Balance
  BY DEF Balance
<1>1. InImport
  BY ImportPopped
<1>2. /\ Top.kind = "import" /\ Top.entry \in Nat /\ Top.entry <= Len(arena)
      /\ arena \in Seq(Identities)
  BY <1>1, ImportTop DEF VmInv, HeapTypes
<1> DEFINE cut == ArenaRestored(Top.entry)
           value == Top.vals[1]
<1>3. /\ SubSeq(cut, 1, Top.entry) = SubSeq(arena, 1, Top.entry) /\ Len(cut) = Top.entry
      /\ \A v \in Identities :
           /\ SubSeq(Append(cut, v), 1, Top.entry) = SubSeq(arena, 1, Top.entry)
           /\ Len(Append(cut, v)) = Top.entry + 1
           /\ SubSeq(Append(cut, v), Top.entry + 1, Top.entry + 1) = <<v>>
  <2>1. NoMem \in Identities
    BY DEF Identities
  <2> QED BY <1>2, <2>1, CutFacts
<1>4. CASE \E own, refused : Fails(own, refused)
  <2>1. arena' = cut /\ ~last'.ok
    BY <1>4 DEF Fails, Reported
  <2> HIDE DEF cut
  <2>2. Len(arena') = Top.entry /\ SubSeq(arena', 1, Top.entry) = SubSeq(arena, 1, Top.entry)
    BY <1>3, <2>1
  <2>3. Len(arena') <= Top.entry + 1
    BY <1>2, <2>2
  <2> QED BY <1>2, <2>1, <2>2, <2>3 DEF Balance
<1>5. CASE /\ value # NoMem /\ Reported(TRUE, Nil, FALSE, Nil)
           /\ IF value \in Objects THEN Protect(cut, value)
              ELSE arena' = cut /\ UNCHANGED capacity
  <2>1. last'.own = Nil /\ last'.ok
    BY <1>5 DEF Reported
  <2>2. CASE value \in Objects
    <3>1. arena' = Append(cut, value) /\ value \in Identities
      BY <1>5, <2>2 DEF Protect, Identities
    <3> HIDE DEF cut
    <3>2. /\ Len(arena') = Top.entry + 1 /\ SubSeq(arena', 1, Top.entry) = SubSeq(arena, 1, Top.entry)
          /\ SubSeq(arena', Top.entry + 1, Len(arena')) = <<value>>
      BY <1>3, <3>1
    <3>3. Len(arena') <= Top.entry + 1
      BY <1>2, <3>2
    <3> QED BY <1>2, <2>1, <3>2, <3>3 DEF Balance
  <2>3. CASE value \notin Objects
    <3>1. arena' = cut /\ value \notin Identities
      BY <1>5, <2>3 DEF Identities
    <3> HIDE DEF cut
    <3>2. Len(arena') = Top.entry /\ SubSeq(arena', 1, Top.entry) = SubSeq(arena, 1, Top.entry)
      BY <1>3, <3>1
    <3>3. Len(arena') <= Top.entry + 1
      BY <1>2, <3>2
    <3> QED BY <1>2, <2>1, <3>1, <3>2, <3>3 DEF Balance
  <2> QED BY <2>2, <2>3
<1> QED BY <1>4, <1>5, ImportPopped

\* A return leaves the caller's slots of the arena, and one more at most, which
\* holds what it returned; an import that failed leaves none (src/shim.c,
\* mrz_protect_result and mrz_artifact_materialize).
THEOREM ArenaBalancedHolds == SafeSpec => ArenaBalanced
<1>1. VmInv /\ ImportInv /\ VmInv' /\ [SafeNext]_vmVars => [Balance]_vmVars
  <2> SUFFICES ASSUME VmInv, ImportInv, VmInv', SafeNext
               PROVE  Balance
    BY Zenon
  <2>1. CASE Host
    <3>1. Top.kind = "zig" \/ UNCHANGED frames
      BY <2>1, Zenon DEF Host, CallOperation, ReadDetails, FailCallback, ImportGraph, Unroot, Root,
         RootReturns, OpenScope, CloseScope, ClearError, CaptureErrorView, ClearErrorView, Call,
         Import, InZig, callVars
    <3>2. UNCHANGED frames => ~(Len(frames') < Len(frames))
      <4>1. Len(frames) \in Nat
        BY DEF VmInv, FrameInv, FrameTypes
      <4> QED BY <4>1
    <3> QED BY <3>1, <3>2, Zenon DEF Balance
  <2> QED BY <2>1, OpBalance, ImportBalance, Zenon DEF SafeNext
<1>2. SafeSpec => [][Balance]_vmVars
  BY <1>1, VmInvHolds, ImportInvHolds, PTL DEF SafeSpec
<1> QED BY <1>2, Zenon DEF ArenaBalanced, Balance
=============================================================================
