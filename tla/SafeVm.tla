------------------------------- MODULE SafeVm -------------------------------
(***************************************************************************)
(* A VM behind the safe API: the host and its callbacks (Zig frames) call  *)
(* protected operations and imports, open arena scopes, hold RootedValues  *)
(* (src/arena.zig) and read errors (the view of src/sandbox.zig).          *)
(*                                                                         *)
(* The host keeps its side: it uses a value only while something roots it, *)
(* closes a scope in the frame that opened it, and reads the details of an *)
(* error while the arena still holds the exception.                        *)
(***************************************************************************)
EXTENDS Materialize

CONSTANTS
  Handles,             \* bound: the RootedValues alive at once
  MaxHolders,          \* bound on the holders of objects when an operation is called
  CallbackOperations   \* bound: the operations used by callbacks

ASSUME SafeVmAssumption ==
  /\ IsFiniteSet(Handles)
  /\ "released" \notin Values

VARIABLES
  handles,     \* what an active RootedValue refers to
  references   \* RootRegistry.references; 0: no entry, or one being added

vmVars == <<heapVars, callVars, handles, references>>
registryVars == <<handles, references>>

Released == "released"
Identities == Objects \cup {NoMem}

SafeInit ==
  /\ InitHeap
  /\ frames = <<ZigFrame>>
  /\ last = NoOutcome
  /\ escaped = FALSE
  /\ handles = [h \in Handles |-> Released]
  /\ references = [o \in Identities |-> 0]

---------------------------------------------------------------------------
(* Operations *)

\* The operations that use the argument for more than a check.
OnValue ==
  {Funcall, FuncallId, ArraySet, HashSet, GlobalSet, IvarSet, DefineConst,
   DefineSingletonMethod}

OnNames ==
  {LoadString(TRUE), LoadString(FALSE), LoadIrep, String, Number(TRUE), Number(FALSE),
   ArrayNew, ArrayGet, HashNew, HashGet, HashKeys, Intern, Define(TRUE), Define(FALSE),
   Lookup(2), ConstGet, VariableGet, DefineMethod(TRUE), DefineMethod(FALSE), DataObject,
   SetException, MaskMethod(TRUE), MaskMethod(FALSE), RemoveConst, Freeze, Compile, RandomSeed}

\* The arguments of the running callback.
OnCallback == {GetArgs, GetArgsKw}

InCallback == Len(frames) > 1

Usable(op) == InCallback => op \in CallbackOperations

\* A value that something roots.
Held == ToSet(arena) \cup {handles[h] : h \in {i \in Handles : handles[i] # Released}} \cup {Nil}

\* Bounds: the things that keep objects alive when an operation is called, and
\* no imported graph among them.
Holders == Cardinality({h \in Handles : handles[h] # Released})
             + Cardinality({i \in {1, 2} : <<stored, view>>[i] # Nil})
Calm == Holders <= MaxHolders /\ \A o \in Objects : cells[o] = Empty

CallOperation ==
  /\ Calm
  /\ \/ \E op \in OnValue : Usable(op) /\ \E v \in Held : Call(op, v, <<"read">>)
     \/ \E op \in OnNames : Usable(op) /\ Call(op, Nil, <<"read">>)
     \/ InCallback /\ \E op \in OnCallback : Usable(op) /\ Call(op, Nil, <<"read">>)
  /\ UNCHANGED registryVars

\* RubyError asks the exception and its class; the first is in the arena.
ReadDetails ==
  /\ exc # Nil /\ exc \in ToSet(arena)
  /\ \/ \E v \in {exc, Nil} : Call(FuncallPreserveError, v, <<"read">>)
     \/ Call(PrintError, Nil, <<"read">>)
  /\ UNCHANGED registryVars

\* CallbackShell: a Zig error becomes the pending exception.
FailCallback ==
  /\ InCallback /\ Top.kind = "zig" /\ Top.scopes = <<>>
  /\ Call(SetException, Nil, <<"return">>)
  /\ UNCHANGED registryVars

ImportGraph ==
  /\ ~InCallback /\ Calm
  /\ stored = Nil /\ view = Nil /\ \A h \in Handles : handles[h] = Released  \* bound
  /\ \E g \in Graphs : Import(g)
  /\ UNCHANGED registryVars

---------------------------------------------------------------------------
(* RootRegistry *)

FirstReference(v) == v # Nil /\ references[v] = 0

\* RootRegistry.add, up to the registration of an object's first reference.
\* Bound: handles are made in the outermost frame, and released in any.
Root(h, v) ==
  /\ InZig /\ ~InCallback /\ handles[h] = Released /\ v \in Held
  /\ IF FirstReference(v)
       THEN Call(RegisterRoot, v, <<"root", h, v>>) /\ UNCHANGED registryVars
       ELSE /\ Top.after[1] = "read"
            /\ handles' = [handles EXCEPT ![h] = v]
            /\ references' = [o \in Identities |-> references[o] + IF o = v THEN 1 ELSE 0]
            /\ UNCHANGED <<heapVars, callVars>>

\* Its end: a registration that failed leaves no entry.
RootReturns ==
  /\ InZig /\ Top.after[1] = "root"
  /\ IF last.ok
       THEN /\ handles' = [handles EXCEPT ![Top.after[2]] = Top.after[3]]
            /\ references' = [references EXCEPT ![Top.after[3]] = 1]
       ELSE UNCHANGED registryVars
  /\ SetTop([Top EXCEPT !.after = <<"read">>])
  /\ UNCHANGED <<heapVars, last, escaped>>

\* Faulty variant: every release unregisters, as mrb_gc_unregister would.
ReleasedAlways(v) == v # Nil

LastReference(v) == v # Nil /\ references[v] = 1

\* RootedValue.deinit; a callback spares the arguments of the calls around it.
Unroot(h) ==
  /\ InZig /\ Top.after[1] = "read" /\ handles[h] # Released
  /\ \A f \in ToSet(frames) : f.kind = "op" => f.arg # handles[h]
  /\ registered' = IF LastReference(handles[h]) THEN registered \ {handles[h]} ELSE registered
  /\ references' = [o \in Identities |-> references[o] - IF o = handles[h] THEN 1 ELSE 0]
  /\ handles' = [handles EXCEPT ![h] = Released]
  /\ UNCHANGED <<alive, arena, capacity, exc, stored, view, cells, callVars>>

---------------------------------------------------------------------------
(* Scopes and errors *)

OpenScope ==
  /\ InZig /\ Top.after[1] = "read"
  /\ ~InCallback /\ Top.scopes = <<>>  \* bound: one scope, in the outermost frame
  /\ SetTop([Top EXCEPT !.scopes = <<Len(arena)>>])
  /\ UNCHANGED <<heapVars, last, escaped, registryVars>>

CloseScope ==
  /\ InZig /\ Top.after[1] = "read" /\ Top.scopes # <<>>
  /\ arena' = ArenaRestored(Top.scopes[1])
  /\ SetTop([Top EXCEPT !.scopes = <<>>])
  /\ UNCHANGED <<alive, capacity, exc, registered, stored, view, cells, last, escaped, registryVars>>

\* Vm.clearError, and mapError when a termination outranks the exception.
ClearError ==
  /\ InZig /\ Top.after[1] = "read" /\ exc # Nil
  /\ exc' = Nil /\ last' = NoOutcome
  /\ UNCHANGED <<alive, arena, capacity, registered, stored, view, cells, frames, escaped, registryVars>>

\* captureErrorView: the private root holds the exception, no longer pending.
CaptureErrorView ==
  /\ InZig /\ ~InCallback /\ Top.after[1] = "read" /\ exc # Nil
  /\ view' = exc /\ exc' = Nil /\ last' = NoOutcome
  /\ UNCHANGED <<alive, arena, capacity, registered, stored, cells, frames, escaped, registryVars>>

ClearErrorView ==
  /\ InZig /\ ~InCallback /\ Top.after[1] = "read" /\ view # Nil
  /\ view' = Nil
  /\ UNCHANGED <<alive, arena, capacity, exc, registered, stored, cells, callVars, registryVars>>

Host ==
  \/ CallOperation \/ ReadDetails \/ FailCallback \/ ImportGraph
  \/ \E h \in Handles : Unroot(h) \/ \E v \in Objects \cup {Nil} : Root(h, v)
  \/ RootReturns \/ OpenScope \/ CloseScope \/ ClearError \/ CaptureErrorView \/ ClearErrorView

SafeNext ==
  \/ Host
  \/ (OpNext \/ ImportNext) /\ UNCHANGED registryVars

SafeSpec == SafeInit /\ [][SafeNext]_vmVars

---------------------------------------------------------------------------

TypeOK ==
  /\ HeapTypeOK
  /\ handles \in [Handles -> Values \cup {Released}]
  /\ references \in [Identities -> 0 .. Cardinality(Handles)]
  /\ escaped \in BOOLEAN

InUse ==
  UNION {IF f.kind = "op" THEN {f.arg, f.val} \cup IF f.op.keeps THEN {f.saved} ELSE {}
         ELSE IF f.kind = "import" THEN {f.table} \cup ToSet(f.vals)
         ELSE {} : f \in ToSet(frames)}

\* Whatever Zig, a C body, the registry, the error view or an unfinished graph
\* refers to is an object the collector has not freed: the arena slots that
\* mrb_protect_error, a scope and an import leave or cut are exactly enough.
NoDangling ==
  /\ (ToSet(arena) \cup registered \cup {exc, stored, view} \cup InUse
        \cup UNION {ToSet(cells[o].parts) : o \in alive}) \cap Objects \subseteq alive
  /\ \A h \in Handles : handles[h] \in Objects => handles[h] \in alive

\* The registry registers an object exactly while a RootedValue holds it, and
\* counts them, whichever of two handles to one object goes first and however
\* a registration fails (src/arena.zig, RootRegistry).
RootsExact ==
  \A o \in Identities :
    /\ references[o] = Cardinality({h \in Handles : handles[h] = o})
    /\ o \in registered =>
         \/ references[o] > 0
         \/ \E i \in DOMAIN frames : frames[i].kind = "op" /\ frames[i].op = RegisterRoot
                                       /\ frames[i].arg = o
         \/ Top.kind = "zig" /\ Top.after[1] = "root" /\ Top.after[3] = o
    /\ references[o] > 0 => o \in registered

\* An operation fails exactly if it failed itself, and afterwards the pending
\* exception is its own: neither one of an earlier operation, nor one of a
\* callback inside it (src/shim.c, mrz_protect_result).
OwnOutcome ==
  /\ last.ok <=> (last.own = Nil /\ ~last.refused)
  /\ InZig => exc = last.due

\* An operation or an import leaves the caller's arena as it was, with at most
\* one slot on top, which roots what it returned or raised; an import that
\* failed leaves none (src/shim.c, mrz_artifact_materialize).
ArenaBalanced ==
  [][Len(frames') < Len(frames) /\ Top.kind # "zig" =>
       LET value == IF last'.own # Nil THEN last'.own
                    ELSE IF Top.kind = "import" THEN Top.vals[1]
                    ELSE Result(Top)
       IN  /\ SubSeq(arena', 1, Top.entry) = SubSeq(arena, 1, Top.entry)
           /\ Len(arena') <= Top.entry + 1
           /\ last'.ok /\ value \in Identities /\ (Top.kind = "op" => Top.op.slot)
                => SubSeq(arena', Top.entry + 1, Len(arena')) = <<value>>
           /\ Top.kind = "import" /\ ~last'.ok => Len(arena') = Top.entry]_vmVars

\* A raise never skips a Zig frame: also when the last allocation, that of the
\* arena slot of an import's result, is refused (src/shim.c:2083).
FramesIntact == escaped = FALSE

\* An import that succeeds built the graph of the capsule: every node once,
\* cycles and aliases included, with its flags, and no key lost.
ImportFaithful ==
  [][Len(frames') < Len(frames) /\ Top.kind = "import" /\ last'.ok =>
       Represents(Top.graph, Top.vals[1], cells')]_vmVars
=============================================================================
