------------------------------- MODULE VmHeap -------------------------------
(***************************************************************************)
(* The heap of an mruby VM as src/shim.c meets it.  An object stays alive  *)
(* while it is reachable from the roots: the arena (a stack of temporary   *)
(* roots), the registered objects, the pending exception, the guest's own  *)
(* variables, the private slot of the sandbox's error view, and whatever   *)
(* the interpreter has on its stack.  C and Zig locals are not roots.      *)
(*                                                                         *)
(* One variable, stored, stands for every container the guest can reach: a *)
(* global, a constant, an instance variable or an element.  The contents   *)
(* of an object matter only while a StateCapsule is imported (cells).      *)
(***************************************************************************)
EXTENDS Naturals, FiniteSets, SequencesExt

CONSTANTS
  Objects,        \* bound: the objects that fit the heap
  NoMem,          \* mrb->nomem_err, allocated when the VM is opened
  Nil,            \* an immediate value, or a NULL object pointer
  ArenaCapacity,  \* slots of the arena before it grows
  MaxArena        \* bound: slots after it grew

ASSUME HeapAssumption ==
  /\ IsFiniteSet(Objects)
  /\ NoMem \notin Objects /\ Nil \notin Objects /\ NoMem # Nil
  /\ ArenaCapacity \in Nat /\ MaxArena \in Nat /\ ArenaCapacity <= MaxArena

VARIABLES
  alive,       \* the objects that were allocated and not collected
  arena,       \* the arena up to mrb->gc.arena_idx
  capacity,    \* slots of the arena
  exc,         \* mrb->exc
  registered,  \* the objects of mrb_gc_register
  stored,      \* what a guest variable refers to
  view,        \* the element of the private error root
  cells        \* contents of the objects of an import

heapVars == <<alive, arena, capacity, exc, registered, stored, view, cells>>

Values == Objects \cup {NoMem, Nil}

\* A container refers to values (parts); a string or a float has bytes.
Empty == [kind |-> "opaque", bytes |-> 0, parts |-> <<>>, frozen |-> FALSE,
          default |-> FALSE]

InitHeap ==
  /\ alive = {} /\ arena = <<>> /\ capacity = ArenaCapacity
  /\ exc = Nil /\ registered = {} /\ stored = Nil /\ view = Nil
  /\ cells = [o \in Objects |-> Empty]

\* mrz_gc_arena_restore.
ArenaRestored(idx) == SubSeq(arena, 1, idx)

\* mrb_gc_protect(v) on top of some slots, growing the arena when it is full.
Protect(slots, v) ==
  /\ Len(slots) < MaxArena
  /\ arena' = Append(slots, v)
  /\ capacity' = IF Len(slots) < capacity THEN capacity ELSE MaxArena

\* The arena is full and the allocator refuses the larger one.
GrowthRefused(slots) == Len(slots) >= capacity

\* A new object o in the arena, with these contents.
Allocate(o, contents) ==
  /\ o \in Objects \ alive
  /\ alive' = alive \cup {o}
  /\ cells' = [cells EXCEPT ![o] = contents]
  /\ Protect(arena, o)

PartsOf(S) == (UNION {ToSet(cells[o].parts) : o \in S}) \cap Objects

Reachable(roots) ==
  LET Reach[n \in 0 .. Cardinality(Objects)] ==
        IF n = 0 THEN roots \cap Objects ELSE Reach[n-1] \cup PartsOf(Reach[n-1])
  IN  Reach[Cardinality(Objects)]

\* A collection; stack is what the interpreter's stack refers to.
CollectGarbage(stack) ==
  LET kept == Reachable(ToSet(arena) \cup registered \cup {exc, stored, view} \cup stack)
  IN  /\ alive # kept
      /\ alive' = kept
      /\ cells' = [o \in Objects |-> IF o \in kept THEN cells[o] ELSE Empty]
      /\ UNCHANGED <<arena, capacity, exc, registered, stored, view>>

HeapTypeOK ==
  /\ alive \subseteq Objects /\ registered \subseteq Objects \cup {NoMem}
  /\ arena \in Seq(Objects \cup {NoMem}) /\ Len(arena) <= MaxArena
  /\ capacity \in {ArenaCapacity, MaxArena}
  /\ {exc, stored, view} \subseteq Values
=============================================================================
