------------------------------ MODULE SafeCall ------------------------------
(***************************************************************************)
(* The protected operations of src/shim.c.  Each is a C body that runs     *)
(* under mrb_protect_error, so that a Ruby raise ends in C, and a wrapper  *)
(* that turns the outcome into a Boolean, a value and a pending exception. *)
(* Control alternates between Zig frames (the host, and its callbacks) and *)
(* operations: Zig calls an operation, an operation that runs guest code   *)
(* may be called back.                                                     *)
(*                                                                         *)
(* An operation is described by the steps of its body that touch the heap  *)
(* or can raise:                                                           *)
(*   check    a range or type check; raises a new exception                *)
(*   memory   an allocation that is no object (a symbol, a table, ...)     *)
(*   object   a new object, which becomes the value at hand                *)
(*   read     the value of a guest variable becomes the value at hand      *)
(*   link     the value at hand is put where the guest can reach it        *)
(*   unlink   a guest variable is removed                                  *)
(*   register the argument becomes a GC root                               *)
(*   absent   the body may find nothing and return nil                     *)
(*   guest    runs guest code (a key's hash and eql?)                      *)
(*   call     runs guest code, whose result becomes the value at hand      *)
(*   load     the same for a program, which may leave mrb->exc set without *)
(*            raising (a syntax error)                                     *)
(* Names, numbers, the contents of values and the C buffers a wrapper frees *)
(* are left out.                                                           *)
(***************************************************************************)
EXTENDS VmHeap

CONSTANTS
  MaxFrames,       \* bound on the nesting of Zig frames and operations
  MaxCallArena,    \* bound on the arena when an operation is called
  OpObjects,       \* bound on the objects alive while operations allocate
  PostludeMayFail  \* the allocator may refuse the arena slot of a result

VARIABLES
  frames,    \* Zig frames and operations, the innermost last
  last,      \* history: how the operation that returned last ended
  escaped    \* a raise left C: it skipped a Zig frame or aborted the process

callVars == <<frames, last, escaped>>

---------------------------------------------------------------------------
(* The operations *)

Op(body, gives) ==
  [body |-> body, gives |-> gives,
   clears |-> TRUE,   \* starts with mrb->exc = NULL (mrz_protect_result)
   keeps |-> FALSE,   \* puts the pending exception back at the end
   slot |-> TRUE,     \* leaves the slot of its result in the arena
   pends |-> FALSE,   \* its result becomes the pending exception
   strict |-> FALSE]  \* finding nothing is a failure

RegisterRoot == Op(<<"memory", "register">>, "nil")

LoadString(named) ==
  Op(IF named THEN <<"check", "memory", "load">> ELSE <<"load">>, "value")
LoadIrep == Op(<<"load">>, "value")

Funcall == Op(<<"memory", "call">>, "value")
FuncallId == Op(<<"call">>, "value")
FuncallPreserveError == [Funcall EXCEPT !.keeps = TRUE]

\* mrb_print_error formats the pending exception, which it may not clear.
PrintError == [Op(<<"object", "memory">>, "nil") EXCEPT !.keeps = TRUE, !.clears = FALSE]

String == Op(<<"check", "object", "memory">>, "value")
\* A number may be boxed.
Number(boxed) == Op(IF boxed THEN <<"object">> ELSE <<>>, "value")

ArrayNew == Op(<<"check", "object", "memory">>, "value")
ArrayGet == Op(<<"read">>, "value")
ArraySet == Op(<<"check", "memory", "link">>, "nil")

HashNew == Op(<<"check", "object", "guest", "memory">>, "value")
HashGet == Op(<<"guest", "absent", "read">>, "value")
HashSet == Op(<<"check", "guest", "memory", "link">>, "nil")
HashKeys == Op(<<"object", "memory">>, "value")

Intern == Op(<<"memory">>, "nil")

\* A class that exists is found, and its superclass compared.
Define(exists) ==
  Op(IF exists THEN <<"memory", "check", "read">>
               ELSE <<"memory", "check", "object", "memory", "link">>, "value")

\* Each segment of A::B is looked up in a namespace, which the value found
\* last must be; a segment may be empty or undefined.
Lookup(segments) ==
  Op([i \in 1 .. 4 * segments + 1 |->
        <<"absent", "memory", "absent", "read">>[((i - 1) % 4) + 1]], "value")
ConstGet == Op(<<"memory", "absent", "read">>, "value")

VariableGet == Op(<<"memory", "read">>, "value")
GlobalSet == Op(<<"memory", "memory", "link">>, "nil")
IvarSet == Op(<<"memory", "check", "memory", "link">>, "nil")
DefineConst == Op(<<"memory", "memory", "link">>, "nil")

\* A method of a class or module function needs the singleton class.
DefineMethod(singleton) ==
  Op(IF singleton THEN <<"memory", "object", "memory">> ELSE <<"memory", "memory">>, "nil")
\* The receiver is returned, so that its new singleton class stays reachable.
DefineSingletonMethod == Op(<<"memory", "check", "object", "memory">>, "argument")

DataObject == Op(<<"object">>, "value")

GetArgs == Op(<<"check">>, "nil")
GetArgsKw == Op(<<"memory", "check", "object">>, "nil")

SetException ==
  [Op(<<"check", "object", "memory", "check", "call">>, "value") EXCEPT !.pends = TRUE]

MaskMethod(singleton) ==
  Op(IF singleton THEN <<"memory", "object", "memory">> ELSE <<"memory", "memory">>, "nil")
RemoveConst == Op(<<"memory", "check", "unlink">>, "nil")
Freeze == Op(<<>>, "nil")

\* Compiler context, parser, procedure and image; a step that fails without a
\* raise makes the status FAILED and ends the body.
Compile ==
  [Op(<<"memory", "absent", "object", "absent", "memory", "absent">>, "nil")
     EXCEPT !.strict = TRUE]

\* The result is the previous seed, so the slots of the arena are given back.
RandomSeed == [Op(<<"object", "memory", "check">>, "nil") EXCEPT !.slot = FALSE]

---------------------------------------------------------------------------
(* Frames *)

\* What Zig does with the outcome of its operation: <<"read">> it, finish
\* <<"root", handle, value>>, or <<"return">> from a callback that failed.
ZigFrame == [kind |-> "zig", base |-> Len(arena), scopes |-> <<>>, after |-> <<"read">>]

OpFrame(op, arg) ==
  [kind |-> "op", op |-> op, pc |-> 1, entry |-> Len(arena), arg |-> arg,
   val |-> arg, saved |-> exc, own |-> Nil, refused |-> FALSE]

NoOutcome == [ok |-> TRUE, own |-> Nil, refused |-> FALSE, due |-> Nil]

Top == frames[Len(frames)]
SetTop(f) == frames' = [frames EXCEPT ![Len(frames)] = f]

InZig == escaped = FALSE /\ Top.kind = "zig"
InOp == escaped = FALSE /\ Top.kind = "op"

BodyDone == InOp /\ Top.pc > Len(Top.op.body)
At(kinds) == InOp /\ Top.pc <= Len(Top.op.body) /\ Top.op.body[Top.pc] \in kinds
Advanced(val) == SetTop([Top EXCEPT !.pc = @ + 1, !.val = val])

GuestSteps == {"guest", "call", "load"}
\* Guest code runs; after a callback that left an exception it handles that.
InGuest == At(GuestSteps) /\ exc = Nil

Fresh == IF Cardinality(alive) < OpObjects THEN Objects \ alive ELSE {}

\* The interpreter has the receiver and the arguments of a call on its stack.
OnStack ==
  {frames[i].arg : i \in {j \in DOMAIN frames :
      /\ frames[j].kind = "op" /\ frames[j].pc <= Len(frames[j].op.body)
      /\ frames[j].op.body[frames[j].pc] \in GuestSteps}}

---------------------------------------------------------------------------
(* Calls and returns *)

\* Faulty variant: what an earlier operation left stays pending.
ExceptionKept(op) == exc

ExceptionAtEntry(op) == IF op.clears THEN Nil ELSE exc

Call(op, arg, after) ==
  /\ InZig /\ Top.after[1] = "read" /\ Len(frames) < MaxFrames
  /\ Len(arena) < MaxCallArena
  /\ frames' = Append([frames EXCEPT ![Len(frames)].after = after], OpFrame(op, arg))
  /\ exc' = ExceptionAtEntry(op)
  /\ last' = NoOutcome
  /\ UNCHANGED <<alive, arena, capacity, registered, stored, view, cells, escaped>>

\* Faulty variant: the caller's scope is left as the body was entered.
NothingRooted(f, result) ==
  /\ arena' = ArenaRestored(f.entry)
  /\ UNCHANGED capacity

\* The end of mrb_protect_error: the arena is cut back to its entry and the
\* result, or the exception, is put in the next slot.
ResultRooted(f, result) ==
  IF result = Nil \/ ~f.op.slot
    THEN arena' = ArenaRestored(f.entry) /\ UNCHANGED capacity
    ELSE Protect(ArenaRestored(f.entry), result)

\* mrb->exc as the wrapper leaves it.
ExceptionAtExit(f, result, raised) ==
  IF f.op.keeps THEN f.saved
  ELSE IF raised \/ (f.op.pends /\ exc = Nil) THEN result
  ELSE exc

\* The Boolean a wrapper returns.
Succeeds(f, result, raised) ==
  \/ ~f.op.clears
  \/ /\ ~raised /\ exc = Nil /\ ~f.refused
     /\ f.op.pends => result # Nil

Returned(f, result, raised) ==
  LET own == IF ~f.op.clears THEN Nil ELSE IF raised THEN result ELSE f.own
      ok  == Succeeds(f, result, raised)
  IN  /\ ResultRooted(f, result)
      /\ exc' = ExceptionAtExit(f, result, raised)
      /\ frames' = Front(frames)
      /\ last' = [ok |-> ok, own |-> own, refused |-> f.refused \/ (f.op.pends /\ result = Nil),
                  due |-> IF f.op.keeps THEN f.saved
                          ELSE IF f.op.pends /\ own = Nil THEN result
                          ELSE own]
      /\ UNCHANGED escaped

\* The slot of the result does not fit and the arena cannot grow: the raise of
\* mrb_gc_protect finds no frame of this operation.
PostludeEscapes(f, result) ==
  /\ PostludeMayFail
  /\ result # Nil /\ GrowthRefused(ArenaRestored(f.entry))
  /\ escaped' = TRUE
  /\ UNCHANGED <<arena, capacity, exc, frames, last>>

Ends(result, raised) ==
  Returned(Top, result, raised) \/ PostludeEscapes(Top, result)

Result(f) == IF f.op.gives = "nil" THEN Nil
             ELSE IF f.op.gives = "argument" THEN f.arg
             ELSE f.val

EndBody == /\ BodyDone
           /\ Ends(Result(Top), FALSE)
           /\ UNCHANGED <<alive, registered, stored, view, cells>>

---------------------------------------------------------------------------
(* Steps of a body *)

Raises(e) == /\ Ends(e, TRUE)
             /\ UNCHANGED <<registered, stored, view>>

\* An exception object of its own, which reaches the arena as the result.
RaisesNew(o) ==
  /\ o \in Fresh
  /\ alive' = alive \cup {o}
  /\ UNCHANGED cells
  /\ Raises(o)

OutOfMemory ==
  /\ At({"check", "memory", "object"} \cup GuestSteps)
  /\ exc = Nil \/ ~Top.op.clears
  /\ UNCHANGED <<alive, cells>>
  /\ Raises(NoMem)

Check ==
  /\ At({"check"})
  /\ \/ /\ Advanced(Top.val)
        /\ UNCHANGED <<heapVars, last, escaped>>
     \/ \E o \in Fresh : RaisesNew(o)

Memory ==
  /\ At({"memory"})
  /\ Advanced(Top.val)
  /\ UNCHANGED <<heapVars, last, escaped>>

Object ==
  /\ At({"object"})
  /\ \E o \in Fresh : Allocate(o, Empty) /\ Advanced(o)
  /\ UNCHANGED <<exc, registered, stored, view, last, escaped>>

Read ==
  /\ At({"read"})
  /\ Advanced(stored)
  /\ UNCHANGED <<heapVars, last, escaped>>

Link ==
  /\ At({"link", "unlink"})
  /\ Advanced(Top.val)
  /\ stored' = IF At({"link"}) THEN Top.val ELSE Nil
  /\ UNCHANGED <<alive, arena, capacity, exc, registered, view, cells, last, escaped>>

Register ==
  /\ At({"register"})
  /\ Advanced(Top.val)
  /\ registered' = registered \cup {Top.arg}
  /\ UNCHANGED <<alive, arena, capacity, exc, stored, view, cells, last, escaped>>

Absent ==
  /\ At({"absent"})
  /\ \/ Advanced(Top.val)
     \/ SetTop([Top EXCEPT !.pc = Len(Top.op.body) + 1, !.val = Nil, !.refused = Top.op.strict])
  /\ UNCHANGED <<heapVars, last, escaped>>

---------------------------------------------------------------------------
(* Guest code *)

\* It puts a new object, or nothing, where the host may find it.
GuestStores ==
  /\ InGuest
  /\ \/ stored' = Nil /\ UNCHANGED alive
     \/ \E o \in Fresh : stored' = o /\ alive' = alive \cup {o}
  /\ UNCHANGED <<arena, capacity, exc, registered, view, cells, callVars>>

GuestReturns ==
  /\ InGuest
  /\ \/ /\ \E v \in IF At({"guest"}) THEN {Top.val} ELSE {Nil, stored, Top.arg} : Advanced(v)
        /\ UNCHANGED heapVars
     \/ /\ ~At({"guest"})
        /\ \E o \in Fresh : Allocate(o, Empty) /\ Advanced(o)
        /\ UNCHANGED <<exc, registered, stored, view>>
  /\ UNCHANGED <<last, escaped>>

GuestRaises == InGuest /\ \E o \in Fresh : RaisesNew(o)

\* A program with a syntax error: the exception is pending, nothing is raised.
LoadFails ==
  /\ At({"load"}) /\ exc = Nil
  /\ \E o \in Fresh :
       /\ alive' = alive \cup {o} /\ exc' = o
       /\ SetTop([Top EXCEPT !.pc = @ + 1, !.val = Nil, !.own = o])
  /\ UNCHANGED <<arena, capacity, registered, stored, view, cells, last, escaped>>

CallHost ==
  /\ InGuest /\ Len(frames) + 1 < MaxFrames
  /\ frames' = Append(frames, ZigFrame)
  /\ last' = NoOutcome
  /\ UNCHANGED <<heapVars, escaped>>

\* The callback returns to the interpreter, which cuts the arena back.
ReturnToGuest ==
  /\ InZig /\ Len(frames) > 1
  /\ Top.scopes = <<>> /\ Top.after[1] \in {"read", "return"}
  /\ arena' = ArenaRestored(Top.base)
  /\ frames' = Front(frames)
  /\ UNCHANGED <<alive, capacity, exc, registered, stored, view, cells, last, escaped>>

\* An exception that is pending when a callback returns is raised there: the
\* guest rescues it, or it ends the operation.
GuestHandles ==
  /\ At(GuestSteps) /\ exc # Nil
  /\ \/ /\ exc' = Nil
        /\ UNCHANGED <<alive, arena, capacity, registered, stored, view, cells, callVars>>
     \/ Raises(exc) /\ UNCHANGED <<alive, cells>>

\* An allocation may collect first.
Collect ==
  /\ At({"check", "memory", "object"} \cup GuestSteps)
  /\ CollectGarbage(OnStack)
  /\ UNCHANGED callVars

OpNext ==
  \/ EndBody \/ OutOfMemory \/ Check \/ Memory \/ Object \/ Read \/ Link \/ Register
  \/ Absent \/ GuestStores \/ GuestReturns \/ GuestRaises \/ LoadFails \/ CallHost
  \/ ReturnToGuest \/ GuestHandles \/ Collect
=============================================================================
