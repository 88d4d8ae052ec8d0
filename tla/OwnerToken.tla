----------------------------- MODULE OwnerToken -----------------------------
(***************************************************************************)
(* Who pays for an allocation (src/alloc.zig).  Every mruby allocation     *)
(* carries a header that names the owner token of the isolate cell charged *)
(* for it.  A thread attributes its allocations to the cell on top of its  *)
(* stack of attribution guards; a block keeps its owner when it is resized *)
(* under another cell, and an unowned block is adopted.                    *)
(*                                                                         *)
(* A block may escape its isolate in a Vm that a host callback opened.     *)
(* That Vm may run on another thread, and outlive the isolate; the token   *)
(* is reference-counted for that reason.  One call of mrb_basic_alloc_func *)
(* locks the token once to check the caps and once to account, with the    *)
(* backing allocator and the limit callback in between.                    *)
(*                                                                         *)
(* Left out: the process-wide counters and the peak (statistics), the size *)
(* of the header and the contents of a block, the check that size plus     *)
(* header fits usize, and the bootstrap's own allocations, which only      *)
(* shift live_bytes and the caps.                                          *)
(***************************************************************************)
EXTENDS Naturals, Sequences, FiniteSets, Functions

CONSTANTS
  Threads, Cells, Blocks,
  MaxSize,        \* bound on the size of a request
  MaxNesting,     \* bound on nested attribution guards
  SoftCap,        \* IsolateCell.soft_cap; a cap out of reach stands for null
  HardCap,        \* IsolateCell.hard_cap
  NoCell, NoBlock

ASSUME OwnerTokenAssumption ==
  /\ MaxSize \in Nat /\ MaxNesting \in Nat
  /\ SoftCap \in [Cells -> Nat] /\ HardCap \in [Cells -> Nat]
  /\ NoCell \notin Cells /\ NoBlock \notin Blocks
  /\ IsFiniteSet(Threads) /\ IsFiniteSet(Blocks)

VARIABLES
  attached,      \* OwnerToken.cell is not null: the isolate is not retired
  refs,          \* OwnerToken.refs; the token is destroyed at 0
  live_bytes,
  live_allocs,
  oom_bits,
  noted,         \* the isolate's termination record holds the memory cause
  header,        \* AllocationHeader of each block
  attribution,   \* each thread's guards, the innermost first
  call,          \* each thread's call of mrb_basic_alloc_func
  overlap        \* history: a call was admitted while another one was between
                 \* admission and accounting on the same cell

cellVars == <<attached, refs, live_bytes, live_allocs, oom_bits, noted>>
vars == <<cellVars, header, attribution, call, overlap>>

Owners == Cells \cup {NoCell}
Headers == [size: 0 .. MaxSize, owner: Owners]
NoHeader == [size |-> 0, owner |-> NoCell]

\* "notify": refused, the callback is due; "backing": admitted; "account": the
\* header is written; "release": the block is freed, its owner not yet told.
Stages == {"idle", "notify", "backing", "account", "release"}
Calls == [at: Stages, block: Blocks \cup {NoBlock}, old: Headers,
          size: 0 .. MaxSize, owner: Owners]
Idle == [at |-> "idle", block |-> NoBlock, old |-> NoHeader, size |-> 0,
         owner |-> NoCell]

TypeOK ==
  /\ attached \in [Cells -> BOOLEAN]
  /\ refs \in [Cells -> 0 .. Cardinality(Blocks) + 1]
  /\ live_bytes \in [Cells -> 0 .. MaxSize * Cardinality(Blocks)]
  /\ live_allocs \in [Cells -> 0 .. Cardinality(Blocks)]
  /\ oom_bits \in [Cells -> SUBSET {"soft", "hard"}]
  /\ noted \in [Cells -> BOOLEAN]
  /\ header \in [Blocks -> Headers]
  /\ attribution \in [Threads -> Seq(Cells)]
  /\ call \in [Threads -> Calls]
  /\ overlap \in [Cells -> BOOLEAN]

\* initOwnership: the live cell owns one reference.
Init ==
  /\ attached = [c \in Cells |-> TRUE]
  /\ refs = [c \in Cells |-> 1]
  /\ live_bytes = [c \in Cells |-> 0]
  /\ live_allocs = [c \in Cells |-> 0]
  /\ oom_bits = [c \in Cells |-> {}]
  /\ noted = [c \in Cells |-> FALSE]
  /\ header = [b \in Blocks |-> NoHeader]
  /\ attribution = [t \in Threads |-> <<>>]
  /\ call = [t \in Threads |-> Idle]
  /\ overlap = [c \in Cells |-> FALSE]

\* Saturating subtraction.
Minus(x, y) == IF x >= y THEN x - y ELSE 0

\* Faulty variant: an unowned or foreign block is taken off the cell's account.
SizeAlone(old, c) == old.size

\* What cell c was charged for a block with this header.
Charged(old, c) == IF old.owner = c THEN old.size ELSE 0

\* Faulty variant: the caps are compared with the usage before the request.
LiveBefore(old, size, c) == live_bytes[c]

ProjectedLive(old, size, c) == Minus(live_bytes[c], Charged(old, c)) + size

\* Faulty variant: an adopted or new header takes no reference.
NeverAcquires(old, owner) == FALSE

\* acquire_header_ref.
Acquires(old, owner) == owner # NoCell /\ old.owner = NoCell

CurrentOwner(t) == IF attribution[t] = <<>> THEN NoCell ELSE Head(attribution[t])

OwnerOf(t, old) == IF old.owner # NoCell THEN old.owner ELSE CurrentOwner(t)

\* A block belongs to one Vm, which runs on one thread at a time.
Untouched(b) == \A t \in Threads : call[t].block # b

Admitted(t, c) == call[t].at \in {"backing", "account"} /\ call[t].owner = c

----------------------------------------------------------------------------
(***************************************************************************)
(* Attribution and the end of an isolate.                                  *)
(***************************************************************************)
\* An isolate runs on one thread at a time, where its guards may nest.
PushIsolate(t, c) ==
  /\ call[t] = Idle
  /\ attached[c]
  /\ Len(attribution[t]) < MaxNesting
  /\ \A u \in Threads \ {t} : \A i \in DOMAIN attribution[u] : attribution[u][i] # c
  /\ attribution' = [attribution EXCEPT ![t] = <<c>> \o @]
  /\ UNCHANGED <<cellVars, header, call, overlap>>

RestoreIsolate(t) ==
  /\ call[t] = Idle
  /\ attribution[t] # <<>>
  /\ attribution' = [attribution EXCEPT ![t] = Tail(@)]
  /\ UNCHANGED <<cellVars, header, call, overlap>>

\* retireOwnership, after which IsolateState.deinit destroys the isolate.
Retire(c) ==
  /\ attached[c]
  /\ \A t \in Threads : \A i \in DOMAIN attribution[t] : attribution[t][i] # c
  /\ attached' = [attached EXCEPT ![c] = FALSE]
  /\ refs' = [refs EXCEPT ![c] = @ - 1]
  /\ UNCHANGED <<live_bytes, live_allocs, oom_bits, noted, header, attribution,
                 call, overlap>>

----------------------------------------------------------------------------
(***************************************************************************)
(* mrb_basic_alloc_func(p, size).                                          *)
(***************************************************************************)
Enter(t, b, size, stage) ==
  call' = [call EXCEPT ![t] = [at |-> stage, block |-> b, old |-> header[b],
                               size |-> size, owner |-> OwnerOf(t, header[b])]]

\* prepare, under the token lock.  The block is new or has a header.
Admit(t, b, size) ==
  LET old == header[b]
      c   == OwnerOf(t, old)
  IN
  /\ call[t] = Idle /\ Untouched(b)
  /\ c \in Cells /\ attached[c] =>
       /\ "hard" \notin oom_bits[c]
       /\ ProjectedLive(old, size, c) <= HardCap[c]
       /\ ProjectedLive(old, size, c) <= SoftCap[c]
  /\ refs' = IF Acquires(old, c) THEN [refs EXCEPT ![c] = @ + 1] ELSE refs
  /\ overlap' = IF \E u \in Threads : c \in Cells /\ Admitted(u, c)
                  THEN [overlap EXCEPT ![c] = TRUE] ELSE overlap
  /\ Enter(t, b, size, "backing")
  /\ UNCHANGED <<attached, live_bytes, live_allocs, oom_bits, noted, header,
                 attribution>>

\* A cap is crossed: noteOom publishes it and the call fails.  Once the hard cap
\* was crossed a call fails and changes nothing.
Refuse(t, b, size) ==
  LET old == header[b]
      c   == OwnerOf(t, old)
      cap == IF ProjectedLive(old, size, c) > HardCap[c] THEN "hard" ELSE "soft"
  IN
  /\ call[t] = Idle /\ Untouched(b)
  /\ c \in Cells /\ attached[c]
  /\ "hard" \notin oom_bits[c]
  /\ \/ ProjectedLive(old, size, c) > HardCap[c]
     \/ ProjectedLive(old, size, c) > SoftCap[c]
  /\ oom_bits' = [oom_bits EXCEPT ![c] = @ \cup {cap}]
  /\ Enter(t, b, size, "notify")
  /\ UNCHANGED <<attached, refs, live_bytes, live_allocs, noted, header,
                 attribution, overlap>>

\* Faulty variant: a refusal on a thread that does not run the isolate is dropped.
NotifyAttributed(t) ==
  /\ call[t].at = "notify"
  /\ noted' = IF CurrentOwner(t) = call[t].owner
                THEN [noted EXCEPT ![call[t].owner] = TRUE] ELSE noted
  /\ call' = [call EXCEPT ![t] = Idle]
  /\ UNCHANGED <<attached, refs, live_bytes, live_allocs, oom_bits, header,
                 attribution, overlap>>

\* The callback (allocatorLimit), outside the lock: it writes to the isolate.
Notify(t) ==
  /\ call[t].at = "notify"
  /\ noted' = [noted EXCEPT ![call[t].owner] = TRUE]
  /\ call' = [call EXCEPT ![t] = Idle]
  /\ UNCHANGED <<attached, refs, live_bytes, live_allocs, oom_bits, header,
                 attribution, overlap>>

\* Faulty variant: the reference taken for the header is not given back.
ReferenceKept(t) == UNCHANGED refs

ReleaseUncommitted(t) ==
  refs' = IF Acquires(call[t].old, call[t].owner)
            THEN [refs EXCEPT ![call[t].owner] = @ - 1] ELSE refs

\* The backing allocator fails: a resized block stays as it was.
BackingFails(t) ==
  /\ call[t].at = "backing"
  /\ ReleaseUncommitted(t)
  /\ call' = [call EXCEPT ![t] = Idle]
  /\ UNCHANGED <<attached, live_bytes, live_allocs, oom_bits, noted, header,
                 attribution, overlap>>

\* The block is allocated, remapped or moved, and its header written.
WriteHeader(t) ==
  /\ call[t].at = "backing"
  /\ header' = [header EXCEPT ![call[t].block] =
                  [size |-> call[t].size, owner |-> call[t].owner]]
  /\ call' = [call EXCEPT ![t] = IF @.owner = NoCell
                                   THEN Idle ELSE [@ EXCEPT !.at = "account"]]
  /\ UNCHANGED <<cellVars, attribution, overlap>>

\* accountNew and accountResize.
Account(t) ==
  LET c == call[t].owner IN
  /\ call[t].at = "account"
  /\ IF attached[c]
       THEN /\ live_bytes' = [live_bytes EXCEPT ![c] =
                 Minus(@, Charged(call[t].old, c)) + call[t].size]
            /\ live_allocs' = IF call[t].old.owner = c THEN live_allocs
                              ELSE [live_allocs EXCEPT ![c] = @ + 1]
       ELSE UNCHANGED <<live_bytes, live_allocs>>
  /\ call' = [call EXCEPT ![t] = Idle]
  /\ UNCHANGED <<attached, refs, oom_bits, noted, header, attribution, overlap>>

\* size = 0: the block is freed before its owner is told.
Free(t, b) ==
  /\ call[t] = Idle /\ Untouched(b)
  /\ header[b] # NoHeader
  /\ header' = [header EXCEPT ![b] = NoHeader]
  /\ IF header[b].owner = NoCell THEN UNCHANGED call ELSE Enter(t, b, 0, "release")
  /\ UNCHANGED <<cellVars, attribution, overlap>>

\* releaseAllocation.
Release(t) ==
  LET c == call[t].owner IN
  /\ call[t].at = "release"
  /\ IF attached[c]
       THEN /\ live_bytes' = [live_bytes EXCEPT ![c] = Minus(@, call[t].old.size)]
            /\ live_allocs' = [live_allocs EXCEPT ![c] = Minus(@, 1)]
       ELSE UNCHANGED <<live_bytes, live_allocs>>
  /\ refs' = [refs EXCEPT ![c] = @ - 1]
  /\ call' = [call EXCEPT ![t] = Idle]
  /\ UNCHANGED <<attached, oom_bits, noted, header, attribution, overlap>>

Next ==
  \/ \E t \in Threads, c \in Cells : PushIsolate(t, c)
  \/ \E t \in Threads : RestoreIsolate(t)
  \/ \E c \in Cells : Retire(c)
  \/ \E t \in Threads, b \in Blocks, size \in 1 .. MaxSize : Admit(t, b, size)
  \/ \E t \in Threads, b \in Blocks, size \in 1 .. MaxSize : Refuse(t, b, size)
  \/ \E t \in Threads : Notify(t)
  \/ \E t \in Threads : BackingFails(t)
  \/ \E t \in Threads : WriteHeader(t)
  \/ \E t \in Threads : Account(t)
  \/ \E t \in Threads, b \in Blocks : Free(t, b)
  \/ \E t \in Threads : Release(t)

Spec == Init /\ [][Next]_vars

----------------------------------------------------------------------------
(***************************************************************************)
(* Properties.                                                             *)
(***************************************************************************)
\* The header an account still counts for block b: the one before the call that
\* is at work on b, or the block's own.
Counted(b) ==
  IF Untouched(b) THEN header[b]
  ELSE call[CHOOSE t \in Threads : call[t].block = b].old

Holding(c) == {b \in Blocks : Counted(b).owner = c}

\* The account of a live cell is what its blocks cost, each counted for the cell
\* that first paid for it, through adoption, foreign resizes and frees on other
\* threads (accountNew, accountResize, release).
LedgerExact ==
  \A c \in Cells : attached[c] =>
    /\ live_allocs[c] = Cardinality(Holding(c))
    /\ live_bytes[c] = SumFunctionOnSet([b \in Blocks |-> Counted(b).size], Holding(c))

\* A token's references are its live cell, the headers that name it and the
\* references taken for headers still to be written: so it is destroyed with the
\* last of these, neither earlier nor never.
RefsExact ==
  \A c \in Cells :
    refs[c] = (IF attached[c] THEN 1 ELSE 0)
              + Cardinality(Holding(c))
              + Cardinality({t \in Threads :
                               Admitted(t, c) /\ call[t].old.owner = NoCell})

\* No thread locks a token that was destroyed: not the call that is under way,
\* not the resize or free of a block that still names it.
TokenOutlivesUse ==
  \A c \in Cells : refs[c] = 0 =>
    /\ \A t \in Threads : call[t].at \notin {"idle", "notify"} => call[t].owner # c
    /\ \A b \in Blocks : header[b].owner # c
    /\ \A t \in Threads : CurrentOwner(t) # c

\* Without overlapping calls a cell never exceeds its caps (prepare).
CapsHeld ==
  \A c \in Cells : attached[c] /\ ~overlap[c] =>
    live_bytes[c] <= SoftCap[c] /\ live_bytes[c] <= HardCap[c]

\* A published refusal becomes a recorded memory cause, at the latest by the
\* callback that is still due.
RefusalReported ==
  \A c \in Cells : oom_bits[c] # {} =>
    noted[c] \/ \E t \in Threads : call[t].at = "notify" /\ call[t].owner = c

=============================================================================
