# A formal model of mruby-zig's sandbox and workers

mruby-zig embeds mruby behind a Zig API, runs guest code in resource-limited *isolates*,
and, one tier further out, in helper *processes*. This directory holds TLA+ modules that
model these parts, TLC configurations that check them on small instances, and TLAPS proofs
of the core properties for every value of the constants. `PROJECT.json` maps each
definition to the lines it models and lists runs, mutants, findings and hazards.

Check a module with `tlc -config X.cfg M`, a proof with `tlapm M.tla`.

## The system

| Component | Source | State it keeps | Operations | Talks to |
|---|---|---|---|---|
| Isolate | `src/sandbox.zig` (`IsolateState`) | operation lock, phase, capability state, seal, termination record, `lastError` view, last gas snapshot | run/call/runRite, seal, terminate, export/importValue, clearError, attributed host operations | gas meter, hook, allocator; called by any host thread |
| Gas meter | `src/gas.zig` | active, used, remaining, exhausted | observeFetch, chargeFetch, nextGeneration, finishGeneration, snapshot | called by the hook and by the isolate |
| Instruction hook | `src/sandbox.zig` (`fetchHook`), `src/shim.c` | armed delivery, grace, uncovered waits, clock countdown | one call per fetched opcode | reads the causes other threads write; raises into mruby |
| Allocator accounting | `src/alloc.zig` | per-cell `OwnerToken` (live bytes, references, caps), allocation headers, thread-local attribution | prepare, account, release, retire, push/restore | limit callback into the isolate |
| One-shot worker | `src/worker.zig`, `src/worker_spawn.c`, `src/cgroup.zig`, `tools/mruby_worker.zig` | child, two pipes, writer task, deadline, cgroup leaf | runRite | kernel processes, pipes, signals |
| Worker session | `src/worker.zig` (`Session`), helper loop | the same, over many exchanges; broken, busy, requests | start, runRite, fail, deinit | as above |
| Worker pool | `src/worker.zig` (`Pool`) | free list of session indices | init, acquire, release, deinit | sessions |
| CodeDB loader | `src/sandbox.zig` (`loadCodeDB`), `src/codedb.zig`, `build/codedb_graph.zig` | bound manifest, loaded set, poisoned flag; the build-time order | loadCodeDB; graph sort | the isolate |
| Root registry | `src/arena.zig` | reference count per object identity | add, release | the VM's GC roots |
| Worker protocol | `src/worker_protocol.zig` | none (codec) | encode, decode, split | worker and helper |
| Artifacts, StateCapsule | `src/artifact.zig`, `src/artifact_value.zig`, `src/shim.c` | none (codec); the graph under construction | encode, parse, validate, materialize | import and export of the isolate |
| seccomp profile | `src/seccomp.zig` | none (a BPF program) | install | kernel |
| Safe VM layer | `src/vm.zig`, `value.zig`, `convert.zig`, `class.zig`, `data.zig`, `error.zig`, `src/shim.c` | the arena, the pending exception, the objects of the mruby state | the protected operations, callbacks, scopes | mruby |
| Build and packaging | `build.zig`, `build/` | none | gem selection, identities | build time only |

**What is hard here.** Any thread may call `terminate()` or run out of memory on the
isolate's account at any moment, while its owner is between two reads of the same record.
A result has to be chosen among several causes, some of which guest code has rescued.
Per-execution gas is forgiven between executions, everything else is not. Blocks outlive the
isolate that paid for them. A worker call has a concurrent writer, a child that may crash,
hang, answer early or leave descendants, a deadline, and a competing reaper that it can only
detect. A session keeps two streams in step over many exchanges. And every operation on a VM is
C that can raise at any allocation, between Zig frames that a raise must not skip and a collector
that sees only the roots it was told of.

**What makes each part correct.**

* Isolate: one user at a time and no exit that leaves it unusable; a cause that was accepted
  is reported, never outranked by guest behaviour, never forgotten, and no guest code starts
  after it; gas is forgiven only where the policy says so; a failed seal is final.
* Hook: a cause is raised within the documented budgets; handlers get their grace; the
  execution then ends.
* Allocator: the ledger equals the blocks, a token lives exactly as long as something names
  it, the caps hold, a refusal is reported.
* Worker and session: the call returns; child, descendants, pipes and leaf are gone; no
  process is signalled that the last probe did not show to be ours; a report is never made of a torn
  reply, nor of another exchange's; a session whose transport or framing failed is closed for good.
* Safe VM layer: what Zig or C holds is not collected; an operation's outcome is its own; the
  arena is as the caller left it but for one slot; a raise ends in C. An import builds the
  capsule's graph or nothing.
* CodeDB: dependencies first, in one order for one graph; every initializer at most once, and no
  load after one that failed.

## Modules

| Module | Models | State and actions |
|---|---|---|
| `Gas` | `gas.zig` | a meter is a record; each operation of `Meter` is a function on meters |
| `FetchHook` | termination record, `fetchHook`, arbitration of causes | EXTENDS `Gas`. `termination_bits`, `oom_bits`, `deadline`, delivery fields as in `IsolateState`; `FetchRaises` and `FetchContinues` are the two outcomes of a hook call; `NoteScript`, `ClockPasses`, `CapCrossed`, `LimitCallback` are what other threads do |
| `Isolate` | `IsolateState` | EXTENDS `FetchHook`. Each thread has a stage `pc`; a step ends where the code touches something another thread can write. `due` and `late` are history: the causes on record at admission, and those noted since. `Enter` … `Leave` is `enterExecution`, `EnterHost` … `LeaveHost` is `hostOperation`, `BootstrapFetch` the window before seal |
| `Delivery` | one body under the hook, with mruby's handlers | EXTENDS `FetchHook`. A stack of entered regions; the interpreter alternates fetch and execute and unwinds to the innermost handler, as `mrz_pc_catchable` sees it |
| `OwnerToken` | `alloc.zig` | per cell the token, per block the header, per thread the guards and the stage of one `mrb_basic_alloc_func` call: `Enter`, `Admit`/`Refuse`, `Notify`, `WriteHeader` or `BackingFails`, `Account`, `Free`, `Release`, `Retire` |
| `Worker` | one-shot `runRite`, its writer, the helper, descendants, kernel | `ctl` is the place in `runRiteInner`, `task` the writer, `stage` the helper's; environment actions for crash, reaper, deadline and the controller's death. `VerifyOwnership` is the probe of `terminateOwnedProcessGroup`, and `KillAfterFailure`, `KillGroup` or `TerminateAndReap` the signals that follow it in a step of their own |
| `SessionService` | what a session promises (abstract) | status, completed exchanges, last answer; `Undecodable` is the protocol failure that closes no session (finding 4) |
| `Session` | `Session` and the helper's loop | as `Worker`, with parts of requests counted and responses queued over many exchanges; `VerifyOwnership`, `HardKillGroupAndChild`, `Reap` are `terminateAndReap` for `start`, `fail` and `deinit`; implements `SessionService` |
| `VmHeap` | the heap as `shim.c` meets it | live objects, the arena, `mrb->exc`, registered roots, one guest variable, the error view; a collection keeps what is reachable |
| `SafeCall` | the protected operations of `shim.c` (all but the bootstrap wrapper) | EXTENDS `VmHeap`. A stack of Zig frames and operations; an operation is the list of its body's steps that touch the heap or can raise, and `Call` … `Returned` is `mrz_protect_result` around it |
| `Materialize` | `mrz_artifact_materialize` | EXTENDS `SafeCall`. Validation, shells, edges, defaults, freezing and the root of a normalized graph, one decoded reference a step |
| `SafeVm` | the host: `vm.zig`, `RootRegistry`, scopes, error details, callbacks that fail | EXTENDS `Materialize`. `Root`/`RootReturns`, `Unroot`, `OpenScope`, `CloseScope`, `CaptureErrorView`, `FailCallback`, ... |
| `CodeGraph` | `build/codedb_graph.zig` | `Order` and its parts as functions on sequences of nodes, and a reference: cycles, linearizations and their dictionary order |
| `CodeDB` | a CodeDB from declaration to isolate | EXTENDS `CodeGraph`. `Build` is `order` and `compileGraph`, `Refuse`/`Begin` … `Succeed`/`Fail` is `loadCodeDB` |
| `MCIsolate`, `MCDelivery`, `MCOwnerToken`, `MCSafeVm`, `MCCodeDB` | instances for TLC | policies, caps, graphs and symmetry sets |
| `IsolateProofs`, `DeliveryProofs`, `OwnerTokenProofs`, `WorkerProofs`, `SessionProofs`, `SafeVmProofs`, `SafeVmRootProofs`, `CodeDBProofs` | theorems | see *Proofs* |

`Isolate` and `Delivery` share `FetchHook`: the first lets guest code be arbitrary between
two hook calls and studies what surrounds a body, the second studies what happens within one.
`OwnerToken` is the other side of `MemoryCapCrossed` and `MemoryLimitCallback` of `Isolate`.
`SafeVm` is the inside of what `Isolate` calls a body or a host operation: it has one thread,
which the lock of `Isolate` provides, and no policies. `CodeDB` sees one outer execution of
`Isolate` as a preflight, a body of initializers and an end that may still fail.

Conventions: an operator whose comment says *Faulty variant* is never used by the
specification; it is the plausible bug that shows that a property can fail.

## Runs

| Run | Result | Shows |
|---|---|---|
| `isolate` (`Isolate.cfg`) | passes, 385,812 states | two threads, one nested entry, two gas generations, gas limit 1, three policies that cover the three gas scopes with different other limits |
| `delivery` (`Delivery.cfg`) | passes, 137,671 states | nesting 3, two protected regions, gas limit, grace and waits of 2 |
| `owner_token` (`OwnerToken.cfg`) | passes, 658,334 states | two threads, two cells, two blocks, sizes to 2, two guards deep |
| `worker` (`Worker.cfg`) | passes, 77,833 states | one exchange; no bound is needed |
| `session` (`Session.cfg`) | passes, 123,577 states | two exchanges; safety, `HelperEnds`, and the refinement `IsSession` |
| `safe_vm` (`SafeVm.cfg`) | passes, 732,269 states | all modelled operations, two handles, a callback within a guest call, an arena of one slot that grows to three, twelve graphs of up to three nodes |
| `code_db` (`CodeDB.cfg`) | passes, 141,114 states | the 512 graphs of three modules in each order of declaration, invalid and larger ones, two manifests, loads of one entrypoint after another |
| `isolate_import`, `delivery_reentry`, `worker_leaf`, `session_protocol`, `safe_vm_postlude` | counterexample | see *Findings* |

Properties of the passing runs, in short:

* `isolate` — `ExclusiveUse`, `FreeLockIsIdle` (admission), `StickyCauses`, `DoomedNeverRuns` (of causes
  pending at admission and of those recorded at any step from there to the body),
  `CauseSurfaces`, `ErrorViewHonest` (causes and results), `GasLedger`,
  `RenewableGasConfined`, `ArmedHasCause` (gas), `SealFailureIsFinal`.
* `delivery` — `PromptDelivery` and `GraceHonoured` bound the delay from both sides,
  `DoomedExecutionEnds` is the liveness they are for.
* `owner_token` — `LedgerExact`, `RefsExact`, `TokenOutlivesUse`, `CapsHeld` (while no two
  calls overlap on a cell), `RefusalReported`.
* `worker` — `ReapedOnReturn`, `DescriptorsClosed`, `NoStraySignal` (a number whose process was reaped
  is signalled only if the other reaper came between `waitid` and `kill`, a window that the code has
  and its caller must exclude), `KillSparesFinished`, `ReportIsWhole`, and the liveness `RunReturns` and
  `OrphanEnds`.
* `session` — `InStep`, `OwnAnswer`, `NothingLeft` (which failures close a session, and what is left of
  a closed one and after `deinit`), `HelperEnds`, `IsSession`.
* `safe_vm` — `NoDangling` (whatever Zig, C, the registry or an unfinished graph refers to is
  alive), `RootsExact`, `OwnOutcome` (an operation fails exactly if it failed itself, and the
  pending exception is its own), `ArenaBalanced`, `FramesIntact` (here without the refusal of
  `safe_vm_postlude`, so that it is about the outer frame of an import), `ImportFaithful`.
* `code_db` — `OrderSound` (the least linearization, or an edge on a cycle), `LoadsInOrder`,
  `LoadedOrPoisoned`.

`TypeOK` is a property of `isolate`, where a theorem rests on it; the other modules state it
for the reader.

**Why the bounds are enough.** Two threads already give every interleaving of an owner with
one other thread, and the lock excludes a third; the theorems below remove the bound. One
unit of gas puts both sides of the exhaustion boundary next to each other; two generations
show what one leaves to the next. In `Delivery` a budget of two distinguishes "drawn down"
from "spent", and nesting three holds a handler within a handler within a call.
In `OwnerToken` two blocks of up to two bytes cross a soft cap of 2 and a hard cap of 3, and
every pair of calls on one block or one cell occurs. In `Session` a second exchange is what
can meet something left behind by the first. In `SafeVm` an arena that is full after one slot meets
its growth in every operation and import. Operations allocate while fewer than `OpObjects` (2)
objects are alive, an operation is called with at most `MaxCallArena` (2) slots in use and one
other holder of an object (`MaxHolders`), so what an operation fails to root is soon the only
reference to an object that the next collection takes. Callbacks use one operation that raises
and one that fails (`CallbackOperations`); the others differ from these in steps that the host
frame below already meets. Handles are made, and one scope is opened, in the outermost frame. An
import starts with no other holder, because its graph fills the heap; the graphs contain a
self-reference, an alias, a default, each kind of key, equal keys of both kinds, and each way to
be refused. `SafeVm.cfg` does not check for deadlock, as a call may meet the bound on the arena;
`CodeDB.cfg` does not either, as a build that was refused is final. In `CodeDB` three modules hold
every shape of a cycle and of a diamond's halves; the larger graphs add the diamond and a node
that merely depends on a cycle.

**Fairness.** `Isolate`, `OwnerToken`, `SafeVm` and `CodeDB` have safety properties only. `Delivery` assumes that
the interpreter keeps stepping (a native method that never returns is outside the hook's
reach). `Worker` and `Session` assume that the controller's threads run (its steps, the writer
task), that the kernel finishes tearing a process down, and that the clock reaches a deadline;
**nothing** is assumed of a helper while its controller lives. For an orphan it is assumed that
the process is scheduled and that endless guest code meets `RLIMIT_CPU`, which is what
`docs/workers.md` claims and no more.

Only `OwnerToken`, `Isolate` and `SafeVm` use symmetry, for sets their specifications treat uniformly,
and only with safety properties.

## Proofs

TLAPS proves the safety properties of the runs for every value of the constants; what is left to
TLC is named at the end. What is assumed of the constants are the named assumptions of the
modules: numbers are naturals of the right sign, sets that the code keeps finite are finite,
marks such as `NoCell` or `Released` are not members of the sets they are told apart from, policies and
graphs are records of the right shape. TLC evaluates each of them on every instance. Only
`FramesIntactHolds` has a further hypothesis.

Almost none of the properties is inductive. They speak of a return, of an idle moment, of the end of
an execution, and what holds there was arranged several steps before; so each proof has an invariant
that says what holds at every stage on the way. A step lemma shows action by action that it is
kept, and one temporal step closes the proof.

| Theorems | Module | Invariant, and why it is needed |
|---|---|---|
| `TypeCorrect` | `IsolateProofs` | `TypeOK`, inductive as it stands; `FetchType` and `CauseTypes` carry the hook |
| `ExclusiveUseHolds`, `FreeLockIsIdleHolds` | `IsolateProofs` | `Exclusion`: the holder is the thread in an operation, the phase is that of its stage, attribution is confined to the bracket. That an exit leaves the phase idle needs the phase of every stage before it |
| `GasLedgerHolds`, `ArmedHasCauseHolds`, `RenewableGasConfinedHolds` | `IsolateProofs` | `GasInv`: an active renewable meter means that some thread is between renewal and the end of an execution, an inactive one has left no gas cause; `MeterSteps` and `FetchKeepsGas` are the lemmas on the meter and the hook |
| `StickyCausesHold`, `DoomedNeverRunsHolds`, `CauseSurfacesHolds` | `IsolateProofs` | `DueInv`: the causes a call must answer for stay on record until a check reports them, and stages past a check are reached only without them. `LateInv`, for `DoomedNeverRuns`: a cause noted since the admission is on record until the last check, which the body is entered through, finds nothing on record |
| `ErrorViewHonestHolds` | `IsolateProofs` | `ViewInv`: from preflight until capture there is no view, and a call that captures has been arbitrated to `RubyException` |
| `SealFailureIsFinalHolds` | `IsolateProofs` | `SealInv`: a failed seal left an obstacle (a cause that no policy forgives, or failed capabilities), and a seal that is about to report success found none |
| `PromptDeliveryHolds`, `GraceHonouredHolds` | `DeliveryProofs` | `DeliveryInv`: a ledger. Each fetch a cause has waited for was paid for by the grace, by a wait at an uncovered program counter, or by the fetch that armed the delivery |
| `LedgerExactHolds`, `RefsExactHolds`, `TokenOutlivesUseHolds`, `CapsHeldHolds`, `RefusalReportedHolds` | `OwnerTokenProofs` | `TokenInv`: what a call knows of the header it copied, at each stage, and that no two calls work on one block |
| `ReapedOnReturnHolds`, `DescriptorsClosedHolds`, `NoStraySignalHolds`, `KillSparesFinishedHolds`, `ReportIsWholeHolds` | `WorkerProofs` | `WorkerInv`: writer, child, pipes, failures and response at every place of `runRite`. Its part `SignalInv` carries what a probe saw to the signals: after it the child stays waitable for, or the other reaper was there in between |
| `InStepHolds`, `OwnAnswerHolds`, `NothingLeftHolds` | `SessionProofs` | `SessionInv`: parts of requests are counted; the helper is at work on the last request that was begun, since the next one is begun only when its answer was read |
| `SessionImplementsService` | `SessionProofs` | from `SessionInv`: every initial state and every step of `Session` is one of `SessionService`, or none, under the mapping of `IsSession` |
| `RootsExactHolds`, `OwnOutcomeHolds` | `SafeVmProofs` | `VmInv`: Zig frames and operations alternate, each frame has the arena slots it found, what is pending is what the top frame raised or was told, an entry of the registry counts handles and a first handle is made by one operation alone |
| `ArenaBalancedHolds` | `SafeVmProofs` | `VmInv` and `ImportInv`, which follows an import through its phases; the property is about the steps that leave a frame |
| `FramesIntactHolds` | `SafeVmProofs` | from the specification with the hypothesis `~PostludeMayFail`: the allocator does not refuse the slot of an operation's result. `safe_vm_postlude` shows that without it the property is false (finding 5); the theorem says that there is no second way |
| `NoDanglingHolds` | `SafeVmRootProofs` | `RootInv`, next to `VmInv` and `ImportInv`: the roots and what live objects refer to are alive, and everything a frame will still use is in a root or in an object that is. See below |
| `ImportFaithfulHolds` | `SafeVmRootProofs` | `BuiltInv`, next to `RootInv`: the table has one shell of the right kind for every node resolved so far, and each node that was passed is filled, edge by edge, with what the graph says. See below |
| `LoadedOrPoisonedHolds` | `CodeDBProofs` | `LoaderInv`: within a load, what was started is what is loaded and the initializer that runs, and the images still to run were never started |
| `OrderSoundHolds` | `CodeDBProofs` | no state but the declaration is involved; `SlotInv` says what the slots are after each round of `Filled`, and `WalkReturns` that the walk of `CycleEdge` meets itself. See below |
| `LoadsInOrderHolds` | `CodeDBProofs` | `ManifestInv` (dependencies are earlier entries and account for all edges) and `ClosureInv`: what is loaded needs nothing else, nor does it together with what is being loaded; the least index that is left to run therefore has all it needs |

In `OwnerToken` the live bytes are a sum over blocks. `MapThenSumSet` is a recursive definition,
so `OwnerTokenProofs` first shows that its sum is the number of units (pairs of a block and one of its bytes) charged
to the cell. That is an induction over finite sets, which the library's rule cannot be
instantiated for; it is carried out as an argument by the smallest counterexample, taken from the
well-ordering of the naturals. What a step does to the sum is then what it does to a cardinality.

`NoDangling` speaks of the frames of Zig and C, which the collector does not see, so `RootInv` names
the root behind each of their references. An operation that waits for guest code has its argument
registered or below the arena index it found, and the value at hand below the index of the frame it
called (`Secured`); those slots stay, because whatever runs in between cuts the arena no lower than its own
entry. The operation on top may besides hold what it has just read from a guest variable
(`OpRooted`): no step that follows a read in a body links, unlinks or runs guest code, which
`SafeVmProofs` shows of every operation (`BodySane`). An import has its table in the arena, an object in the table for every
node whose shell was built, and its values at hand in the arena or in the table (`ImportRooted`). For
those the graph has to be valid and its pairs of edges aligned, which is part of the invariant. That a
collection keeps all of this is `ReachableCloses`: the set reached in as many steps as there are objects is
closed under references, as each step before that adds an object. That recursion, too, is
treated by a least counterexample (`LeastElement`, `UpTo`). TLC checked `RootInv` on every state of `safe_vm`.

`ImportFaithful` is about the contents of those objects. `BuiltInv` follows an import through
its phases: which nodes have a shell, which are filled, and what is at hand for the edge that is being
resolved (`Listed`, `Filled`, `AtHand`). The rest of the proof is about the other steps: an
object that only an unfinished import refers to is written by no operation, so what was built
stays (`FilledStill`, `DenotesStill`), and a fresh object is none of those in the table. TLC
checked `BuiltInv` on every state of `safe_vm`, too.

`OrderSound` and `LoadsInOrder` rest on four recursive functions: the slots of the order, the walk
into a cycle, what is reachable from a name, and the marks of a closure. The prover has no rule for a recursive
definition, nor for induction over one; `IteratesExist` shows that such a function exists and meets its
equation, and `UpTo` carries a fact from each round to the next. On the slots: a node is emitted when it waits for nothing
and is the least such (`LeastNext`), its counter being the number of dependencies not yet emitted
(`SlotInv`). When all slots are filled the order is topological (`OrderTopological`); another
linearization that first differs at some place has a ready, hence no smaller, name there
(`OrderLeast`). When they are not, each node that is left waits for another one that is
left (`BlockedNodes`), so a walk of as many steps as there are nodes visits one of them twice
(`CycleFound`). `Below` is the least set closed under edges (`BelowCloses`, `BelowLeast`), so it is enough that
`ManifestInv` and `ClosureInv` speak of single edges.

The theorems about `Isolate` build on one another (`TypeOK`, `Exclusion`, `GasInv`, `DueInv`, `LateInv`), and
`ViewInv` and `SealInv` use `Exclusion`.

**Left to TLC.** Liveness, and with it the fairness part of `IsSession` (`DoomedExecutionEnds`,
`RunReturns`, `OrphanEnds`, `HelperEnds`). That an oracle of the model is the right one is left to the reader:
`Linearizations`, `Below` and `Represents` are definitions, not claims.

## Findings

Each is a run whose only property is what the repository says and whose counterexample is
what the code does.

1. `isolate_import` — `mrz_artifact_materialize` (`src/shim.c:2112`) takes a stale `mrb->exc`
   for its own failure: a host operation that raised is followed by an import that fails for no
   reason. A run does not have this effect, as `captureErrorView` and `mapError` clear the exception.
2. `delivery_reentry` — the grace is granted once, but every delivery inside a protected
   region can be rescued and nothing counts the deliveries, so guest code that enters protected
   regions again and again outlives its termination (`docs/sandboxing.md` calls completion
   bounded). `Delivery.cfg` shows that it ends when such entries are bounded.
3. `worker_leaf` — failures between the creation of the cgroup leaf and its attachment leave
   the directory behind.
4. `session_protocol` — `runRite` ends in `decodeReport` (`src/worker.zig:1085`). What that refuses is
   returned as `ProtocolMismatch` without `fail`: the session stays open and the helper runs on.
   `src/worker.zig:876-879` and `docs/workers.md:164-166` say that any transport, protocol, or timeout
   failure kills and reaps the helper, and that later calls return `SessionClosed`. The answer was read
   to its end, so the streams stay in step (`InStep`).
5. `safe_vm_postlude` — `mrb_protect_error` puts its result into the arena after its catch frame.
   When that allocation is refused the raise finds no frame of the operation and passes the Zig
   frames above it, which `src/shim.c:50-54` and `docs/safe-api.md` rule out. The outer frame
   that `mrz_artifact_materialize` installs against this (`src/shim.c:2083`) is not in
   `mrz_protect_result`.

One more defect has no run of its own: a session whose exchange failed never closes the write end of its
request pipe, since `fail` forgets the child and `deinit` closes the pipe only while the child is known
(`src/worker.zig:1115`). The last clause of `NothingLeft` says that no other session leaves it open.

## What is left out

Within the modelled parts: formatting and audit records, statistics, the peak counters, the
bytes of policies and frames, `lastArtifactError`, destruction of an isolate, descendants of a
session's helper (but that one which a graceful `deinit` leaves alive keeps the leaf's `rmdir` from succeeding), `waitid` failing with anything but `ECHILD`. `Worker` lets a helper send any
reply the controller can tell apart; `Session` adds replies that are framed well and
contradict themselves. The interpreter is modelled only as the hook sees it. Calls that overlap
on one session are refused by an ordinary Boolean and are taken as refused.

`OwnerToken` checks its caps while no two calls overlap on a cell: admission and accounting are
separate critical sections, so overlapping calls may together exceed them.

The wrapper that bootstraps a sandbox (`src/shim.c:1277-1319`) is not among the modelled operations
of the safe layer; it runs first and under no other. In the safe layer an operation keeps its order of checks, allocations and guest calls; names,
numbers, the contents of values (but those of an import), the C buffers a wrapper frees, and
accessors that neither allocate nor raise are left out. One guest variable stands for every
container guest code can reach. The host is taken to keep its side: it uses a value only while
something roots it, closes a scope in the frame that opened it, and reads the details of an error
while the arena still holds the exception (`mrz_protected_funcall_preserve_error` keeps the
pending exception in a C local, which is no root). A destructor of a data object that calls back
into the VM is not modelled.

Not modelled: seccomp (a constant program the kernel executes), build and packaging (sequential,
build time), the text of a generated manifest. Not modelled yet: the pool and the codecs.

## Plan

1. `Pool` over sessions that behave like `SessionService`; `init` that fails half-way.
2. Pure codecs over bounded inputs: response classification of `decodeReport`, frame lengths of
   `worker_protocol`, StateCapsule bytes (canonical order, round trip, limits).
3. An abstract `IsolateService` (admission, one result per call) that `Isolate` implements.
