------------------------------- MODULE Isolate -------------------------------
(***************************************************************************)
(* One sandboxed isolate (IsolateState in src/sandbox.zig) used by several *)
(* host threads: non-blocking admission, the preflight of an outermost     *)
(* execution, capability application, renewal of per-execution gas, the    *)
(* guest body with its host callbacks and nested entries, the arbitration  *)
(* of the result, and the host operations that share the operation lock.   *)
(* Any thread may call terminate() at any moment, the clock may pass the   *)
(* deadline, and allocations charged to the isolate may be refused, also   *)
(* those of a foreign Vm that a callback left running on another thread.   *)
(*                                                                         *)
(* A step of a thread ends where the code reads or writes something that   *)
(* another thread can write.  Other isolates interact with this one only   *)
(* through the thread-local attribution, so a thread that is inside one is *)
(* a thread whose attribution is "foreign".                                *)
(***************************************************************************)
EXTENDS FetchHook, FiniteSets

CONSTANTS
  Threads,      \* host threads
  NoThread,     \* the operation lock is free
  MaxNesting    \* bound on nested entries from host callbacks

ASSUME IsolateAssumption ==
  /\ NoThread \notin Threads
  /\ MaxNesting \in Nat

VARIABLES
  holder,         \* who holds operation_lock
  phase,          \* "idle", "preparing" or "running"
  capabilities,   \* "pending", "ready" or "failed"
  sealed,         \* the bootstrap handle was consumed by a successful seal
  error_view,     \* is there a lastError() view
  last_gas,       \* the statistics of the last finished execution
  current_cell,   \* per thread, the allocator attribution (thread-local)
  pc,             \* per thread, where it is in an operation
  op,             \* per thread, the operation it is in
  frames,         \* per thread, nested entries below the running guest code
  result,         \* per thread, what the call it is in will return, or that it
                  \* was refused at admission
  due,            \* history: per thread, the causes its result must answer for
  late,           \* history: per thread, the causes recorded against its call after
                  \* the admission and before the body
  seal_failed     \* history: an admitted seal returned an error

threadVars == <<current_cell, pc, op, frames, result, due, late>>
isoVars == <<holder, phase, capabilities, sealed, seal_failed, error_view,
             last_gas>>
vars == <<hookVars, isoVars, threadVars>>

Stages ==
  {"idle", "admitted", "preflight", "capabilities", "applying", "recheck",
   "sealcheck", "renew", "commit", "start", "guard", "body", "callback",
   "arbitrate", "capture", "remap", "finish", "leave",
   "hostcheck", "host", "hostleave"}

Ops == {"none", "run", "seal", "attributed", "clearError", "export", "import"}

\* terminationError.
TerminationError ==
  [script     |-> "ScriptTerminated",
   deadline   |-> "DeadlineExceeded",
   gas        |-> "GasExhausted",
   memory     |-> "MemoryLimitExceeded",
   call_depth |-> "CallDepthExceeded"]

TerminationErrors == {TerminationError[k] : k \in Kinds}
AdmissionErrors == {"IsolateThreadBusy", "IsolatePreparing"}
Results ==
  TerminationErrors \cup AdmissionErrors \cup
  {"none", "ok", "RubyException", "OtherError", "InvalidArtifact",
   "CapabilityApplicationFailed", "OutOfMemory"}

TypeOK ==
  /\ HookTypeOK
  /\ holder \in Threads \cup {NoThread}
  /\ phase \in {"idle", "preparing", "running"}
  /\ capabilities \in {"pending", "ready", "failed"}
  /\ sealed \in BOOLEAN
  /\ seal_failed \in BOOLEAN
  /\ error_view \in BOOLEAN
  /\ last_gas \in Snapshots
  /\ current_cell \in [Threads -> {"none", "own", "foreign"}]
  /\ pc \in [Threads -> Stages]
  /\ op \in [Threads -> Ops]
  /\ frames \in [Threads -> 0 .. MaxNesting]
  /\ result \in [Threads -> Results]
  /\ due \in [Threads -> SUBSET Kinds]
  /\ late \in [Threads -> SUBSET Kinds]

(***************************************************************************)
(* create: the isolate after BootstrapIsolate.spawn.                       *)
(***************************************************************************)
Init ==
  /\ HookInit
  /\ holder = NoThread
  /\ phase = "idle"
  /\ capabilities = "pending"
  /\ sealed = FALSE
  /\ seal_failed = FALSE
  /\ error_view = FALSE
  /\ last_gas = Snapshot(gas_meter)
  /\ current_cell = [t \in Threads |-> "none"]
  /\ pc = [t \in Threads |-> "idle"]
  /\ op = [t \in Threads |-> "none"]
  /\ frames = [t \in Threads |-> 0]
  /\ result = [t \in Threads |-> "none"]
  /\ due = [t \in Threads |-> {}]
  /\ late = [t \in Threads |-> {}]

\* An admitted call that has not entered the guest body.
BeforeBody ==
  {"admitted", "preflight", "capabilities", "applying", "recheck", "sealcheck",
   "renew", "commit", "start", "guard"}

\* late only records what the hook, the allocator and terminate() note meanwhile;
\* except gas, which only the call itself spends and its preflight may forgive.
NotedNow == (termination_bits' \ termination_bits) \ {"gas"}

NotedLate ==
  /\ late' = [t \in Threads |->
                IF pc[t] \in BeforeBody THEN late[t] \cup NotedNow ELSE late[t]]
  /\ UNCHANGED <<isoVars, current_cell, pc, op, frames, result, due>>

Goto(t, stage) == pc' = [pc EXCEPT ![t] = stage]
Return(t, r) == result' = [result EXCEPT ![t] = r]
Attribute(t, cell) == current_cell' = [current_cell EXCEPT ![t] = cell]

----------------------------------------------------------------------------
(***************************************************************************)
(* Admission.                                                              *)
(***************************************************************************)
\* Faulty variant: the phase alone decides, the lock is not tried.
AdmissionByPhase(t) ==
  IF current_cell[t] = "foreign" THEN "IsolateThreadBusy"
  ELSE [running |-> IF current_cell[t] = "own" THEN "nested"
                                               ELSE "IsolateThreadBusy",
        preparing |-> "IsolatePreparing", idle |-> "outer"][phase]

\* admitExecution: "outer", "nested", or the error it returns.
Admission(t) ==
  CASE current_cell[t] = "foreign" -> "IsolateThreadBusy"
    [] current_cell[t] = "own" ->
         [running |-> "nested", preparing |-> "IsolatePreparing",
          idle |-> "IsolateThreadBusy"][phase]
    [] current_cell[t] = "none" /\ holder # NoThread -> "IsolateThreadBusy"
    [] OTHER ->
         [running |-> "IsolateThreadBusy", preparing |-> "IsolatePreparing",
          idle |-> "outer"][phase]

\* lockIdlePhase, and the callers of admitExecution that refuse to nest.
OuterAdmission(t) ==
  IF Admission(t) = "nested" THEN "IsolateThreadBusy" ELSE Admission(t)

\* A call that is refused at admission: by an idle thread, or from a host method
\* that guest code calls.
Refuse(t) ==
  /\ pc[t] \in {"idle", "callback", "applying", "host"}
  /\ pc[t] = "host" => current_cell[t] = "own"
  /\ OuterAdmission(t) \in AdmissionErrors
  /\ Return(t, OuterAdmission(t))
  /\ UNCHANGED <<hookVars, isoVars, current_cell, pc, op, frames, due, late>>

\* The causes that must stop an execution admitted now.
CausesAtEntry == termination_bits \ (IF Renewable THEN {"gas"} ELSE {})

\* run, runImage, runRite and call at the outermost level, and
\* BootstrapIsolate.seal.
Enter(t, what) ==
  /\ pc[t] = "idle"
  /\ what = "run" => sealed
  /\ what = "seal" => ~sealed
  /\ Admission(t) = "outer"
  /\ holder' = t
  /\ op' = [op EXCEPT ![t] = what]
  /\ due' = [due EXCEPT ![t] = CausesAtEntry]
  /\ Return(t, "none")
  /\ Goto(t, "admitted")
  /\ UNCHANGED <<hookVars, phase, capabilities, sealed, seal_failed, error_view, last_gas,
                 current_cell, frames, late>>

\* runRite: the image is rejected before the execution lifecycle starts.
RejectImage(t) ==
  /\ pc[t] = "admitted"
  /\ op[t] = "run"
  /\ Return(t, "InvalidArtifact")
  /\ Goto(t, "leave")
  /\ UNCHANGED <<hookVars, isoVars, current_cell, op, frames, due, late>>

----------------------------------------------------------------------------
(***************************************************************************)
(* Preflight of an outer execution and of seal.                            *)
(***************************************************************************)
\* Faulty variant of clearErrorView: the view survives.
KeepErrorView == UNCHANGED error_view

ClearErrorView == error_view' = FALSE

\* clearErrorView, startTiming.
BeginOuter(t) ==
  /\ pc[t] = "admitted"
  /\ ClearErrorView
  /\ deadline' = IF policy.wall /\ deadline = "unset" THEN "ahead" ELSE deadline
  /\ Goto(t, "preflight")
  /\ UNCHANGED <<policy, termination_bits, oom_bits, mrb_exc, gas_meter,
                 deliveryVars, clock_countdown, holder, phase, capabilities,
                 sealed, seal_failed, last_gas, current_cell, op, frames, result, due,
                 late>>

Polled == termination_bits \cup SyncOomCause \cup PollDeadline

\* Faulty variant: only what this call polls itself, not what is on record.
RejectingPolledOnly(ignore_gas) == SyncOomCause \cup PollDeadline

\* rejectPending: the causes it refuses to start with.
Rejecting(ignore_gas) == Polled \ (IF ignore_gas THEN {"gas"} ELSE {})

RejectOr(t, ignore_gas, pass, fail) ==
  /\ termination_bits' = Polled
  /\ IF Rejecting(ignore_gas) = {}
       THEN Goto(t, pass) /\ UNCHANGED result
       ELSE /\ Goto(t, fail)
            /\ Return(t, TerminationError[
                           SelectedTermination(Rejecting(ignore_gas))])

Preflight(t) ==
  /\ pc[t] = "preflight"
  /\ RejectOr(t, Renewable, "capabilities", "leave")
  /\ UNCHANGED <<policy, oom_bits, deadline, mrb_exc, gas_meter, deliveryVars,
                 clock_countdown, isoVars, current_cell, op, frames, due, late>>

\* prepareCapabilities, by the state it finds.
CapabilitiesReady(t) ==
  /\ pc[t] = "capabilities"
  /\ capabilities = "ready"
  /\ Goto(t, "recheck")
  /\ UNCHANGED <<hookVars, isoVars, current_cell, op, frames, result, due, late>>

CapabilitiesFailed(t) ==
  /\ pc[t] = "capabilities"
  /\ capabilities = "failed"
  /\ Return(t, "CapabilityApplicationFailed")
  /\ Goto(t, "leave")
  /\ UNCHANGED <<hookVars, isoVars, current_cell, op, frames, due, late>>

BeginCapabilities(t) ==
  /\ pc[t] = "capabilities"
  /\ capabilities = "pending"
  /\ phase' = "preparing"
  /\ Attribute(t, "own")
  /\ Goto(t, "applying")
  /\ UNCHANGED <<hookVars, holder, capabilities, sealed, seal_failed, error_view, last_gas,
                 op, frames, result, due, late>>

\* Faulty variant: a failed application may be tried again.
CapabilitiesRetried(complete) == IF complete THEN "ready" ELSE "pending"

CapabilitiesAfter(complete) == IF complete THEN "ready" ELSE "failed"

\* applyCapabilities succeeds or raises; a cause recorded meanwhile wins over
\* both, and anything but success is final.
EndCapabilities(t, applied) ==
  LET causes == termination_bits \cup SyncOomCause IN
  /\ pc[t] = "applying"
  /\ termination_bits' = causes
  /\ capabilities' = CapabilitiesAfter(applied /\ causes = {})
  /\ IF applied /\ causes = {}
       THEN /\ Goto(t, "recheck")
            /\ UNCHANGED result
       ELSE /\ Goto(t, "leave")
            /\ Return(t, IF causes = {} THEN "CapabilityApplicationFailed"
                         ELSE TerminationError[SelectedTermination(causes)])
  /\ mrb_exc' = FALSE
  /\ phase' = "idle"
  /\ Attribute(t, "none")
  /\ UNCHANGED <<policy, oom_bits, deadline, gas_meter, deliveryVars,
                 clock_countdown, holder, sealed, seal_failed, error_view, last_gas, op,
                 frames, due, late>>

Recheck(t) ==
  /\ pc[t] = "recheck"
  /\ RejectOr(t, Renewable,
              IF op[t] = "seal" THEN "sealcheck"
              ELSE IF Renewable THEN "renew" ELSE "start",
              "leave")
  /\ UNCHANGED <<policy, oom_bits, deadline, mrb_exc, gas_meter, deliveryVars,
                 clock_countdown, isoVars, current_cell, op, frames, due, late>>

\* The last lines of seal.
SealCheck(t) ==
  /\ pc[t] = "sealcheck"
  /\ termination_bits' = Polled
  /\ Return(t, IF Polled = {} THEN "ok"
               ELSE TerminationError[SelectedTermination(Polled)])
  /\ Goto(t, "leave")
  /\ UNCHANGED <<policy, oom_bits, deadline, mrb_exc, gas_meter, deliveryVars,
                 clock_countdown, isoVars, current_cell, op, frames, due, late>>

\* Faulty variant: a plain store instead of the fetchAnd.
ForgetCauses == termination_bits' = {}

\* The atomic fetchAnd that forgives gas and nothing else.
ForgiveGas == termination_bits' = termination_bits \ {"gas"}

\* renewExecutionGas: the spent allowance is forgiven ...
RenewGas(t) ==
  /\ pc[t] = "renew"
  /\ ForgiveGas
  /\ Goto(t, "commit")
  /\ UNCHANGED <<policy, oom_bits, deadline, mrb_exc, gas_meter, deliveryVars,
                 clock_countdown, isoVars, current_cell, op, frames, result, due, late>>

\* ... and the next generation is installed unless another cause is pending.
CommitGas(t) ==
  /\ pc[t] = "commit"
  /\ RejectOr(t, TRUE, "start", "leave")
  /\ IF Rejecting(TRUE) = {}
       THEN gas_meter' = NextGeneration(gas_meter) /\ ClearGasDelivery
       ELSE UNCHANGED <<gas_meter, deliveryVars>>
  /\ UNCHANGED <<policy, oom_bits, deadline, mrb_exc, clock_countdown, isoVars,
                 current_cell, op, frames, due, late>>

StartRunning(t) ==
  /\ pc[t] = "start"
  /\ phase' = "running"
  /\ Goto(t, "guard")
  /\ UNCHANGED <<hookVars, holder, capabilities, sealed, seal_failed, error_view, last_gas,
                 current_cell, op, frames, result, due, late>>

\* Faulty variant: nothing is polled between the last preflight and the body.
GuardUnchecked(t) ==
  /\ pc[t] = "guard"
  /\ Attribute(t, "own")
  /\ mrb_exc' = FALSE
  /\ Goto(t, "body")
  /\ UNCHANGED <<policy, termination_bits, oom_bits, deadline, gas_meter,
                 deliveryVars, clock_countdown, isoVars, op, frames, result, due,
                 late>>

\* The last rejectPending, and the entry into the protected guest body, which
\* clears a stale mrb->exc.
Guard(t) ==
  /\ pc[t] = "guard"
  /\ RejectOr(t, FALSE, "body", "finish")
  /\ IF Rejecting(FALSE) = {}
       THEN Attribute(t, "own") /\ mrb_exc' = FALSE
       ELSE UNCHANGED <<current_cell, mrb_exc>>
  /\ UNCHANGED <<policy, oom_bits, deadline, gas_meter, deliveryVars,
                 clock_countdown, isoVars, op, frames, due, late>>

----------------------------------------------------------------------------
(***************************************************************************)
(* The guest body, its host callbacks and nested entries.                  *)
(***************************************************************************)
\* Bytecode also runs below a host operation (mrb_hash_set calls a key's hash
\* and eql?) and while methods are masked (method_undefined).
RunsBytecode(t) ==
  \/ pc[t] \in {"body", "applying"}
  \/ pc[t] = "host" /\ op[t] = "attributed"

GuestFetch(t) ==
  /\ RunsBytecode(t)
  /\ \E catchable \in BOOLEAN, deep \in {FALSE, policy.depth} :
       \/ FetchRaises(catchable, deep)
       \/ FetchContinues(catchable, deep)
  /\ NotedLate

\* The guest raises, or a handler takes the exception (OP_EXCEPT).
GuestException(t) ==
  /\ RunsBytecode(t)
  /\ mrb_exc' = ~mrb_exc
  /\ UNCHANGED <<policy, termination_bits, oom_bits, deadline, gas_meter,
                 deliveryVars, clock_countdown, isoVars, threadVars>>

CallHost(t) ==
  /\ pc[t] = "body"
  /\ ~mrb_exc
  /\ Goto(t, "callback")
  /\ UNCHANGED <<hookVars, isoVars, current_cell, op, frames, result, due, late>>

\* A nested run, runImage, runRite or call enters the body directly.
EnterNested(t) ==
  /\ pc[t] = "callback"
  /\ Admission(t) = "nested"
  /\ frames[t] < MaxNesting
  /\ frames' = [frames EXCEPT ![t] = @ + 1]
  /\ mrb_exc' = FALSE
  /\ Goto(t, "body")
  /\ UNCHANGED <<policy, termination_bits, oom_bits, deadline, gas_meter,
                 deliveryVars, clock_countdown, isoVars, current_cell, op,
                 result, due, late>>

\* A nested entry returns to its callback; its exception stays in mrb->exc.
LeaveNested(t) ==
  /\ pc[t] = "body"
  /\ frames[t] > 0
  /\ frames' = [frames EXCEPT ![t] = @ - 1]
  /\ Goto(t, "callback")
  /\ UNCHANGED <<hookVars, isoVars, current_cell, op, result, due, late>>

\* The callback returns a value or an error to the guest.
ReturnFromCallback(t) ==
  /\ pc[t] = "callback"
  /\ mrb_exc' \in BOOLEAN
  /\ Goto(t, "body")
  /\ UNCHANGED <<policy, termination_bits, oom_bits, deadline, gas_meter,
                 deliveryVars, clock_countdown, isoVars, current_cell, op,
                 frames, result, due, late>>

\* The body ends: with a value, a Ruby exception, or another Zig error.
EndBody(t, r) ==
  /\ pc[t] = "body"
  /\ frames[t] = 0
  /\ mrb_exc = (r = "RubyException")
  /\ Return(t, r)
  /\ due' = [due EXCEPT ![t] = termination_bits]
  /\ Goto(t, "arbitrate")
  /\ UNCHANGED <<hookVars, isoVars, current_cell, op, frames, late>>

----------------------------------------------------------------------------
(***************************************************************************)
(* Arbitration of the result and the end of the execution.                 *)
(***************************************************************************)
\* The polls after the body; for a Ruby exception the first half of mapError.
Arbitrate(t) ==
  /\ pc[t] = "arbitrate"
  /\ termination_bits' = Polled
  /\ IF Polled # {}
       THEN /\ Return(t, TerminationError[SelectedTermination(Polled)])
            /\ mrb_exc' = FALSE
            /\ Goto(t, "finish")
       ELSE /\ UNCHANGED <<result, mrb_exc>>
            /\ Goto(t, IF result[t] = "RubyException" THEN "capture"
                                                      ELSE "finish")
  /\ UNCHANGED <<policy, oom_bits, deadline, gas_meter, deliveryVars,
                 clock_countdown, isoVars, current_cell, op, frames, due, late>>

\* captureErrorView; it may find nothing to capture.
CaptureErrorView(t) ==
  /\ pc[t] = "capture"
  /\ error_view' \in BOOLEAN
  /\ mrb_exc' = FALSE
  /\ Goto(t, "remap")
  /\ UNCHANGED <<policy, termination_bits, oom_bits, deadline, gas_meter,
                 deliveryVars, clock_countdown, holder, phase, capabilities,
                 sealed, seal_failed, last_gas, current_cell, op, frames,
                 result, due, late>>

\* The second half of mapError.
Remap(t) ==
  /\ pc[t] = "remap"
  /\ termination_bits' = Polled
  /\ IF Polled # {}
       THEN /\ ClearErrorView
            /\ Return(t, TerminationError[SelectedTermination(Polled)])
       ELSE UNCHANGED <<error_view, result>>
  /\ Goto(t, "finish")
  /\ UNCHANGED <<policy, oom_bits, deadline, mrb_exc, gas_meter, deliveryVars,
                 clock_countdown, holder, phase, capabilities, sealed, seal_failed, last_gas,
                 current_cell, op, frames, due, late>>

\* The deferred restoreIsolate and finishExecution.
FinishExecution(t) ==
  /\ pc[t] = "finish"
  /\ Attribute(t, "none")
  /\ last_gas' = Snapshot(gas_meter)
  /\ gas_meter' = FinishGeneration(gas_meter, policy.gas)
  /\ IF Renewable
       THEN ForgiveGas /\ ClearGasDelivery
       ELSE UNCHANGED <<termination_bits, deliveryVars>>
  /\ phase' = "idle"
  /\ Goto(t, "leave")
  /\ UNCHANGED <<policy, oom_bits, deadline, mrb_exc, clock_countdown, holder,
                 capabilities, sealed, seal_failed, error_view, op, frames,
                 result, due, late>>

\* updateElapsed, the unlock, and the end of BootstrapIsolate.seal.
Leave(t) ==
  /\ pc[t] = "leave"
  /\ holder' = NoThread
  /\ sealed' = (sealed \/ (op[t] = "seal" /\ result[t] = "ok"))
  /\ seal_failed' = (seal_failed \/ (op[t] = "seal" /\ result[t] # "ok"))
  /\ op' = [op EXCEPT ![t] = "none"]
  /\ due' = [due EXCEPT ![t] = {}]
  /\ late' = [late EXCEPT ![t] = {}]
  /\ Return(t, "none")
  /\ Goto(t, "idle")
  /\ UNCHANGED <<hookVars, phase, capabilities, error_view, last_gas,
                 current_cell, frames>>

----------------------------------------------------------------------------
(***************************************************************************)
(* Host operations: getGlobal, setGlobal, value construction, rooting      *)
(* ("attributed"), clearError, exportValue and importValue.                *)
(***************************************************************************)
HostOps == {"attributed", "clearError", "export", "import"}

EnterHost(t, what) ==
  /\ sealed
  /\ pc[t] = "idle"
  /\ OuterAdmission(t) = "outer"
  /\ holder' = t
  /\ phase' = "preparing"
  /\ op' = [op EXCEPT ![t] = what]
  /\ current_cell' = IF what = "attributed"
                       THEN [current_cell EXCEPT ![t] = "own"] ELSE current_cell
  /\ Return(t, "none")
  /\ Goto(t, IF what \in {"attributed", "import"} THEN "hostcheck" ELSE "host")
  /\ UNCHANGED <<hookVars, capabilities, sealed, seal_failed, error_view, last_gas, frames,
                 due, late>>

\* The first rejectHostMemoryLimit, and the sticky-cap check of importValue,
\* which records nothing and attributes only what it materializes.
HostMemoryCheck(t) ==
  /\ pc[t] = "hostcheck"
  /\ IF oom_bits = {}
       THEN /\ Attribute(t, "own")
            /\ Goto(t, "host")
            /\ UNCHANGED <<result, termination_bits, mrb_exc>>
       ELSE /\ Return(t, "MemoryLimitExceeded")
            /\ Goto(t, "hostleave")
            /\ IF op[t] = "attributed"
                 THEN /\ termination_bits' = termination_bits \cup {"memory"}
                      /\ mrb_exc' = FALSE
                 ELSE UNCHANGED <<termination_bits, mrb_exc>>
            /\ UNCHANGED current_cell
  /\ UNCHANGED <<policy, oom_bits, deadline, gas_meter, deliveryVars,
                 clock_countdown, isoVars, op, frames, due, late>>

\* importValue: the capsule is rejected before any mruby work.
RejectCapsule(t) ==
  /\ pc[t] = "hostcheck"
  /\ op[t] = "import"
  /\ Return(t, "InvalidArtifact")
  /\ Goto(t, "hostleave")
  /\ UNCHANGED <<hookVars, isoVars, current_cell, op, frames, due, late>>

hostBodyUnchanged == <<policy, oom_bits, deadline, gas_meter, deliveryVars,
                       clock_countdown, holder, phase, capabilities, sealed,
                       seal_failed, last_gas, current_cell, op, frames, due, late>>

\* A protected operation clears the stale exception first and leaves its own one
\* behind; the second rejectHostMemoryLimit overrides any outcome r.
AttributedBody(t, r) ==
  /\ pc[t] = "host"
  /\ op[t] = "attributed"
  /\ IF oom_bits # {}
       THEN /\ Return(t, "MemoryLimitExceeded")
            /\ termination_bits' = termination_bits \cup {"memory"}
            /\ mrb_exc' = FALSE
       ELSE /\ Return(t, r)
            /\ UNCHANGED termination_bits
            /\ mrb_exc' \in IF r = "OtherError" THEN {FALSE, mrb_exc}
                                              ELSE {r = "RubyException"}
  /\ Goto(t, "hostleave")
  /\ UNCHANGED <<hostBodyUnchanged, error_view>>

ClearErrorBody(t) ==
  /\ pc[t] = "host"
  /\ op[t] = "clearError"
  /\ Return(t, "ok")
  /\ ClearErrorView
  /\ mrb_exc' = FALSE
  /\ Goto(t, "hostleave")
  /\ UNCHANGED <<hostBodyUnchanged, termination_bits>>

ExportBody(t, r) ==
  /\ pc[t] = "host"
  /\ op[t] = "export"
  /\ Return(t, r)
  /\ Goto(t, "hostleave")
  /\ UNCHANGED <<hostBodyUnchanged, termination_bits, error_view, mrb_exc>>

\* materialize and the classification of its outcome r.  Nothing clears mrb->exc
\* before it, so an exception that an earlier operation left counts as raised.
MaterializeBody(t, r) ==
  /\ pc[t] = "host"
  /\ op[t] = "import"
  /\ \E stale \in {"OtherError", "OutOfMemory"} :
       LET outcome == IF r = "ok" /\ mrb_exc THEN stale ELSE r IN
       Return(t, IF outcome = "OutOfMemory" /\ oom_bits # {}
                   THEN "MemoryLimitExceeded" ELSE outcome)
  /\ mrb_exc' = FALSE
  /\ Goto(t, "hostleave")
  /\ UNCHANGED <<hostBodyUnchanged, termination_bits, error_view>>

\* Faulty variant: the lock is released in the preparing phase.
UnlockOnly == holder' = NoThread /\ UNCHANGED phase

UnlockIdlePhase == holder' = NoThread /\ phase' = "idle"

\* restoreIsolate, unlockIdlePhase.
LeaveHost(t) ==
  /\ pc[t] = "hostleave"
  /\ Attribute(t, "none")
  /\ UnlockIdlePhase
  /\ op' = [op EXCEPT ![t] = "none"]
  /\ Return(t, "none")
  /\ Goto(t, "idle")
  /\ UNCHANGED <<hookVars, capabilities, sealed, seal_failed, error_view, last_gas, frames,
                 due, late>>

----------------------------------------------------------------------------
(***************************************************************************)
(* The environment.                                                        *)
(***************************************************************************)
Terminate ==
  /\ sealed
  /\ NoteScript
  /\ NotedLate

DeadlinePasses == ClockPasses /\ UNCHANGED <<isoVars, threadVars>>

\* By the attributed thread, or by a foreign Vm that a callback created.
MemoryCapCrossed ==
  /\ sealed \/ \E t \in Threads : current_cell[t] = "own"
  /\ \E cap \in {"soft", "hard"} : CapCrossed(cap)
  /\ UNCHANGED <<isoVars, threadVars>>

MemoryLimitCallback == LimitCallback /\ NotedLate

\* The thread enters and leaves a callback of another isolate.
EnterForeign(t) ==
  /\ pc[t] = "idle"
  /\ current_cell[t] = "none"
  /\ Attribute(t, "foreign")
  /\ UNCHANGED <<hookVars, isoVars, pc, op, frames, result, due, late>>

LeaveForeign(t) ==
  /\ pc[t] = "idle"
  /\ current_cell[t] = "foreign"
  /\ Attribute(t, "none")
  /\ UNCHANGED <<hookVars, isoVars, pc, op, frames, result, due, late>>

\* Trusted code run on the raw Vm during the bootstrap window: it is hooked,
\* but neither admitted nor attributed.
BootstrapFetch ==
  /\ ~sealed
  /\ holder = NoThread
  /\ \E catchable \in BOOLEAN, deep \in {FALSE, policy.depth} :
       \/ FetchRaises(catchable, deep)
       \/ FetchContinues(catchable, deep)
  /\ UNCHANGED <<isoVars, threadVars>>

\* A raw bootstrap call raises, or the next one clears its stale exception.
BootstrapException ==
  /\ ~sealed
  /\ holder = NoThread
  /\ mrb_exc' = ~mrb_exc
  /\ UNCHANGED <<policy, termination_bits, oom_bits, deadline, gas_meter,
                 deliveryVars, clock_countdown, isoVars, threadVars>>

Step(t) ==
  \/ \E what \in {"run", "seal"} : Enter(t, what)
  \/ Refuse(t)
  \/ RejectImage(t)
  \/ BeginOuter(t)
  \/ Preflight(t)
  \/ CapabilitiesReady(t)
  \/ CapabilitiesFailed(t)
  \/ BeginCapabilities(t)
  \/ \E applied \in BOOLEAN : EndCapabilities(t, applied)
  \/ Recheck(t)
  \/ SealCheck(t)
  \/ RenewGas(t)
  \/ CommitGas(t)
  \/ StartRunning(t)
  \/ Guard(t)
  \/ GuestFetch(t)
  \/ GuestException(t)
  \/ CallHost(t)
  \/ EnterNested(t)
  \/ LeaveNested(t)
  \/ ReturnFromCallback(t)
  \/ \E r \in {"ok", "RubyException", "OtherError"} : EndBody(t, r)
  \/ Arbitrate(t)
  \/ CaptureErrorView(t)
  \/ Remap(t)
  \/ FinishExecution(t)
  \/ Leave(t)
  \/ \E what \in HostOps : EnterHost(t, what)
  \/ HostMemoryCheck(t)
  \/ RejectCapsule(t)
  \/ \E r \in {"ok", "RubyException", "OtherError"} : AttributedBody(t, r)
  \/ ClearErrorBody(t)
  \/ \E r \in {"ok", "OtherError"} : ExportBody(t, r)
  \/ \E r \in {"ok", "OtherError", "OutOfMemory"} : MaterializeBody(t, r)
  \/ LeaveHost(t)
  \/ EnterForeign(t)
  \/ LeaveForeign(t)

Next ==
  \/ \E t \in Threads : Step(t)
  \/ Terminate
  \/ DeadlinePasses
  \/ MemoryCapCrossed
  \/ MemoryLimitCallback
  \/ BootstrapFetch
  \/ BootstrapException

Spec == Init /\ [][Next]_vars

----------------------------------------------------------------------------
(***************************************************************************)
(* Properties.                                                             *)
(***************************************************************************)
\* The interpreter is never used by two threads at once: whoever is between
\* admission and return holds the operation lock, and only that thread carries
\* this isolate's allocator attribution (admitExecution, lockIdlePhase).
ExclusiveUse ==
  \A t \in Threads :
    pc[t] # "idle" \/ current_cell[t] = "own" => holder = t

\* Every exit, by whatever error path, leaves the isolate usable: when the lock
\* is free the phase is idle, so no caller can be told IsolatePreparing, or be
\* refused for ever, because of an operation that already returned.
FreeLockIsIdle ==
  holder = NoThread =>
    /\ phase = "idle"
    /\ \A t \in Threads : pc[t] = "idle"

\* Renewable gas is confined to the execution that spent it: between executions
\* no gas cause and no active meter is visible, an armed delivery or leftover
\* grace only where a sticky cause rejects every later execution anyway, and the
\* published statistics are those of the last generation, also after executions
\* that a preflight rejected (finishExecution, renewExecutionGas, stats).
RenewableGasConfined ==
  Renewable /\ holder = NoThread =>
    /\ "gas" \notin termination_bits
    /\ ~gas_meter.active
    /\ raise_pending \/ grace_armed \/ handler_grace + uncovered_waits > 0
         => termination_bits # {}
    /\ last_gas = Snapshot(gas_meter)

\* What the meter reports adds up, and exhaustion is reported only after the
\* allowance was really spent (docs/sandboxing.md: used + remaining == limit).
GasLedger ==
  /\ gas_meter.used + gas_meter.remaining = GasLimit
  /\ gas_meter.exhausted => gas_meter.remaining = 0

\* A cause that was recorded before an execution was admitted, or before its
\* body returned, is what the host is told: the result is the error of a cause
\* at least as important, never a value or an ordinary Ruby exception that the
\* guest produced by rescuing or raising (rejectPending, mapError).
CauseSurfaces ==
  \A t \in Threads :
    /\ pc[t] \in {"finish", "leave"}
    /\ op[t] \in {"run", "seal"}
    /\ due[t] # {}
    /\ result[t] # "InvalidArtifact"
    => \E k \in Kinds :
         /\ result[t] = TerminationError[k]
         /\ \A j \in due[t] : Rank[k] <= Rank[j]

\* No guest body runs for an execution that a cause was recorded against before the
\* body was entered: one pending at its admission, or a terminate() or memory limit
\* that came in between any two of the later checks (rejectPending, whose last call
\* is commented "a non-gas termination racing after the final preflight [...] still
\* executes no guest body").
DoomedNeverRuns ==
  \A t \in Threads :
    pc[t] \in {"body", "callback"} =>
      due[t] = {} /\ late[t] = {} /\ capabilities = "ready"

\* The hook is armed only while a cause is on record, so renewing gas can never
\* make a later, innocent execution raise a policy exception.
ArmedHasCause ==
  raise_pending \/ grace_armed => termination_bits # {}

\* lastError() belongs to the execution that just ended with an ordinary
\* RubyException: a termination never leaves the guest's exception visible, and
\* a rejected preflight has already dropped the previous one.
ErrorViewHonest ==
  \A t \in Threads :
    /\ pc[t] \in {"finish", "leave"}
    /\ result[t] # "InvalidArtifact"
    /\ error_view
    => result[t] = "RubyException"

\* A failed seal is terminal for the state (BootstrapIsolate.seal): no retry can
\* turn it into an execution handle.
SealFailureIsFinal == seal_failed => ~sealed

\* Nothing but renewable gas is ever forgiven, by no interleaving of the owner's
\* fetchAnd with concurrent notes; memory flags and a capability failure stay.
StickyCauses ==
  [][/\ termination_bits \ termination_bits' \subseteq
          (IF policy.gas = "execution" THEN {"gas"} ELSE {})
     /\ oom_bits \subseteq oom_bits'
     /\ capabilities = "failed" => capabilities' = "failed"]_vars

\* "A new safe-layer operation supersedes diagnostics from the previous one": an
\* import whose graph materializes is not reported as failed (importValue,
\* mrz_artifact_materialize).
ImportOutcomeIsOwn ==
  [][\A t \in Threads : MaterializeBody(t, "ok") => result'[t] = "ok"]_vars

=============================================================================
