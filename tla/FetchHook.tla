------------------------------ MODULE FetchHook ------------------------------
(***************************************************************************)
(* The per-instruction hook of a sandboxed isolate (fetchHook in           *)
(* src/sandbox.zig) and the state it owns: the recorded termination        *)
(* causes, the gas meter, and the delivery protocol that turns a recorded  *)
(* cause into a Ruby exception at a program counter where `ensure` and     *)
(* `rescue` handlers can see it.                                           *)
(*                                                                         *)
(* mruby calls the hook before it executes each bytecode.  What the guest  *)
(* does with that bytecode, and who else writes these variables, is said   *)
(* by the modules that extend this one.                                    *)
(***************************************************************************)
EXTENDS Gas

CONSTANTS
  Policies,             \* the spawn-time policies considered (see PolicySet)
  HandlerGrace,         \* handler_grace_instructions
  UncoveredWaitLimit,   \* uncovered_wait_limit
  ClockBatch            \* clock_batch: fetches between two deadline polls

Kinds == {"script", "deadline", "gas", "memory", "call_depth"}

PolicySet ==
  [gas: GasScopes,                       \* resolved_gas
   wall: BOOLEAN,                        \* is there a wall_time_ns budget
   caps: SUBSET {"soft", "hard"},        \* which memory caps are configured
   depth: BOOLEAN]                       \* is there a call_depth ceiling

ASSUME HookAssumption ==
  /\ Policies \subseteq PolicySet
  /\ HandlerGrace \in Nat
  /\ UncoveredWaitLimit \in Nat
  /\ ClockBatch \in Nat \ {0}

VARIABLES
  policy,             \* the isolate's policy, resolved once at spawn
  termination_bits,   \* the recorded termination causes
  oom_bits,           \* IsolateCell.oom_bits, published by the allocator
  deadline,           \* deadline_ns: "unset", "ahead" of or "passed" by the clock
  mrb_exc,            \* is mrb->exc set (an exception is propagating)
  gas_meter,
  raise_pending,      \* a cause is armed for delivery
  uncovered_waits,    \* fetches an armed cause has waited for a handler
  handler_grace,      \* fetches left to handler bodies after a delivery
  grace_armed,        \* the grace was granted
  clock_countdown

deliveryVars == <<raise_pending, uncovered_waits, handler_grace, grace_armed>>
hookVars == <<policy, termination_bits, oom_bits, deadline, mrb_exc, gas_meter,
              deliveryVars, clock_countdown>>

HookTypeOK ==
  /\ policy \in Policies
  /\ termination_bits \in SUBSET Kinds
  /\ oom_bits \in SUBSET {"soft", "hard"}
  /\ deadline \in {"unset", "ahead", "passed"}
  /\ mrb_exc \in BOOLEAN
  /\ gas_meter \in Meters
  /\ raise_pending \in BOOLEAN
  /\ uncovered_waits \in 0 .. UncoveredWaitLimit
  /\ handler_grace \in 0 .. HandlerGrace
  /\ grace_armed \in BOOLEAN
  /\ clock_countdown \in 1 .. ClockBatch

HookInit ==
  /\ policy \in Policies
  /\ termination_bits = {}
  /\ oom_bits = {}
  /\ deadline = "unset"
  /\ mrb_exc = FALSE
  /\ gas_meter = InitMeter(policy.gas)
  /\ raise_pending = FALSE
  /\ uncovered_waits = 0
  /\ handler_grace = 0
  /\ grace_armed = FALSE
  /\ clock_countdown = ClockBatch

(***************************************************************************)
(* selectedTermination: which of several recorded causes is reported.      *)
(***************************************************************************)
Rank == [memory |-> 1, script |-> 2, deadline |-> 3, call_depth |-> 4, gas |-> 5]

\* Faulty variant: the least important cause is reported.
SelectedLast(bits) == CHOOSE k \in bits : \A j \in bits : Rank[k] >= Rank[j]

SelectedTermination(bits) ==
  CHOOSE k \in bits : \A j \in bits : Rank[k] <= Rank[j]

\* syncOomCause and pollDeadline, as the causes they record.
SyncOomCause == IF oom_bits # {} THEN {"memory"} ELSE {}

\* Faulty variant: the clock is never compared with the deadline.
DeadlineIgnored == {}

PollDeadline == IF deadline = "passed" THEN {"deadline"} ELSE {}

Renewable == policy.gas = "execution"

(***************************************************************************)
(* One call of the hook, at a program counter that is `catchable` when a   *)
(* handler of the running irep covers it (mrz_pc_catchable), with the call *)
(* stack `deep` when it exceeds the policy's ceiling.                      *)
(***************************************************************************)
NotedAtFetch(deep) ==
  termination_bits \cup SyncOomCause
    \cup (IF FetchFindsEmpty(gas_meter) THEN {"gas"} ELSE {})
    \cup (IF deep THEN {"call_depth"} ELSE {})

\* An armed cause waits while an exception propagates or grace is left.
Deliverable == raise_pending /\ ~mrb_exc /\ handler_grace = 0

\* Faulty variant: off by one at the wait limit.
DeliveredLate(catchable) ==
  Deliverable /\ (catchable \/ uncovered_waits > UncoveredWaitLimit)

DeliveredHere(catchable) ==
  Deliverable /\ (catchable \/ uncovered_waits >= UncoveredWaitLimit)

\* Faulty variant: handlers get no grace.
GraceNotGranted == handler_grace

\* terminationException: the grace is granted once.
GrantedGrace == IF grace_armed THEN handler_grace ELSE HandlerGrace

\* The hook returns the policy exception; the trampoline raises it.
FetchRaises(catchable, deep) ==
  /\ DeliveredHere(catchable)
  /\ NotedAtFetch(deep) # {}
  /\ termination_bits' = NotedAtFetch(deep)
  /\ gas_meter' = ObserveFetch(gas_meter)
  /\ raise_pending' = FALSE
  /\ uncovered_waits' = 0
  /\ handler_grace' = GrantedGrace
  /\ grace_armed' = TRUE
  /\ mrb_exc' = TRUE
  /\ UNCHANGED <<policy, oom_bits, deadline, clock_countdown>>

\* The hook returns nil: the wait, grace, gas and clock counters step.  A hard
\* memory failure returns before gas and clock are stepped.
FetchContinues(catchable, deep) ==
  LET noted    == NotedAtFetch(deep)
      enforced == noted # {} /\ ~mrb_exc
      early    == noted # {} /\ "hard" \in oom_bits
      poll     == ~early /\ clock_countdown = 1
  IN
  /\ ~(DeliveredHere(catchable) /\ noted # {})
  /\ uncovered_waits' = IF DeliveredHere(catchable) THEN 0
                        ELSE IF Deliverable THEN uncovered_waits + 1
                        ELSE uncovered_waits
  /\ raise_pending' = \/ raise_pending /\ ~DeliveredHere(catchable)
                      \/ enforced /\ handler_grace = 0
  /\ handler_grace' = IF enforced /\ handler_grace > 0 THEN handler_grace - 1
                                                       ELSE handler_grace
  /\ gas_meter' = IF early THEN ObserveFetch(gas_meter)
                           ELSE ChargeFetch(ObserveFetch(gas_meter))
  /\ clock_countdown' = IF early THEN clock_countdown
                        ELSE IF poll THEN ClockBatch ELSE clock_countdown - 1
  /\ termination_bits' = noted \cup (IF poll THEN PollDeadline ELSE {})
  /\ UNCHANGED <<policy, oom_bits, deadline, mrb_exc, grace_armed>>

(***************************************************************************)
(* Writers of the shared causes that are not the hook.                     *)
(***************************************************************************)
\* Isolate.terminate, from any thread.
NoteScript ==
  /\ termination_bits' = termination_bits \cup {"script"}
  /\ UNCHANGED <<policy, oom_bits, deadline, mrb_exc, gas_meter, deliveryVars,
                 clock_countdown>>

\* The wall clock moves past the deadline.
ClockPasses ==
  /\ deadline = "ahead"
  /\ deadline' = "passed"
  /\ UNCHANGED <<policy, termination_bits, oom_bits, mrb_exc, gas_meter,
                 deliveryVars, clock_countdown>>

\* An allocation charged to the cell is refused at a cap: noteOom publishes the
\* flag under the owner token's lock.  After a hard failure nothing is checked.
CapCrossed(cap) ==
  /\ cap \in policy.caps
  /\ "hard" \notin oom_bits
  /\ oom_bits' = oom_bits \cup {cap}
  /\ UNCHANGED <<policy, termination_bits, deadline, mrb_exc, gas_meter,
                 deliveryVars, clock_countdown>>

\* The on_limit callback of that refusal (allocatorLimit), outside the lock.
LimitCallback ==
  /\ oom_bits # {}
  /\ termination_bits' = termination_bits \cup {"memory"}
  /\ UNCHANGED <<policy, oom_bits, deadline, mrb_exc, gas_meter, deliveryVars,
                 clock_countdown>>

\* Faulty variant: an armed delivery survives the renewal.
ClearGraceOnly ==
  /\ handler_grace' = 0
  /\ uncovered_waits' = 0
  /\ UNCHANGED <<grace_armed, raise_pending>>

\* clearGasDelivery.
ClearGasDelivery ==
  /\ handler_grace' = 0
  /\ grace_armed' = FALSE
  /\ raise_pending' = FALSE
  /\ uncovered_waits' = 0

=============================================================================
