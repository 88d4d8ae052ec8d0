------------------------------ MODULE Delivery ------------------------------
(***************************************************************************)
(* How a recorded cause gets through guest code.  One outermost execution  *)
(* is inside its body: the interpreter alternates between fetching an      *)
(* opcode, which calls fetchHook, and executing it, and unwinds to the     *)
(* innermost rescue or ensure region when an exception is raised.  The     *)
(* guest may do anything with these means, also loop for ever; the host    *)
(* may terminate it, the clock may pass and allocations may be refused at  *)
(* any moment.                                                             *)
(*                                                                         *)
(* The interpreter itself is mruby, which is not part of the repository;   *)
(* it is modelled as the hook and mrz_pc_catchable use it.                 *)
(***************************************************************************)
EXTENDS FetchHook, FiniteSets, Sequences

CONSTANTS
  MaxDepth,     \* bound on entered regions and calls at one time
  MaxEntries,   \* how many protected regions straight-line guest code enters
  Reenters      \* may the guest enter protected regions again and again

ASSUME DeliveryAssumption ==
  /\ MaxDepth \in Nat
  /\ MaxEntries \in Nat
  /\ Reenters \in BOOLEAN

VARIABLES
  at,         \* "fetch", "execute", "unwind" or "ended"
  handlers,   \* innermost first: regions entered, "ensuring" bodies and "call"s
  entries,    \* protected regions entered so far
  lag,        \* history: hooked fetches a known cause has not been raised for
  deliveries, \* history: policy exceptions raised so far, at most 2
  spent       \* history: fetches granted to handlers, at most HandlerGrace

guestVars == <<at, handlers, entries>>
historyVars == <<lag, deliveries, spent>>
vars == <<hookVars, guestVars, historyVars>>

Protected == {"rescue", "ensure"}

TypeOK ==
  /\ HookTypeOK
  /\ at \in {"fetch", "execute", "unwind", "ended"}
  /\ handlers \in Seq(Protected \cup {"ensuring", "call"})
  /\ Len(handlers) <= MaxDepth
  /\ entries \in 0 .. MaxEntries
  /\ lag \in Nat
  /\ deliveries \in 0 .. 2
  /\ spent \in 0 .. HandlerGrace

\* The guest body is about to be entered; a renewable allowance was renewed and
\* the deadline of a wall-time budget set.
Init ==
  /\ policy \in Policies
  /\ termination_bits = {}
  /\ oom_bits = {}
  /\ deadline = IF policy.wall THEN "ahead" ELSE "unset"
  /\ mrb_exc = FALSE
  /\ gas_meter = IF Renewable THEN NextGeneration(InitMeter(policy.gas))
                              ELSE InitMeter(policy.gas)
  /\ raise_pending = FALSE
  /\ uncovered_waits = 0
  /\ handler_grace = 0
  /\ grace_armed = FALSE
  /\ clock_countdown \in 1 .. ClockBatch
  /\ at = "fetch"
  /\ handlers = <<>>
  /\ entries = 0
  /\ lag = 0
  /\ deliveries = 0
  /\ spent = 0

\* The elements of the running irep: those above the innermost call.
Frame == {i \in DOMAIN handlers : \A j \in 1 .. i : handlers[j] # "call"}

CallerHandlers ==
  SubSeq(handlers, Cardinality(Frame) + 2, Len(handlers))

\* mrz_pc_catchable: a region of the running irep covers the pc; at the first
\* instruction of a region it does not cover it yet.
Coverage ==
  IF \E i \in Frame : handlers[i] \in Protected THEN BOOLEAN ELSE {FALSE}

----------------------------------------------------------------------------
(***************************************************************************)
(* The interpreter.                                                        *)
(***************************************************************************)
\* The hook lets the opcode execute.
FetchOpcode ==
  /\ at = "fetch"
  /\ \E catchable \in Coverage, deep \in {FALSE, policy.depth} :
       /\ FetchContinues(catchable, deep)
       /\ lag' = IF NotedAtFetch(deep) # {} /\ ~mrb_exc THEN lag + 1 ELSE lag
  /\ spent' = IF handler_grace' < handler_grace /\ spent < HandlerGrace
                THEN spent + 1 ELSE spent
  /\ at' = "execute"
  /\ UNCHANGED <<handlers, entries, deliveries>>

\* The hook raises.  At a pc that no region of the running irep covers, only the
\* callers' regions see the exception.
FetchDelivers ==
  /\ at = "fetch"
  /\ \E catchable \in Coverage, deep \in {FALSE, policy.depth} :
       /\ FetchRaises(catchable, deep)
       /\ handlers' = IF catchable THEN handlers ELSE CallerHandlers
  /\ at' = "unwind"
  /\ lag' = 0
  /\ deliveries' = IF deliveries < 2 THEN deliveries + 1 ELSE 2
  /\ UNCHANGED <<entries, spent>>

\* The exception reaches the innermost region, or leaves the body.  An ensure
\* body in progress gives way to it.
Unwind ==
  /\ at = "unwind"
  /\ LET regions == {i \in DOMAIN handlers : handlers[i] \in Protected}
         i       == CHOOSE i \in regions : \A j \in regions : i <= j
         below   == SubSeq(handlers, i + 1, Len(handlers))
     IN  IF regions = {}
           THEN at' = "ended" /\ handlers' = <<>>
           ELSE /\ at' = "fetch"
                /\ handlers' = IF handlers[i] = "ensure"
                                 THEN <<"ensuring">> \o below ELSE below
  /\ UNCHANGED <<hookVars, entries, historyVars>>

\* OP_EXCEPT, the first opcode of a handler, takes the exception.
OpExcept ==
  /\ at = "execute"
  /\ mrb_exc
  /\ mrb_exc' = FALSE
  /\ at' = "fetch"
  /\ UNCHANGED <<policy, termination_bits, oom_bits, deadline, gas_meter,
                 deliveryVars, clock_countdown, handlers, entries, historyVars>>

\* Any opcode that neither raises nor moves between regions, jumps included.
OpOther ==
  /\ at = "execute"
  /\ ~mrb_exc
  /\ at' = "fetch"
  /\ UNCHANGED <<hookVars, handlers, entries, historyVars>>

OpEnter(kind) ==
  /\ at = "execute"
  /\ ~mrb_exc
  /\ Len(handlers) < MaxDepth
  /\ IF Reenters THEN UNCHANGED entries
                 ELSE entries < MaxEntries /\ entries' = entries + 1
  /\ handlers' = <<kind>> \o handlers
  /\ at' = "fetch"
  /\ UNCHANGED <<hookVars, historyVars>>

OpCall ==
  /\ at = "execute"
  /\ ~mrb_exc
  /\ Len(handlers) < MaxDepth
  /\ handlers' = <<"call">> \o handlers
  /\ at' = "fetch"
  /\ UNCHANGED <<hookVars, entries, historyVars>>

\* The end of a region or of a method; the end of an ensure body that runs for
\* an exception raises it again (OP_RAISEIF).
OpLeave ==
  /\ at = "execute"
  /\ ~mrb_exc
  /\ handlers # <<>>
  /\ handlers' = Tail(handlers)
  /\ IF Head(handlers) = "ensuring"
       THEN at' = "unwind" /\ mrb_exc' = TRUE
       ELSE at' = "fetch" /\ UNCHANGED mrb_exc
  /\ UNCHANGED <<policy, termination_bits, oom_bits, deadline, gas_meter,
                 deliveryVars, clock_countdown, entries, historyVars>>

OpRaise ==
  /\ at = "execute"
  /\ ~mrb_exc
  /\ mrb_exc' = TRUE
  /\ at' = "unwind"
  /\ UNCHANGED <<policy, termination_bits, oom_bits, deadline, gas_meter,
                 deliveryVars, clock_countdown, handlers, entries, historyVars>>

\* The body returns its value.
OpStop ==
  /\ at = "execute"
  /\ ~mrb_exc
  /\ handlers = <<>>
  /\ at' = "ended"
  /\ UNCHANGED <<hookVars, handlers, entries, historyVars>>

Interpreter ==
  \/ FetchOpcode
  \/ FetchDelivers
  \/ Unwind
  \/ OpExcept
  \/ OpOther
  \/ \E kind \in Protected : OpEnter(kind)
  \/ OpCall
  \/ OpLeave
  \/ OpRaise
  \/ OpStop

Environment ==
  /\ at # "ended"
  /\ \/ NoteScript
     \/ ClockPasses
     \/ \E cap \in {"soft", "hard"} : CapCrossed(cap)
     \/ LimitCallback
  /\ UNCHANGED <<guestVars, historyVars>>

\* The body has returned to its caller, which Isolate describes.
Ended == at = "ended" /\ UNCHANGED vars

Next == Interpreter \/ Environment \/ Ended

\* The interpreter keeps stepping: a native method or host callback that never
\* returns is outside the hook's reach.
Spec == Init /\ [][Next]_vars /\ WF_vars(Interpreter)

----------------------------------------------------------------------------
(***************************************************************************)
(* Properties.                                                             *)
(***************************************************************************)
\* A known cause is raised after a bounded number of fetches, whatever the guest
\* does meanwhile: once armed it waits at most uncovered_wait_limit fetches, and
\* handlers delay it by the grace once (fetchHook).
PromptDelivery == lag <= HandlerGrace + UncoveredWaitLimit + 1

\* Handler bodies get the whole grace before a second policy exception cuts them
\* short (terminationException grants it, the hook draws it down).
GraceHonoured == deliveries = 2 => spent = HandlerGrace

\* "completion after observation is bounded" (docs/sandboxing.md): once a cause is
\* on record, an allocation was refused or the deadline has passed, the body ends.
DoomedExecutionEnds ==
  (termination_bits \cup oom_bits # {} \/ deadline = "passed") ~> (at = "ended")

=============================================================================
