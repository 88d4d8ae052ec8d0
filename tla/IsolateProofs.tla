---------------------------- MODULE IsolateProofs ----------------------------
(***************************************************************************)
(* Type correctness of Isolate, that the operation lock really serializes  *)
(* the isolate, for any number of threads, and that gas is accounted for:  *)
(* TypeOK, ExclusiveUse, FreeLockIsIdle and the properties of gas; then    *)
(* that a cause stays on record and reaches the host.                      *)
(*                                                                         *)
(* TypeOK is inductive as it stands; the others are not.  That every       *)
(* exit leaves the phase idle needs the phase of every stage of an         *)
(* operation, and that only the lock holder is attributed needs to know at *)
(* which stages a thread is attributed.                                    *)
(***************************************************************************)
EXTENDS Isolate, TLAPS

(***************************************************************************)
(* Type correctness.                                                       *)
(***************************************************************************)
\* The operations of a meter yield meters, its snapshot a snapshot.
LEMMA MeterTypes ==
  ASSUME NEW m \in Meters, NEW scope
  PROVE  /\ ObserveFetch(m) \in Meters
         /\ ChargeFetch(m) \in Meters
         /\ NextGeneration(m) \in Meters
         /\ FinishGeneration(m, scope) \in Meters
         /\ Snapshot(m) \in Snapshots
<1>1. ObserveFetch(m) \in Meters
  BY DEF Meters, ObserveFetch, FetchFindsEmpty
<1>2. ChargeFetch(m) \in Meters
  <2>1. CASE m.active /\ m.remaining # 0
    <3>1. m.remaining - 1 \in Nat /\ m.used + 1 \in Nat
      BY <2>1 DEF Meters
    <3> QED BY <2>1, <3>1 DEF Meters, ChargeFetch
  <2>2. CASE ~(m.active /\ m.remaining # 0)
    BY <2>2 DEF ChargeFetch
  <2> QED BY <2>1, <2>2
<1>3. NextGeneration(m) \in Meters
  BY GasAssumption DEF Meters, NextGeneration
<1>4. FinishGeneration(m, scope) \in Meters
  BY DEF Meters, FinishGeneration
<1>5. Snapshot(m) \in Snapshots
  BY DEF Meters, Snapshots, Snapshot
<1> QED BY <1>1, <1>2, <1>3, <1>4, <1>5

\* selectedTermination returns the most important recorded cause.
LEMMA SelectedFirst ==
  ASSUME NEW bits \in SUBSET Kinds, bits # {}
  PROVE  /\ SelectedTermination(bits) \in bits
         /\ \A j \in bits : Rank[SelectedTermination(bits)] <= Rank[j]
<1>1. \E k \in bits : \A j \in bits : Rank[k] <= Rank[j]
  <2>1. CASE "memory" \in bits
    BY <2>1 DEF Rank, Kinds
  <2>2. CASE "memory" \notin bits /\ "script" \in bits
    BY <2>2 DEF Rank, Kinds
  <2>3. CASE "memory" \notin bits /\ "script" \notin bits /\ "deadline" \in bits
    BY <2>3 DEF Rank, Kinds
  <2>4. CASE bits \subseteq {"call_depth", "gas"} /\ "call_depth" \in bits
    BY <2>4 DEF Rank, Kinds
  <2>5. CASE bits = {"gas"}
    BY <2>5 DEF Rank, Kinds
  <2> QED BY <2>1, <2>2, <2>3, <2>4, <2>5 DEF Kinds
<1> QED BY <1>1 DEF SelectedTermination

\* One call of the hook keeps the types of the hook's state.
LEMMA FetchType ==
  ASSUME HookTypeOK, NEW catchable \in BOOLEAN, NEW deep \in BOOLEAN,
         FetchRaises(catchable, deep) \/ FetchContinues(catchable, deep)
  PROVE  HookTypeOK'
<1>1. NotedAtFetch(deep) \in SUBSET Kinds
  BY DEF HookTypeOK, NotedAtFetch, SyncOomCause, Kinds
<1>2. ObserveFetch(gas_meter) \in Meters /\ ChargeFetch(ObserveFetch(gas_meter)) \in Meters
  BY MeterTypes DEF HookTypeOK
<1>3. CASE FetchRaises(catchable, deep)
  <2>1. handler_grace' \in 0 .. HandlerGrace /\ uncovered_waits' \in 0 .. UncoveredWaitLimit
    BY <1>3, HookAssumption DEF HookTypeOK, FetchRaises, GrantedGrace
  <2>2. raise_pending' \in BOOLEAN /\ grace_armed' \in BOOLEAN /\ mrb_exc' \in BOOLEAN
    BY <1>3 DEF FetchRaises
  <2>3. termination_bits' \in SUBSET Kinds /\ gas_meter' \in Meters
    BY <1>1, <1>2, <1>3 DEF FetchRaises
  <2> QED BY <1>3, <2>1, <2>2, <2>3 DEF HookTypeOK, FetchRaises
<1>4. CASE FetchContinues(catchable, deep)
  <2>1. termination_bits' \in SUBSET Kinds
    BY <1>1, <1>4 DEF FetchContinues, PollDeadline, Kinds
  <2>2. uncovered_waits' \in 0 .. UncoveredWaitLimit
    BY <1>4, HookAssumption DEF HookTypeOK, FetchContinues, DeliveredHere
  <2>3. raise_pending' \in BOOLEAN
    BY <1>4 DEF FetchContinues
  <2>4. handler_grace' \in 0 .. HandlerGrace
    BY <1>4, HookAssumption DEF HookTypeOK, FetchContinues
  <2>5. clock_countdown' \in 1 .. ClockBatch
    BY <1>4, HookAssumption DEF HookTypeOK, FetchContinues
  <2>6. gas_meter' \in Meters
    BY <1>2, <1>4 DEF FetchContinues
  <2> QED BY <1>4, <2>1, <2>2, <2>3, <2>4, <2>5, <2>6 DEF HookTypeOK, FetchContinues
<1> QED BY <1>3, <1>4

\* terminationError of a recorded cause is one of the termination errors.
LEMMA SelectedError ==
  ASSUME NEW bits \in SUBSET Kinds, bits # {}
  PROVE  TerminationError[SelectedTermination(bits)] \in TerminationErrors
<1>1. SelectedTermination(bits) \in Kinds
  BY SelectedFirst
<1> QED BY <1>1 DEF TerminationErrors

\* Polling for causes yields causes; rejectPending looks at some of them.
LEMMA CauseTypes ==
  ASSUME HookTypeOK
  PROVE  /\ CausesAtEntry \in SUBSET Kinds
         /\ termination_bits \cup SyncOomCause \in SUBSET Kinds
         /\ Polled \in SUBSET Kinds
         /\ \A ignore_gas : Rejecting(ignore_gas) \in SUBSET Polled
  BY DEF HookTypeOK, CausesAtEntry, Polled, Rejecting, SyncOomCause,
         PollDeadline, Kinds

\* clearGasDelivery resets the delivery protocol within its bounds.
LEMMA ClearedType ==
  ASSUME ClearGasDelivery
  PROVE  /\ raise_pending' \in BOOLEAN /\ grace_armed' \in BOOLEAN
         /\ uncovered_waits' \in 0 .. UncoveredWaitLimit
         /\ handler_grace' \in 0 .. HandlerGrace
<1>1. raise_pending' \in BOOLEAN /\ grace_armed' \in BOOLEAN
  BY DEF ClearGasDelivery
<1>2. uncovered_waits' \in 0 .. UncoveredWaitLimit /\ handler_grace' \in 0 .. HandlerGrace
  BY HookAssumption DEF ClearGasDelivery
<1> QED BY <1>1, <1>2

\* rejectPending keeps the types of what it writes.
LEMMA RejectOrType ==
  ASSUME TypeOK, NEW t \in Threads, NEW ignore_gas \in BOOLEAN,
         NEW pass \in Stages, NEW fail \in Stages,
         RejectOr(t, ignore_gas, pass, fail)
  PROVE  /\ termination_bits' \in SUBSET Kinds
         /\ pc' \in [Threads -> Stages]
         /\ result' \in [Threads -> Results]
<1>1. Polled \in SUBSET Kinds /\ Rejecting(ignore_gas) \in SUBSET Kinds
  BY CauseTypes DEF TypeOK
<1>2. CASE Rejecting(ignore_gas) = {}
  BY <1>1, <1>2 DEF TypeOK, RejectOr, Goto
<1>3. CASE Rejecting(ignore_gas) # {}
  <2>1. TerminationError[SelectedTermination(Rejecting(ignore_gas))] \in Results
    BY <1>1, <1>3, SelectedError DEF Results
  <2> QED BY <1>1, <1>3, <2>1 DEF TypeOK, RejectOr, Goto, Return
<1> QED BY <1>2, <1>3

\* What records a cause and nothing else of a call keeps the types.
LEMMA NotedLateType ==
  ASSUME TypeOK, HookTypeOK', NotedLate
  PROVE  TypeOK'
<1>1. NotedNow \in SUBSET Kinds
  BY DEF HookTypeOK, NotedNow
<1>2. late' \in [Threads -> SUBSET Kinds]
  BY <1>1 DEF TypeOK, NotedLate
<1> QED BY <1>2 DEF TypeOK, NotedLate, isoVars

\* Every step of every thread, and of the environment, keeps the types.
LEMMA TypeStep ==
  ASSUME TypeOK, [Next]_vars
  PROVE  TypeOK'
<1> USE DEF TypeOK, HookTypeOK
<1>1. ASSUME NEW t \in Threads, Step(t)
      PROVE  TypeOK'
  <2>1. CASE \E what \in {"run", "seal"} : Enter(t, what)
    <3>1. CausesAtEntry \in SUBSET Kinds
      BY CauseTypes
    <3> QED BY <2>1, <3>1 DEF Enter, Goto, Return, Stages, Results, Ops, hookVars, deliveryVars
  <2>2. CASE Refuse(t)
    BY <2>2
    DEF Refuse, OuterAdmission, AdmissionErrors, Return, hookVars, isoVars,
        Admission, deliveryVars, Results
  <2>3. CASE RejectImage(t)
    BY <2>3
    DEF RejectImage, Return, Goto, hookVars, isoVars, deliveryVars, Stages,
        Results
  <2>4. CASE BeginOuter(t)
    BY <2>4 DEF BeginOuter, ClearErrorView, Goto, deliveryVars, Stages
  <2>5. CASE Preflight(t)
    <3>1. "capabilities" \in Stages /\ "leave" \in Stages /\ Renewable \in BOOLEAN
      BY DEF Stages, Renewable
    <3>2. /\ termination_bits' \in SUBSET Kinds
          /\ pc' \in [Threads -> Stages]
          /\ result' \in [Threads -> Results]
      BY <2>5, <3>1, RejectOrType DEF Preflight
    <3> QED BY <2>5, <3>2 DEF Preflight, isoVars, deliveryVars
  <2>6. CASE CapabilitiesReady(t)
    BY <2>6
    DEF CapabilitiesReady, Goto, hookVars, isoVars, deliveryVars, Stages
  <2>7. CASE CapabilitiesFailed(t)
    BY <2>7
    DEF CapabilitiesFailed, Return, Goto, hookVars, isoVars, deliveryVars,
        Stages, Results
  <2>8. CASE BeginCapabilities(t)
    BY <2>8
    DEF BeginCapabilities, Attribute, Goto, hookVars, deliveryVars, Stages
  <2>9. CASE \E applied \in BOOLEAN : EndCapabilities(t, applied)
    <3>1. PICK applied \in BOOLEAN : EndCapabilities(t, applied)
      BY <2>9
    <3> DEFINE causes == termination_bits \cup SyncOomCause
    <3>2. causes \in SUBSET Kinds
      BY CauseTypes
    <3>3. causes # {} => TerminationError[SelectedTermination(causes)] \in Results
      BY <3>2, SelectedError DEF Results
    <3>4. result' \in [Threads -> Results]
      BY <3>1, <3>3 DEF EndCapabilities, Return, Results
    <3>5. pc' \in [Threads -> Stages] /\ capabilities' \in {"ready", "failed"}
      BY <3>1 DEF EndCapabilities, CapabilitiesAfter, Goto, Stages
    <3> QED BY <3>1, <3>2, <3>4, <3>5 DEF EndCapabilities, Attribute, deliveryVars
  <2>10. CASE Recheck(t)
    <3> DEFINE pass == IF op[t] = "seal" THEN "sealcheck"
                       ELSE IF Renewable THEN "renew" ELSE "start"
    <3>1. pass \in Stages /\ "leave" \in Stages /\ Renewable \in BOOLEAN
      BY DEF Stages, Renewable
    <3>2. /\ termination_bits' \in SUBSET Kinds
          /\ pc' \in [Threads -> Stages]
          /\ result' \in [Threads -> Results]
      BY <2>10, <3>1, RejectOrType DEF Recheck
    <3> QED BY <2>10, <3>2 DEF Recheck, isoVars, deliveryVars
  <2>11. CASE SealCheck(t)
    <3>1. Polled \in SUBSET Kinds
      BY CauseTypes
    <3>2. Polled # {} => TerminationError[SelectedTermination(Polled)] \in Results
      BY <3>1, SelectedError DEF Results
    <3>3. result' \in [Threads -> Results]
      BY <2>11, <3>2 DEF SealCheck, Return, Results
    <3>4. pc' \in [Threads -> Stages] /\ termination_bits' \in SUBSET Kinds
      BY <2>11, <3>1 DEF SealCheck, Goto, Stages
    <3> QED BY <2>11, <3>3, <3>4 DEF SealCheck, isoVars, deliveryVars
  <2>12. CASE RenewGas(t)
    BY <2>12 DEF RenewGas, ForgiveGas, Goto, deliveryVars, isoVars, Stages
  <2>13. CASE CommitGas(t)
    <3>1. "start" \in Stages /\ "leave" \in Stages
      BY DEF Stages
    <3>2. /\ termination_bits' \in SUBSET Kinds
          /\ pc' \in [Threads -> Stages]
          /\ result' \in [Threads -> Results]
      BY <2>13, <3>1, RejectOrType DEF CommitGas
    <3>3. gas_meter' \in Meters
      BY <2>13, MeterTypes DEF CommitGas
    <3>4. /\ raise_pending' \in BOOLEAN /\ grace_armed' \in BOOLEAN
          /\ uncovered_waits' \in 0 .. UncoveredWaitLimit
          /\ handler_grace' \in 0 .. HandlerGrace
      <4>1. CASE Rejecting(TRUE) = {}
        BY <2>13, <4>1, ClearedType DEF CommitGas
      <4>2. CASE Rejecting(TRUE) # {}
        BY <2>13, <4>2 DEF CommitGas, deliveryVars
      <4> QED BY <4>1, <4>2
    <3> QED BY <2>13, <3>2, <3>3, <3>4 DEF CommitGas, isoVars
  <2>14. CASE StartRunning(t)
    BY <2>14 DEF StartRunning, Goto, hookVars, deliveryVars, Stages
  <2>15. CASE Guard(t)
    <3>1. "body" \in Stages /\ "finish" \in Stages
      BY DEF Stages
    <3>2. /\ termination_bits' \in SUBSET Kinds
          /\ pc' \in [Threads -> Stages]
          /\ result' \in [Threads -> Results]
      BY <2>15, <3>1, RejectOrType DEF Guard
    <3>3. current_cell' \in [Threads -> {"none", "own", "foreign"}] /\ mrb_exc' \in BOOLEAN
      BY <2>15 DEF Guard, Attribute
    <3> QED BY <2>15, <3>2, <3>3 DEF Guard, isoVars, deliveryVars
  <2>16. CASE GuestFetch(t)
    <3>1. PICK catchable \in BOOLEAN, deep \in BOOLEAN :
            FetchRaises(catchable, deep) \/ FetchContinues(catchable, deep)
      <4>1. policy.depth \in BOOLEAN
        BY HookAssumption DEF PolicySet
      <4> QED BY <2>16, <4>1 DEF GuestFetch
    <3>2. HookTypeOK'
      BY <3>1, FetchType
    <3> QED BY <2>16, <3>2, NotedLateType DEF GuestFetch
  <2>17. CASE GuestException(t)
    BY <2>17 DEF GuestException, deliveryVars, isoVars, threadVars
  <2>18. CASE CallHost(t)
    BY <2>18 DEF CallHost, Goto, hookVars, isoVars, deliveryVars, Stages
  <2>19. CASE EnterNested(t)
    <3>1. frames[t] \in 0 .. MaxNesting /\ frames[t] + 1 \in 0 .. MaxNesting
      BY <2>19, IsolateAssumption DEF EnterNested
    <3>2. frames' \in [Threads -> 0 .. MaxNesting]
      BY <2>19, <3>1 DEF EnterNested
    <3>3. pc' \in [Threads -> Stages] /\ mrb_exc' \in BOOLEAN
      BY <2>19 DEF EnterNested, Goto, Stages
    <3> QED BY <2>19, <3>2, <3>3 DEF EnterNested, isoVars, deliveryVars
  <2>20. CASE LeaveNested(t)
    <3>1. frames[t] \in 0 .. MaxNesting /\ frames[t] - 1 \in 0 .. MaxNesting
      BY <2>20, IsolateAssumption DEF LeaveNested
    <3>2. frames' \in [Threads -> 0 .. MaxNesting]
      BY <2>20, <3>1 DEF LeaveNested
    <3>3. pc' \in [Threads -> Stages]
      BY <2>20 DEF LeaveNested, Goto, Stages
    <3> QED BY <2>20, <3>2, <3>3 DEF LeaveNested, hookVars, isoVars, deliveryVars
  <2>21. CASE ReturnFromCallback(t)
    BY <2>21 DEF ReturnFromCallback, Goto, deliveryVars, isoVars, Stages
  <2>22. CASE \E r \in {"ok", "RubyException", "OtherError"} : EndBody(t, r)
    BY <2>22
    DEF EndBody, Return, Goto, hookVars, isoVars, deliveryVars, Stages,
        Results
  <2>23. CASE Arbitrate(t)
    <3>1. Polled \in SUBSET Kinds
      BY CauseTypes
    <3>2. Polled # {} => TerminationError[SelectedTermination(Polled)] \in Results
      BY <3>1, SelectedError DEF Results
    <3>3. result' \in [Threads -> Results]
      BY <2>23, <3>2 DEF Arbitrate, Return
    <3>4. mrb_exc' \in BOOLEAN /\ pc' \in [Threads -> Stages]
      BY <2>23 DEF Arbitrate, Goto, Stages
    <3> QED BY <2>23, <3>1, <3>3, <3>4 DEF Arbitrate, isoVars, deliveryVars
  <2>24. CASE CaptureErrorView(t)
    BY <2>24 DEF CaptureErrorView, Goto, deliveryVars, Stages
  <2>25. CASE Remap(t)
    <3>1. Polled \in SUBSET Kinds
      BY CauseTypes
    <3>2. Polled # {} => TerminationError[SelectedTermination(Polled)] \in Results
      BY <3>1, SelectedError DEF Results
    <3>3. result' \in [Threads -> Results]
      BY <2>25, <3>2 DEF Remap, Return
    <3>4. error_view' \in BOOLEAN
      BY <2>25 DEF Remap, ClearErrorView
    <3>5. pc' \in [Threads -> Stages] /\ termination_bits' \in SUBSET Kinds
      BY <2>25, <3>1 DEF Remap, Goto, Stages
    <3> QED BY <2>25, <3>3, <3>4, <3>5 DEF Remap, deliveryVars
  <2>26. CASE FinishExecution(t)
    <3>1. gas_meter' \in Meters /\ last_gas' \in Snapshots
      BY <2>26, MeterTypes DEF FinishExecution
    <3>2. /\ raise_pending' \in BOOLEAN /\ grace_armed' \in BOOLEAN
          /\ uncovered_waits' \in 0 .. UncoveredWaitLimit
          /\ handler_grace' \in 0 .. HandlerGrace
          /\ termination_bits' \in SUBSET Kinds
      <4>1. CASE Renewable
        <5>1. ClearGasDelivery
          BY <2>26, <4>1 DEF FinishExecution
        <5>2. termination_bits' \in SUBSET Kinds
          BY <2>26, <4>1 DEF FinishExecution, ForgiveGas
        <5> QED BY <5>1, <5>2, ClearedType
      <4>2. CASE ~Renewable
        BY <2>26, <4>2 DEF FinishExecution, deliveryVars
      <4> QED BY <4>1, <4>2
    <3> QED BY <2>26, <3>1, <3>2 DEF FinishExecution, Attribute, Goto, Stages
  <2>27. CASE Leave(t)
    BY <2>27
    DEF Leave, Return, Goto, hookVars, deliveryVars, Stages, Results, Ops
  <2>28. CASE \E what \in HostOps : EnterHost(t, what)
    BY <2>28
    DEF EnterHost, Return, Goto, hookVars, deliveryVars, Stages, Results, Ops,
        HostOps
  <2>29. CASE HostMemoryCheck(t)
    <3>1. "memory" \in Kinds /\ "MemoryLimitExceeded" \in Results
      BY DEF Kinds, Results, TerminationErrors, TerminationError
    <3>2. termination_bits' \in SUBSET Kinds /\ mrb_exc' \in BOOLEAN
      BY <2>29, <3>1 DEF HostMemoryCheck
    <3> QED BY <2>29, <3>1, <3>2
        DEF HostMemoryCheck, Attribute, Goto, Return, Stages, isoVars, deliveryVars
  <2>30. CASE RejectCapsule(t)
    BY <2>30
    DEF RejectCapsule, Return, Goto, hookVars, isoVars, deliveryVars, Stages,
        Results
  <2>31. CASE \E r \in {"ok", "RubyException", "OtherError"} : AttributedBody(t, r)
    <3>1. "memory" \in Kinds /\ "MemoryLimitExceeded" \in Results
      BY DEF Kinds, Results, TerminationErrors, TerminationError
    <3>2. termination_bits' \in SUBSET Kinds /\ mrb_exc' \in BOOLEAN
      BY <2>31, <3>1 DEF AttributedBody
    <3>3. {"ok", "RubyException", "OtherError", "MemoryLimitExceeded"} \subseteq Results
      BY <3>1 DEF Results
    <3>4. \E r \in Results : result' = [result EXCEPT ![t] = r]
      BY <2>31, <3>3 DEF AttributedBody, Return
    <3>5. result' \in [Threads -> Results]
      BY <3>4
    <3>6. pc' \in [Threads -> Stages]
      BY <2>31 DEF AttributedBody, Goto, Stages
    <3> QED BY <2>31, <3>2, <3>5, <3>6 DEF AttributedBody, hostBodyUnchanged, deliveryVars
  <2>32. CASE ClearErrorBody(t)
    BY <2>32
    DEF ClearErrorBody, Return, ClearErrorView, Goto, hostBodyUnchanged,
        deliveryVars, Stages, Results
  <2>33. CASE \E r \in {"ok", "OtherError"} : ExportBody(t, r)
    BY <2>33
    DEF ExportBody, Return, Goto, hostBodyUnchanged, deliveryVars, Stages,
        Results
  <2>34. CASE \E r \in {"ok", "OtherError", "OutOfMemory"} : MaterializeBody(t, r)
    <3>1. {"ok", "OtherError", "OutOfMemory", "MemoryLimitExceeded"} \subseteq Results
      BY DEF Kinds, Results, TerminationErrors, TerminationError
    <3>2. \E r \in Results : result' = [result EXCEPT ![t] = r]
      BY <2>34, <3>1 DEF MaterializeBody, Return
    <3>3. result' \in [Threads -> Results]
      BY <3>2
    <3>4. pc' \in [Threads -> Stages] /\ mrb_exc' \in BOOLEAN
      BY <2>34 DEF MaterializeBody, Goto, Stages
    <3> QED BY <2>34, <3>3, <3>4 DEF MaterializeBody, hostBodyUnchanged, deliveryVars
  <2>35. CASE LeaveHost(t)
    BY <2>35
    DEF LeaveHost, Attribute, UnlockIdlePhase, Return, Goto, hookVars,
        deliveryVars, Stages, Results, Ops
  <2>36. CASE EnterForeign(t)
    BY <2>36 DEF EnterForeign, Attribute, hookVars, isoVars, deliveryVars
  <2>37. CASE LeaveForeign(t)
    BY <2>37 DEF LeaveForeign, Attribute, hookVars, isoVars, deliveryVars
  <2> QED BY <1>1, <2>1, <2>2, <2>3, <2>4, <2>5, <2>6, <2>7, <2>8, <2>9, <2>10, <2>11,
     <2>12, <2>13, <2>14, <2>15, <2>16, <2>17, <2>18, <2>19, <2>20, <2>21,
     <2>22, <2>23, <2>24, <2>25, <2>26, <2>27, <2>28, <2>29, <2>30, <2>31,
     <2>32, <2>33, <2>34, <2>35, <2>36, <2>37
  DEF Step
<1>2. CASE Terminate
  <2>1. HookTypeOK'
    BY <1>2 DEF Terminate, NoteScript, deliveryVars, Kinds
  <2> QED BY <1>2, <2>1, NotedLateType DEF Terminate
<1>3. CASE DeadlinePasses
  BY <1>3 DEF DeadlinePasses, ClockPasses, isoVars, threadVars, deliveryVars
<1>4. CASE MemoryCapCrossed
  BY <1>4 DEF MemoryCapCrossed, CapCrossed, isoVars, threadVars, deliveryVars
<1>5. CASE MemoryLimitCallback
  <2>1. HookTypeOK'
    BY <1>5 DEF MemoryLimitCallback, LimitCallback, deliveryVars, Kinds
  <2> QED BY <1>5, <2>1, NotedLateType DEF MemoryLimitCallback
<1>6. CASE BootstrapFetch
  <2>1. PICK catchable \in BOOLEAN, deep \in BOOLEAN :
          FetchRaises(catchable, deep) \/ FetchContinues(catchable, deep)
    <3>1. policy.depth \in BOOLEAN
      BY HookAssumption DEF PolicySet
    <3> QED BY <1>6, <3>1 DEF BootstrapFetch
  <2>2. HookTypeOK'
    BY <2>1, FetchType
  <2> QED BY <1>6, <2>2 DEF BootstrapFetch, isoVars, threadVars
<1>7. CASE BootstrapException
  BY <1>7 DEF BootstrapException, deliveryVars, isoVars, threadVars
<1>8. CASE UNCHANGED vars
  BY <1>8 DEF vars, hookVars, isoVars, threadVars, deliveryVars
<1> QED BY <1>1, <1>2, <1>3, <1>4, <1>5, <1>6, <1>7, <1>8 DEF Next

\* The state create returns is well typed.
LEMMA TypeInit == Init => TypeOK
<1> SUFFICES ASSUME Init PROVE TypeOK
  OBVIOUS
<1>1. InitMeter(policy.gas) \in Meters
  BY GasAssumption DEF InitMeter, Meters
<1>2. HookTypeOK
  <2>1. raise_pending \in BOOLEAN /\ grace_armed \in BOOLEAN /\ mrb_exc \in BOOLEAN
    BY DEF Init, HookInit
  <2> QED BY <1>1, <2>1, HookAssumption DEF Init, HookInit, HookTypeOK
<1>3. last_gas \in Snapshots
  BY <1>2, MeterTypes DEF Init, HookTypeOK
<1>4. sealed \in BOOLEAN /\ seal_failed \in BOOLEAN /\ error_view \in BOOLEAN
  BY DEF Init
<1> QED BY <1>2, <1>3, <1>4, IsolateAssumption DEF Init, TypeOK, Stages, Ops, Results

\* Every variable stays in its type, in particular every counter of the hook in
\* its range: the waits of an armed cause never pass uncovered_wait_limit and the
\* grace never exceeds what terminationException grants.
THEOREM TypeCorrect == Spec => []TypeOK
<1>1. TypeOK /\ [Next]_vars => TypeOK'
  BY TypeStep
<1> QED BY <1>1, TypeInit, PTL DEF Spec

----------------------------------------------------------------------------
(***************************************************************************)
(* The operation lock.                                                     *)
(***************************************************************************)
\* The phase an operation has set when it is at a stage.
PhaseAt(stage) ==
  IF stage \in {"applying", "hostcheck", "host", "hostleave"} THEN "preparing"
  ELSE IF stage \in {"guard", "body", "callback", "arbitrate", "capture",
                     "remap", "finish"} THEN "running"
  ELSE "idle"

\* The stages between pushIsolate and restoreIsolate.
Attributed == {"applying", "body", "callback", "arbitrate", "capture", "remap",
               "finish", "hostcheck", "host", "hostleave"}

\* The lock discipline: the holder is the thread that is in an operation, the phase
\* is the one of its stage, and the attribution is confined to the bracket.
Exclusion ==
  /\ \A t \in Threads : pc[t] # "idle" => holder = t /\ phase = PhaseAt(pc[t])
  /\ \A t \in Threads : current_cell[t] = "own" => pc[t] \in Attributed
  /\ holder = NoThread => phase = "idle"

\* Who is admitted from outside found the isolate free and idle.
LEMMA OuterAdmitted ==
  ASSUME TypeOK, NEW t \in Threads, Admission(t) = "outer"
  PROVE  current_cell[t] = "none" /\ holder = NoThread /\ phase = "idle"
<1>1. phase \in {"idle", "preparing", "running"}
      /\ current_cell[t] \in {"none", "own", "foreign"}
  BY DEF TypeOK
<1> QED BY <1>1 DEF Admission

\* Every step keeps the lock discipline.
LEMMA ExclusionStep ==
  ASSUME TypeOK, Exclusion, [Next]_vars
  PROVE  Exclusion'
<1>0. /\ pc \in [Threads -> Stages]
      /\ current_cell \in [Threads -> {"none", "own", "foreign"}]
      /\ NoThread \notin Threads
  BY IsolateAssumption DEF TypeOK
<1> USE <1>0 DEF Exclusion
<1>1. ASSUME NEW t \in Threads, Step(t)
      PROVE  Exclusion'
  <2>1. CASE \E what \in {"run", "seal"} : Enter(t, what)
    BY <2>1, OuterAdmitted DEF Enter, Goto, PhaseAt, Attributed
  <2>2. CASE Refuse(t)
    BY <2>2 DEF Refuse, isoVars
  <2>3. CASE RejectImage(t)
    BY <2>3 DEF RejectImage, Goto, isoVars, PhaseAt, Attributed
  <2>4. CASE BeginOuter(t)
    BY <2>4 DEF BeginOuter, Goto, PhaseAt, Attributed
  <2>5. CASE Preflight(t)
    BY <2>5 DEF Preflight, RejectOr, isoVars, Goto, PhaseAt, Attributed
  <2>6. CASE CapabilitiesReady(t)
    BY <2>6 DEF CapabilitiesReady, Goto, isoVars, PhaseAt, Attributed
  <2>7. CASE CapabilitiesFailed(t)
    BY <2>7 DEF CapabilitiesFailed, Goto, isoVars, PhaseAt, Attributed
  <2>8. CASE BeginCapabilities(t)
    BY <2>8 DEF BeginCapabilities, Attribute, Goto, PhaseAt, Attributed
  <2>9. CASE \E applied \in BOOLEAN : EndCapabilities(t, applied)
    BY <2>9 DEF EndCapabilities, Goto, Attribute, PhaseAt, Attributed
  <2>10. CASE Recheck(t)
    BY <2>10 DEF Recheck, RejectOr, isoVars, Goto, PhaseAt, Attributed
  <2>11. CASE SealCheck(t)
    BY <2>11 DEF SealCheck, Goto, isoVars, PhaseAt, Attributed
  <2>12. CASE RenewGas(t)
    BY <2>12 DEF RenewGas, Goto, isoVars, PhaseAt, Attributed
  <2>13. CASE CommitGas(t)
    BY <2>13 DEF CommitGas, RejectOr, isoVars, Goto, PhaseAt, Attributed
  <2>14. CASE StartRunning(t)
    BY <2>14 DEF StartRunning, Goto, PhaseAt, Attributed
  <2>15. CASE Guard(t)
    BY <2>15 DEF Guard, RejectOr, Attribute, isoVars, Goto, PhaseAt, Attributed
  <2>16. CASE GuestFetch(t)
    BY <2>16 DEF GuestFetch, isoVars, NotedLate
  <2>17. CASE GuestException(t)
    BY <2>17 DEF GuestException, isoVars, threadVars
  <2>18. CASE CallHost(t)
    BY <2>18 DEF CallHost, Goto, isoVars, PhaseAt, Attributed
  <2>19. CASE EnterNested(t)
    BY <2>19 DEF EnterNested, Goto, isoVars, PhaseAt, Attributed
  <2>20. CASE LeaveNested(t)
    BY <2>20 DEF LeaveNested, Goto, isoVars, PhaseAt, Attributed
  <2>21. CASE ReturnFromCallback(t)
    BY <2>21 DEF ReturnFromCallback, Goto, isoVars, PhaseAt, Attributed
  <2>22. CASE \E r \in {"ok", "RubyException", "OtherError"} : EndBody(t, r)
    BY <2>22 DEF EndBody, Goto, isoVars, PhaseAt, Attributed
  <2>23. CASE Arbitrate(t)
    BY <2>23 DEF Arbitrate, Goto, isoVars, PhaseAt, Attributed
  <2>24. CASE CaptureErrorView(t)
    BY <2>24 DEF CaptureErrorView, Goto, PhaseAt, Attributed
  <2>25. CASE Remap(t)
    BY <2>25 DEF Remap, Goto, PhaseAt, Attributed
  <2>26. CASE FinishExecution(t)
    BY <2>26 DEF FinishExecution, Attribute, Goto, PhaseAt, Attributed
  <2>27. CASE Leave(t)
    BY <2>27 DEF Leave, Goto, PhaseAt, Attributed
  <2>28. CASE \E what \in HostOps : EnterHost(t, what)
    BY <2>28, OuterAdmitted
    DEF EnterHost, Goto, PhaseAt, Attributed, OuterAdmission
  <2>29. CASE HostMemoryCheck(t)
    BY <2>29 DEF HostMemoryCheck, Attribute, Goto, isoVars, PhaseAt, Attributed
  <2>30. CASE RejectCapsule(t)
    BY <2>30 DEF RejectCapsule, Goto, isoVars, PhaseAt, Attributed
  <2>31. CASE \E r \in {"ok", "RubyException", "OtherError"} : AttributedBody(t, r)
    BY <2>31 DEF AttributedBody, Goto, hostBodyUnchanged, PhaseAt, Attributed
  <2>32. CASE ClearErrorBody(t)
    BY <2>32 DEF ClearErrorBody, Goto, hostBodyUnchanged, PhaseAt, Attributed
  <2>33. CASE \E r \in {"ok", "OtherError"} : ExportBody(t, r)
    BY <2>33 DEF ExportBody, Goto, hostBodyUnchanged, PhaseAt, Attributed
  <2>34. CASE \E r \in {"ok", "OtherError", "OutOfMemory"} : MaterializeBody(t, r)
    BY <2>34 DEF MaterializeBody, Goto, hostBodyUnchanged, PhaseAt, Attributed
  <2>35. CASE LeaveHost(t)
    BY <2>35
    DEF LeaveHost, Attribute, UnlockIdlePhase, Goto, PhaseAt, Attributed
  <2>36. CASE EnterForeign(t)
    BY <2>36 DEF EnterForeign, Attribute, isoVars, Attributed
  <2>37. CASE LeaveForeign(t)
    BY <2>37 DEF LeaveForeign, Attribute, isoVars, Attributed
  <2> QED BY <1>1, <2>1, <2>2, <2>3, <2>4, <2>5, <2>6, <2>7, <2>8, <2>9, <2>10, <2>11,
     <2>12, <2>13, <2>14, <2>15, <2>16, <2>17, <2>18, <2>19, <2>20, <2>21,
     <2>22, <2>23, <2>24, <2>25, <2>26, <2>27, <2>28, <2>29, <2>30, <2>31,
     <2>32, <2>33, <2>34, <2>35, <2>36, <2>37
  DEF Step
<1>2. CASE Terminate
  BY <1>2 DEF Terminate, isoVars, NotedLate
<1>3. CASE DeadlinePasses
  BY <1>3 DEF DeadlinePasses, isoVars, threadVars
<1>4. CASE MemoryCapCrossed
  BY <1>4 DEF MemoryCapCrossed, isoVars, threadVars
<1>5. CASE MemoryLimitCallback
  BY <1>5 DEF MemoryLimitCallback, isoVars, NotedLate
<1>6. CASE BootstrapFetch
  BY <1>6 DEF BootstrapFetch, isoVars, threadVars
<1>7. CASE BootstrapException
  BY <1>7 DEF BootstrapException, isoVars, threadVars
<1>8. CASE UNCHANGED vars
  BY <1>8 DEF vars, isoVars, threadVars
<1> QED BY <1>1, <1>2, <1>3, <1>4, <1>5, <1>6, <1>7, <1>8 DEF Next

\* The lock discipline holds in every reachable state.
LEMMA ExclusionInvariant == Spec => [](TypeOK /\ Exclusion)
<1>1. Init => Exclusion
  BY DEF Init, Exclusion
<1>2. TypeOK /\ Exclusion /\ [Next]_vars => Exclusion'
  BY ExclusionStep
<1>3. Spec => []TypeOK
  BY TypeCorrect
<1> QED BY <1>1, <1>2, <1>3, PTL DEF Spec

\* Whatever the number of threads, only the lock holder is inside an operation
\* or carries the isolate's allocator attribution.
THEOREM ExclusiveUseHolds == Spec => []ExclusiveUse
<1>1. TypeOK /\ Exclusion => ExclusiveUse
  BY DEF Exclusion, ExclusiveUse, Attributed
<1> QED BY <1>1, ExclusionInvariant, PTL

\* Every path out of every operation releases the lock in the idle phase.
THEOREM FreeLockIsIdleHolds == Spec => []FreeLockIsIdle
<1>1. TypeOK /\ Exclusion => FreeLockIsIdle
  BY IsolateAssumption DEF Exclusion, FreeLockIsIdle
<1> QED BY <1>1, ExclusionInvariant, PTL

(***************************************************************************)
(* Gas and delivery: GasLedger, ArmedHasCause and RenewableGasConfined.    *)
(*                                                                         *)
(* The strengthening ties an active renewable meter to the stages between  *)
(* its renewal and the end of the execution, and says that a renewable     *)
(* meter that is not active has left no gas cause behind.                  *)
(***************************************************************************)
\* What a meter reports adds up.
Ledger(m) ==
  /\ m.used + m.remaining = GasLimit
  /\ m.exhausted => m.remaining = 0

\* The stages of an execution whose generation is committed.
Metered == {"start", "guard", "body", "callback", "arbitrate", "capture",
            "remap", "finish"}

\* Some part of the delivery protocol is not in its initial state.
Armed == raise_pending \/ grace_armed \/ handler_grace + uncovered_waits > 0

\* The strengthening of the gas properties.
GasInv ==
  /\ \A t \in Threads : pc[t] \in {"renew", "commit"} => Renewable
  /\ Renewable /\ gas_meter.active => \E t \in Threads : pc[t] \in Metered
  /\ Renewable /\ ~gas_meter.active =>
       "gas" \notin termination_bits /\ last_gas = Snapshot(gas_meter)
  /\ Armed => termination_bits # {}
  /\ Ledger(gas_meter)
  /\ \A t \in Threads : pc[t] = "applying" => capabilities = "pending"

\* Each operation of the meter keeps its ledger; fetches leave an inactive one alone.
LEMMA MeterSteps ==
  ASSUME NEW m \in Meters, Ledger(m), NEW scope
  PROVE  /\ Ledger(ObserveFetch(m)) /\ Ledger(ChargeFetch(m))
         /\ Ledger(NextGeneration(m)) /\ Ledger(FinishGeneration(m, scope))
         /\ ObserveFetch(m).active = m.active
         /\ ChargeFetch(m).active = m.active
         /\ ~m.active => ObserveFetch(m) = m /\ ChargeFetch(m) = m
<1>1. Ledger(ObserveFetch(m)) /\ ObserveFetch(m).active = m.active
  BY DEF Meters, Ledger, ObserveFetch, FetchFindsEmpty
<1>2. Ledger(ChargeFetch(m)) /\ ChargeFetch(m).active = m.active
  <2>1. CASE m.active /\ m.remaining # 0
    <3>1. ChargeFetch(m) = [m EXCEPT !.remaining = m.remaining - 1, !.used = m.used + 1]
      BY <2>1 DEF ChargeFetch
    <3>2. /\ ChargeFetch(m).remaining = m.remaining - 1
          /\ ChargeFetch(m).used = m.used + 1
          /\ ChargeFetch(m).exhausted = m.exhausted
          /\ ChargeFetch(m).active = m.active
      BY <3>1 DEF Meters
    <3>3. m.used \in Nat /\ m.remaining \in Nat /\ GasLimit \in Nat
      BY GasAssumption DEF Meters
    <3> QED BY <2>1, <3>2, <3>3 DEF Ledger
  <2>2. CASE ~(m.active /\ m.remaining # 0)
    BY <2>2 DEF ChargeFetch
  <2> QED BY <2>1, <2>2
<1>3. Ledger(NextGeneration(m))
  BY GasAssumption DEF Ledger, NextGeneration
<1>4. Ledger(FinishGeneration(m, scope))
  BY DEF Meters, Ledger, FinishGeneration
<1>5. ~m.active => ObserveFetch(m) = m /\ ChargeFetch(m) = m
  BY DEF Meters, ObserveFetch, FetchFindsEmpty, ChargeFetch
<1> QED BY <1>1, <1>2, <1>3, <1>4, <1>5

\* What one call of the hook does to the gas invariant's parts.
LEMMA FetchKeepsGas ==
  ASSUME HookTypeOK, Armed => termination_bits # {}, Ledger(gas_meter),
         NEW catchable \in BOOLEAN, NEW deep \in BOOLEAN,
         FetchRaises(catchable, deep) \/ FetchContinues(catchable, deep)
  PROVE  /\ termination_bits \subseteq termination_bits'
         /\ (Armed => termination_bits # {})'
         /\ Ledger(gas_meter')
         /\ gas_meter'.active = gas_meter.active
         /\ ~gas_meter.active =>
              /\ gas_meter' = gas_meter
              /\ "gas" \in termination_bits' => "gas" \in termination_bits
         /\ policy' = policy
<1>0. gas_meter \in Meters /\ ObserveFetch(gas_meter) \in Meters
  BY MeterTypes DEF HookTypeOK
<1>1. /\ Ledger(ObserveFetch(gas_meter))
      /\ Ledger(ChargeFetch(ObserveFetch(gas_meter)))
      /\ ObserveFetch(gas_meter).active = gas_meter.active
      /\ ChargeFetch(ObserveFetch(gas_meter)).active = gas_meter.active
      /\ ~gas_meter.active => /\ ObserveFetch(gas_meter) = gas_meter
                              /\ ChargeFetch(ObserveFetch(gas_meter)) = gas_meter
  BY <1>0, MeterSteps
<1>2. /\ termination_bits \subseteq NotedAtFetch(deep)
      /\ ~gas_meter.active /\ "gas" \in NotedAtFetch(deep) => "gas" \in termination_bits
  BY DEF NotedAtFetch, FetchFindsEmpty, SyncOomCause
<1>3. CASE FetchRaises(catchable, deep)
  BY <1>1, <1>2, <1>3 DEF FetchRaises
<1>4. CASE FetchContinues(catchable, deep)
  <2>1. NotedAtFetch(deep) \subseteq termination_bits'
        /\ ("gas" \in termination_bits' => "gas" \in NotedAtFetch(deep))
    BY <1>4 DEF FetchContinues, PollDeadline
  <2>2. gas_meter' = ObserveFetch(gas_meter) \/ gas_meter' = ChargeFetch(ObserveFetch(gas_meter))
    BY <1>4 DEF FetchContinues
  <2>3. policy' = policy
    BY <1>4 DEF FetchContinues
  <2>4. (Armed => termination_bits # {})'
    <3> SUFFICES ASSUME termination_bits' = {} PROVE ~Armed'
      OBVIOUS
    <3>1. NotedAtFetch(deep) = {} /\ termination_bits = {}
      BY <1>2, <2>1
    <3>2. /\ ~raise_pending /\ ~grace_armed
          /\ uncovered_waits = 0 /\ handler_grace = 0
      BY <3>1 DEF Armed, HookTypeOK
    <3>3. ~raise_pending' /\ ~grace_armed'
      BY <1>4, <3>1, <3>2 DEF FetchContinues
    <3>4. uncovered_waits' = 0 /\ handler_grace' = 0
      BY <1>4, <3>1, <3>2 DEF FetchContinues, Deliverable
    <3> QED BY <3>3, <3>4 DEF Armed
  <2> QED BY <1>1, <1>2, <2>1, <2>2, <2>3, <2>4
<1> QED BY <1>3, <1>4

\* Every step keeps the gas invariant.
LEMMA GasStep ==
  ASSUME TypeOK, Exclusion, GasInv, [Next]_vars
  PROVE  GasInv'
<1>0. /\ pc \in [Threads -> Stages]
      /\ gas_meter \in Meters
      /\ termination_bits \in SUBSET Kinds
  BY DEF TypeOK, HookTypeOK
<1> USE <1>0 DEF GasInv
<1>1. ASSUME NEW t \in Threads, Step(t)
      PROVE  GasInv'
  <2>1. CASE \E what \in {"run", "seal"} : Enter(t, what)
    BY <2>1 DEF Enter, Goto, hookVars, deliveryVars, Renewable, Metered, Armed
  <2>2. CASE Refuse(t)
    BY <2>2 DEF Refuse, hookVars, isoVars, deliveryVars, Renewable, Armed
  <2>3. CASE RejectImage(t)
    BY <2>3
    DEF RejectImage, Goto, hookVars, isoVars, deliveryVars, Renewable,
        Metered, Armed
  <2>4. CASE BeginOuter(t)
    BY <2>4 DEF BeginOuter, Goto, deliveryVars, Renewable, Metered, Armed
  <2>5. CASE Preflight(t)
    BY <2>5
    DEF Preflight, RejectOr, Renewable, deliveryVars, isoVars, Polled, Goto,
        SyncOomCause, PollDeadline, Metered, Armed
  <2>6. CASE CapabilitiesReady(t)
    BY <2>6
    DEF CapabilitiesReady, Goto, hookVars, isoVars, deliveryVars, Renewable,
        Metered, Armed
  <2>7. CASE CapabilitiesFailed(t)
    BY <2>7
    DEF CapabilitiesFailed, Goto, hookVars, isoVars, deliveryVars, Renewable,
        Metered, Armed
  <2>8. CASE BeginCapabilities(t)
    BY <2>8
    DEF BeginCapabilities, Goto, hookVars, deliveryVars, Renewable, Metered,
        Armed
  <2>9. CASE \E applied \in BOOLEAN : EndCapabilities(t, applied)
    BY <2>9
    DEF EndCapabilities, SyncOomCause, CapabilitiesAfter, Goto, deliveryVars,
        Renewable, Metered, Armed, Exclusion
  <2>10. CASE Recheck(t)
    BY <2>10
    DEF Recheck, RejectOr, Renewable, deliveryVars, isoVars, Polled, Goto,
        SyncOomCause, PollDeadline, Metered, Armed
  <2>11. CASE SealCheck(t)
    BY <2>11
    DEF SealCheck, Polled, Goto, deliveryVars, isoVars, SyncOomCause,
        PollDeadline, Renewable, Metered, Armed
  <2>12. CASE RenewGas(t)
    <3>1. ~gas_meter.active
      <4>1. Renewable /\ \A u \in Threads : pc[u] \notin Metered
        BY <2>12 DEF RenewGas, Exclusion, Metered
      <4> QED BY <4>1
    <3>2. termination_bits' = termination_bits
      BY <2>12, <3>1 DEF RenewGas, ForgiveGas
    <3> QED BY <2>12, <3>1, <3>2
        DEF RenewGas, Goto, isoVars, deliveryVars, Renewable, Metered, Armed
  <2>13. CASE CommitGas(t)
    <3>1. termination_bits' = Polled
      BY <2>13 DEF CommitGas, RejectOr
    <3>2. CASE Rejecting(TRUE) = {}
      <4>1. gas_meter' = NextGeneration(gas_meter) /\ gas_meter'.active
        BY <2>13, <3>2 DEF CommitGas, NextGeneration
      <4>2. ~Armed'
        BY <2>13, <3>2 DEF CommitGas, ClearGasDelivery, Armed
      <4>3. Ledger(gas_meter')
        BY <4>1, MeterSteps
      <4> QED BY <2>13, <3>2, <4>1, <4>2, <4>3
          DEF CommitGas, RejectOr, Goto, Renewable, Metered, isoVars
    <3>3. CASE Rejecting(TRUE) # {}
      BY <2>13, <3>1, <3>3
      DEF CommitGas, RejectOr, Goto, Return, Renewable, Metered, isoVars, Armed,
          deliveryVars, Polled, SyncOomCause, PollDeadline
    <3> QED BY <3>2, <3>3
  <2>14. CASE StartRunning(t)
    BY <2>14
    DEF StartRunning, Goto, hookVars, deliveryVars, Renewable, Metered, Armed
  <2>15. CASE Guard(t)
    BY <2>15
    DEF Guard, RejectOr, deliveryVars, isoVars, Polled, Goto, SyncOomCause,
        PollDeadline, Renewable, Metered, Armed
  <2>16. CASE GuestFetch(t)
    <3>1. PICK catchable \in BOOLEAN, deep \in BOOLEAN :
            FetchRaises(catchable, deep) \/ FetchContinues(catchable, deep)
      <4>1. policy.depth \in BOOLEAN
        BY HookAssumption DEF TypeOK, HookTypeOK, PolicySet
      <4> QED BY <2>16, <4>1 DEF GuestFetch
    <3>2. /\ (Armed => termination_bits # {})'
          /\ Ledger(gas_meter')
          /\ gas_meter'.active = gas_meter.active
          /\ ~gas_meter.active =>
               /\ gas_meter' = gas_meter
               /\ "gas" \in termination_bits' => "gas" \in termination_bits
          /\ policy' = policy
      BY <3>1, FetchKeepsGas DEF TypeOK
    <3> QED BY <2>16, <3>2 DEF GuestFetch, Renewable, isoVars, NotedLate
  <2>17. CASE GuestException(t)
    BY <2>17
    DEF GuestException, deliveryVars, isoVars, threadVars, Renewable, Armed
  <2>18. CASE CallHost(t)
    BY <2>18
    DEF CallHost, Goto, hookVars, isoVars, deliveryVars, Renewable, Metered,
        Armed
  <2>19. CASE EnterNested(t)
    BY <2>19
    DEF EnterNested, Goto, deliveryVars, isoVars, Renewable, Metered, Armed
  <2>20. CASE LeaveNested(t)
    BY <2>20
    DEF LeaveNested, Goto, hookVars, isoVars, deliveryVars, Renewable,
        Metered, Armed
  <2>21. CASE ReturnFromCallback(t)
    BY <2>21
    DEF ReturnFromCallback, Goto, deliveryVars, isoVars, Renewable, Metered,
        Armed
  <2>22. CASE \E r \in {"ok", "RubyException", "OtherError"} : EndBody(t, r)
    BY <2>22
    DEF EndBody, Goto, hookVars, isoVars, deliveryVars, Renewable, Metered,
        Armed
  <2>23. CASE Arbitrate(t)
    BY <2>23
    DEF Arbitrate, Polled, Goto, deliveryVars, isoVars, SyncOomCause,
        PollDeadline, Renewable, Metered, Armed
  <2>24. CASE CaptureErrorView(t)
    BY <2>24
    DEF CaptureErrorView, Goto, deliveryVars, Renewable, Metered, Armed
  <2>25. CASE Remap(t)
    BY <2>25
    DEF Remap, Polled, Goto, deliveryVars, SyncOomCause, PollDeadline,
        Renewable, Metered, Armed
  <2>26. CASE FinishExecution(t)
    <3>1. /\ Ledger(FinishGeneration(gas_meter, policy.gas))
          /\ Renewable => /\ ~FinishGeneration(gas_meter, policy.gas).active
                          /\ Snapshot(FinishGeneration(gas_meter, policy.gas))
                               = Snapshot(gas_meter)
      BY MeterSteps DEF Meters, Renewable, FinishGeneration, Snapshot
    <3>2. CASE Renewable
      <4>1. ~Armed'
        BY <2>26, <3>2 DEF FinishExecution, ClearGasDelivery, Armed
      <4> QED BY <2>26, <3>1, <3>2, <4>1
          DEF FinishExecution, ForgiveGas, Goto, Renewable
    <3>3. CASE ~Renewable
      BY <2>26, <3>1, <3>3
      DEF FinishExecution, Goto, Renewable, deliveryVars, Armed
    <3> QED BY <3>2, <3>3
  <2>27. CASE Leave(t)
    BY <2>27 DEF Leave, Goto, hookVars, deliveryVars, Renewable, Metered, Armed
  <2>28. CASE \E what \in HostOps : EnterHost(t, what)
    BY <2>28
    DEF EnterHost, Goto, hookVars, deliveryVars, Renewable, Metered, Armed
  <2>29. CASE HostMemoryCheck(t)
    BY <2>29
    DEF HostMemoryCheck, Goto, deliveryVars, isoVars, Renewable, Metered,
        Armed
  <2>30. CASE RejectCapsule(t)
    BY <2>30
    DEF RejectCapsule, Goto, hookVars, isoVars, deliveryVars, Renewable,
        Metered, Armed
  <2>31. CASE \E r \in {"ok", "RubyException", "OtherError"} : AttributedBody(t, r)
    <3>1. /\ termination_bits \subseteq termination_bits'
          /\ "gas" \in termination_bits' => "gas" \in termination_bits
      <4>1. \/ termination_bits' = termination_bits \cup {"memory"}
            \/ termination_bits' = termination_bits
        BY <2>31 DEF AttributedBody
      <4> QED BY <4>1
    <3>2. pc' = [pc EXCEPT ![t] = "hostleave"] /\ pc[t] = "host"
      BY <2>31 DEF AttributedBody, Goto
    <3> QED BY <2>31, <3>1, <3>2
        DEF AttributedBody, hostBodyUnchanged, deliveryVars, Renewable, Metered, Armed
  <2>32. CASE ClearErrorBody(t)
    BY <2>32
    DEF ClearErrorBody, Goto, hostBodyUnchanged, deliveryVars, Renewable,
        Metered, Armed
  <2>33. CASE \E r \in {"ok", "OtherError"} : ExportBody(t, r)
    BY <2>33
    DEF ExportBody, Goto, hostBodyUnchanged, deliveryVars, Renewable, Metered,
        Armed
  <2>34. CASE \E r \in {"ok", "OtherError", "OutOfMemory"} : MaterializeBody(t, r)
    BY <2>34
    DEF MaterializeBody, Goto, hostBodyUnchanged, deliveryVars, Renewable,
        Metered, Armed
  <2>35. CASE LeaveHost(t)
    BY <2>35
    DEF LeaveHost, UnlockIdlePhase, Goto, hookVars, deliveryVars, Renewable,
        Metered, Armed
  <2>36. CASE EnterForeign(t)
    BY <2>36
    DEF EnterForeign, hookVars, isoVars, deliveryVars, Renewable, Armed
  <2>37. CASE LeaveForeign(t)
    BY <2>37
    DEF LeaveForeign, hookVars, isoVars, deliveryVars, Renewable, Armed
  <2> QED BY <1>1, <2>1, <2>2, <2>3, <2>4, <2>5, <2>6, <2>7, <2>8, <2>9, <2>10, <2>11,
     <2>12, <2>13, <2>14, <2>15, <2>16, <2>17, <2>18, <2>19, <2>20, <2>21,
     <2>22, <2>23, <2>24, <2>25, <2>26, <2>27, <2>28, <2>29, <2>30, <2>31,
     <2>32, <2>33, <2>34, <2>35, <2>36, <2>37
  DEF Step
<1>2. CASE Terminate
  BY <1>2
  DEF Terminate, NoteScript, isoVars, NotedLate, deliveryVars, Renewable,
      Armed
<1>3. CASE DeadlinePasses
  BY <1>3
  DEF DeadlinePasses, ClockPasses, isoVars, threadVars, deliveryVars,
      Renewable, Armed
<1>4. CASE MemoryCapCrossed
  BY <1>4
  DEF MemoryCapCrossed, CapCrossed, isoVars, threadVars, deliveryVars,
      Renewable, Armed
<1>5. CASE MemoryLimitCallback
  BY <1>5
  DEF MemoryLimitCallback, LimitCallback, isoVars, NotedLate, deliveryVars,
      Renewable, Armed
<1>6. CASE BootstrapFetch
  <2>1. PICK catchable \in BOOLEAN, deep \in BOOLEAN :
          FetchRaises(catchable, deep) \/ FetchContinues(catchable, deep)
    <3>1. policy.depth \in BOOLEAN
      BY HookAssumption DEF TypeOK, HookTypeOK, PolicySet
    <3> QED BY <1>6, <3>1 DEF BootstrapFetch
  <2>2. /\ (Armed => termination_bits # {})'
        /\ Ledger(gas_meter')
        /\ gas_meter'.active = gas_meter.active
        /\ ~gas_meter.active =>
             /\ gas_meter' = gas_meter
             /\ "gas" \in termination_bits' => "gas" \in termination_bits
        /\ policy' = policy
    BY <2>1, FetchKeepsGas DEF TypeOK
  <2> QED BY <1>6, <2>2 DEF BootstrapFetch, Renewable, isoVars, threadVars
<1>7. CASE BootstrapException
  BY <1>7
  DEF BootstrapException, deliveryVars, isoVars, threadVars, Renewable, Armed
<1>8. CASE UNCHANGED vars
  BY <1>8 DEF vars, hookVars, isoVars, threadVars, deliveryVars, Renewable, Armed
<1> QED BY <1>1, <1>2, <1>3, <1>4, <1>5, <1>6, <1>7, <1>8 DEF Next

\* The gas invariant holds in every reachable state.
LEMMA GasInvariant == Spec => [](TypeOK /\ Exclusion /\ GasInv)
<1>1. Init => GasInv
  <2> SUFFICES ASSUME Init PROVE GasInv
    OBVIOUS
  <2>1. Ledger(gas_meter)
    BY GasAssumption DEF Init, HookInit, InitMeter, Ledger
  <2>2. ~Armed
    BY DEF Init, HookInit, Armed
  <2>3. Renewable => ~gas_meter.active
    BY DEF Init, HookInit, InitMeter, Renewable
  <2> QED BY <2>1, <2>2, <2>3 DEF Init, HookInit, GasInv
<1>2. TypeOK /\ Exclusion /\ GasInv /\ [Next]_vars => GasInv'
  BY GasStep
<1> QED BY <1>1, <1>2, ExclusionInvariant, PTL DEF Spec

\* used + remaining = limit in every reachable state, and exhaustion means an
\* empty allowance, whatever the limit.
THEOREM GasLedgerHolds == Spec => []GasLedger
<1>1. GasInv => GasLedger
  BY DEF GasInv, Ledger, GasLedger
<1> QED BY <1>1, GasInvariant, PTL

\* The hook is never armed without a recorded cause.
THEOREM ArmedHasCauseHolds == Spec => []ArmedHasCause
<1>1. GasInv => ArmedHasCause
  BY DEF GasInv, Armed, ArmedHasCause
<1> QED BY <1>1, GasInvariant, PTL

\* Renewable gas never outlives the execution that spent it.
THEOREM RenewableGasConfinedHolds == Spec => []RenewableGasConfined
<1>1. TypeOK /\ Exclusion /\ GasInv => RenewableGasConfined
  <2> SUFFICES ASSUME TypeOK, Exclusion, GasInv, Renewable, holder = NoThread
               PROVE  /\ "gas" \notin termination_bits
                      /\ ~gas_meter.active
                      /\ Armed => termination_bits # {}
                      /\ last_gas = Snapshot(gas_meter)
    BY DEF RenewableGasConfined, Armed
  <2>1. \A t \in Threads : pc[t] \notin Metered
    BY IsolateAssumption DEF Exclusion, Metered
  <2> QED BY <2>1 DEF GasInv
<1> QED BY <1>1, GasInvariant, PTL

----------------------------------------------------------------------------
(***************************************************************************)
(* Causes are sticky and reach the host: StickyCauses, DoomedNeverRuns,    *)
(* CauseSurfaces, ErrorViewHonest and SealFailureIsFinal.                  *)
(*                                                                         *)
(* The strengthening follows the causes an admitted call has to answer for *)
(* through its stages: they stay on record until a preflight check reports *)
(* them, every later stage of the preflight and the body itself is reached *)
(* only when there are none, and what is on record when the body returns   *)
(* is still on record when the result is arbitrated.  The view is followed *)
(* from the call that drops it to the one that captures it, and a failed   *)
(* seal to the obstacle it left, which no step removes.                    *)
(***************************************************************************)
\* What a step may forgive, and what it must keep.
KeepsCauses ==
  /\ termination_bits \ termination_bits' \subseteq
       (IF policy.gas = "execution" THEN {"gas"} ELSE {})
  /\ oom_bits \subseteq oom_bits'
  /\ capabilities = "failed" => capabilities' = "failed"

\* Every step keeps the sticky causes.
LEMMA KeepsCausesStep ==
  ASSUME TypeOK, GasInv, [Next]_vars
  PROVE  KeepsCauses
<1> USE DEF KeepsCauses
<1>1. ASSUME NEW t \in Threads, Step(t)
      PROVE  KeepsCauses
  <2>1. CASE \E what \in {"run", "seal"} : Enter(t, what)
    BY <2>1 DEF Enter, hookVars
  <2>2. CASE Refuse(t)
    BY <2>2 DEF Refuse, hookVars, isoVars
  <2>3. CASE RejectImage(t)
    BY <2>3 DEF RejectImage, hookVars, isoVars
  <2>4. CASE BeginOuter(t)
    BY <2>4 DEF BeginOuter
  <2>5. CASE Preflight(t)
    BY <2>5 DEF Preflight, RejectOr, isoVars, Polled
  <2>6. CASE CapabilitiesReady(t)
    BY <2>6 DEF CapabilitiesReady, hookVars, isoVars
  <2>7. CASE CapabilitiesFailed(t)
    BY <2>7 DEF CapabilitiesFailed, hookVars, isoVars
  <2>8. CASE BeginCapabilities(t)
    BY <2>8 DEF BeginCapabilities, hookVars
  <2>9. CASE \E applied \in BOOLEAN : EndCapabilities(t, applied)
    BY <2>9 DEF EndCapabilities, GasInv
  <2>10. CASE Recheck(t)
    BY <2>10 DEF Recheck, RejectOr, isoVars, Polled
  <2>11. CASE SealCheck(t)
    BY <2>11 DEF SealCheck, Polled, isoVars
  <2>12. CASE RenewGas(t)
    BY <2>12 DEF RenewGas, ForgiveGas, isoVars, Renewable, GasInv
  <2>13. CASE CommitGas(t)
    BY <2>13 DEF CommitGas, RejectOr, isoVars, Polled
  <2>14. CASE StartRunning(t)
    BY <2>14 DEF StartRunning, hookVars
  <2>15. CASE Guard(t)
    BY <2>15 DEF Guard, RejectOr, isoVars, Polled
  <2>16. CASE GuestFetch(t)
    <3>1. PICK catchable \in BOOLEAN, deep \in BOOLEAN :
            FetchRaises(catchable, deep) \/ FetchContinues(catchable, deep)
      <4>1. policy.depth \in BOOLEAN
        BY HookAssumption DEF TypeOK, HookTypeOK, PolicySet
      <4> QED BY <2>16, <4>1 DEF GuestFetch
    <3>2. termination_bits \subseteq termination_bits'
      BY <3>1, FetchKeepsGas DEF TypeOK, GasInv
    <3>3. oom_bits' = oom_bits
      BY <3>1 DEF FetchRaises, FetchContinues
    <3> QED BY <2>16, <3>2, <3>3 DEF GuestFetch, isoVars, NotedLate
  <2>17. CASE GuestException(t)
    BY <2>17 DEF GuestException, isoVars
  <2>18. CASE CallHost(t)
    BY <2>18 DEF CallHost, hookVars, isoVars
  <2>19. CASE EnterNested(t)
    BY <2>19 DEF EnterNested, isoVars
  <2>20. CASE LeaveNested(t)
    BY <2>20 DEF LeaveNested, hookVars, isoVars
  <2>21. CASE ReturnFromCallback(t)
    BY <2>21 DEF ReturnFromCallback, isoVars
  <2>22. CASE \E r \in {"ok", "RubyException", "OtherError"} : EndBody(t, r)
    BY <2>22 DEF EndBody, hookVars, isoVars
  <2>23. CASE Arbitrate(t)
    BY <2>23 DEF Arbitrate, Polled, isoVars
  <2>24. CASE CaptureErrorView(t)
    BY <2>24 DEF CaptureErrorView
  <2>25. CASE Remap(t)
    BY <2>25 DEF Remap, Polled
  <2>26. CASE FinishExecution(t)
    BY <2>26 DEF FinishExecution, ForgiveGas, Renewable
  <2>27. CASE Leave(t)
    BY <2>27 DEF Leave, hookVars
  <2>28. CASE \E what \in HostOps : EnterHost(t, what)
    BY <2>28 DEF EnterHost, hookVars
  <2>29. CASE HostMemoryCheck(t)
    BY <2>29 DEF HostMemoryCheck, isoVars
  <2>30. CASE RejectCapsule(t)
    BY <2>30 DEF RejectCapsule, hookVars, isoVars
  <2>31. CASE \E r \in {"ok", "RubyException", "OtherError"} : AttributedBody(t, r)
    BY <2>31 DEF AttributedBody, hostBodyUnchanged
  <2>32. CASE ClearErrorBody(t)
    BY <2>32 DEF ClearErrorBody, hostBodyUnchanged
  <2>33. CASE \E r \in {"ok", "OtherError"} : ExportBody(t, r)
    BY <2>33 DEF ExportBody, hostBodyUnchanged
  <2>34. CASE \E r \in {"ok", "OtherError", "OutOfMemory"} : MaterializeBody(t, r)
    BY <2>34 DEF MaterializeBody, hostBodyUnchanged
  <2>35. CASE LeaveHost(t)
    BY <2>35 DEF LeaveHost, hookVars
  <2>36. CASE EnterForeign(t)
    BY <2>36 DEF EnterForeign, hookVars, isoVars
  <2>37. CASE LeaveForeign(t)
    BY <2>37 DEF LeaveForeign, hookVars, isoVars
  <2> QED BY <1>1, <2>1, <2>2, <2>3, <2>4, <2>5, <2>6, <2>7, <2>8, <2>9, <2>10, <2>11,
     <2>12, <2>13, <2>14, <2>15, <2>16, <2>17, <2>18, <2>19, <2>20, <2>21,
     <2>22, <2>23, <2>24, <2>25, <2>26, <2>27, <2>28, <2>29, <2>30, <2>31,
     <2>32, <2>33, <2>34, <2>35, <2>36, <2>37
  DEF Step
<1>2. CASE Terminate
  BY <1>2 DEF Terminate, NoteScript, isoVars, NotedLate
<1>3. CASE DeadlinePasses
  BY <1>3 DEF DeadlinePasses, ClockPasses, isoVars
<1>4. CASE MemoryCapCrossed
  BY <1>4 DEF MemoryCapCrossed, CapCrossed, isoVars
<1>5. CASE MemoryLimitCallback
  BY <1>5 DEF MemoryLimitCallback, LimitCallback, isoVars, NotedLate
<1>6. CASE BootstrapFetch
  <2>1. PICK catchable \in BOOLEAN, deep \in BOOLEAN :
          FetchRaises(catchable, deep) \/ FetchContinues(catchable, deep)
    <3>1. policy.depth \in BOOLEAN
      BY HookAssumption DEF TypeOK, HookTypeOK, PolicySet
    <3> QED BY <1>6, <3>1 DEF BootstrapFetch
  <2>2. termination_bits \subseteq termination_bits'
    BY <2>1, FetchKeepsGas DEF TypeOK, GasInv
  <2>3. oom_bits' = oom_bits
    BY <2>1 DEF FetchRaises, FetchContinues
  <2> QED BY <1>6, <2>2, <2>3 DEF BootstrapFetch, isoVars
<1>7. CASE BootstrapException
  BY <1>7 DEF BootstrapException, isoVars
<1>8. CASE UNCHANGED vars
  BY <1>8 DEF vars, hookVars, isoVars
<1> QED BY <1>1, <1>2, <1>3, <1>4, <1>5, <1>6, <1>7, <1>8 DEF Next

\* No step of any thread forgives a cause other than renewable gas, lowers a
\* memory flag or revives failed capabilities.
THEOREM StickyCausesHold == Spec => StickyCauses
<1>1. TypeOK /\ GasInv /\ [Next]_vars => [KeepsCauses]_vars
  BY KeepsCausesStep
<1>2. [KeepsCauses]_vars <=> [/\ termination_bits \ termination_bits' \subseteq
                                   (IF policy.gas = "execution" THEN {"gas"} ELSE {})
                              /\ oom_bits \subseteq oom_bits'
                              /\ capabilities = "failed" => capabilities' = "failed"]_vars
  BY DEF KeepsCauses
<1> QED BY <1>1, <1>2, GasInvariant, PTL DEF Spec, StickyCauses


\* The stages a call reaches only when it has no cause to answer for.
Cleared == {"capabilities", "applying", "recheck", "sealcheck", "renew",
            "commit", "start", "guard", "body", "callback", "capture", "remap"}

\* The stages behind prepareCapabilities.
Prepared == {"recheck", "sealcheck", "renew", "commit", "start", "guard",
             "body", "callback"}

\* A result that answers for a set of causes.
Answers(r, causes) ==
  \E k \in Kinds : r = TerminationError[k] /\ \A j \in causes : Rank[k] <= Rank[j]

\* The strengthening: where the causes a call must answer for are.
DueInv ==
  \A t \in Threads :
    /\ pc[t] \in {"admitted", "preflight"} =>
         due[t] \subseteq termination_bits /\ (Renewable => "gas" \notin due[t])
    /\ pc[t] \in Cleared => due[t] = {}
    /\ pc[t] \in Prepared => capabilities = "ready"
    /\ pc[t] = "arbitrate" => due[t] \subseteq termination_bits
    /\ pc[t] \in {"finish", "leave"} =>
         due[t] = {} \/ result[t] = "InvalidArtifact" \/ Answers(result[t], due[t])

\* The error of a nonempty set of causes answers for each of its subsets.
LEMMA SelectedAnswers ==
  ASSUME NEW bits \in SUBSET Kinds, bits # {}, NEW causes \in SUBSET bits
  PROVE  Answers(TerminationError[SelectedTermination(bits)], causes)
  BY SelectedFirst DEF Answers

\* Every step keeps track of the causes a call has to answer for.
LEMMA DueStep ==
  ASSUME TypeOK, Exclusion, GasInv, DueInv, [Next]_vars
  PROVE  DueInv'
<1>0. /\ pc \in [Threads -> Stages]
      /\ result \in [Threads -> Results]
      /\ due \in [Threads -> SUBSET Kinds]
      /\ termination_bits \in SUBSET Kinds
      /\ Polled \in SUBSET Kinds /\ termination_bits \subseteq Polled
      /\ \A ignore_gas : Rejecting(ignore_gas) \in SUBSET Kinds
      /\ NoThread \notin Threads
  BY CauseTypes, IsolateAssumption DEF TypeOK, HookTypeOK, Polled
<1> USE <1>0 DEF DueInv
<1>1. ASSUME NEW t \in Threads, Step(t)
      PROVE  DueInv'
  <2>1. CASE \E what \in {"run", "seal"} : Enter(t, what)
    <3>1. PICK what \in {"run", "seal"} : Enter(t, what)
      BY <2>1
    <3>2. holder = NoThread
      BY <3>1, OuterAdmitted DEF Enter
    <3>3. \A u \in Threads : u # t => pc[u] = "idle" /\ pc'[u] = "idle"
      BY <3>1, <3>2 DEF Enter, Goto, Exclusion
    <3>4. /\ pc'[t] = "admitted" /\ due'[t] = CausesAtEntry
          /\ termination_bits' = termination_bits /\ policy' = policy
      BY <3>1 DEF Enter, Goto, hookVars
    <3> QED BY <3>3, <3>4 DEF CausesAtEntry, Renewable, Cleared, Prepared
  <2>2. CASE Refuse(t)
    BY <2>2 DEF Refuse, Return, hookVars, isoVars, Renewable
  <2>3. CASE RejectImage(t)
    BY <2>3
    DEF RejectImage, Return, Goto, hookVars, isoVars, Exclusion, Cleared,
        Prepared, Renewable
  <2>4. CASE BeginOuter(t)
    BY <2>4 DEF BeginOuter, Goto, Exclusion, Cleared, Prepared, Renewable
  <2>5. CASE Preflight(t)
    <3>1. \A u \in Threads : u # t => pc[u] = "idle" /\ pc'[u] = "idle"
      BY <2>5 DEF Preflight, RejectOr, Goto, Exclusion
    <3>2. due[t] \subseteq Rejecting(Renewable) /\ due' = due
      BY <2>5 DEF Preflight, Rejecting
    <3>3. CASE Rejecting(Renewable) = {}
      <4>1. pc'[t] = "capabilities"
        BY <2>5, <3>3 DEF Preflight, RejectOr, Goto
      <4> QED BY <3>1, <3>2, <3>3, <4>1 DEF Cleared, Prepared
    <3>4. CASE Rejecting(Renewable) # {}
      <4>1. /\ pc'[t] = "leave"
            /\ result'[t] = TerminationError[SelectedTermination(Rejecting(Renewable))]
        BY <2>5, <3>4 DEF Preflight, RejectOr, Goto, Return
      <4>2. Answers(result'[t], due[t])
        BY <3>2, <3>4, <4>1, SelectedAnswers
      <4> QED BY <3>1, <3>2, <4>1, <4>2 DEF Cleared, Prepared
    <3> QED BY <3>3, <3>4
  <2>6. CASE CapabilitiesReady(t)
    BY <2>6
    DEF CapabilitiesReady, Goto, hookVars, isoVars, Exclusion, Cleared,
        Prepared, Renewable
  <2>7. CASE CapabilitiesFailed(t)
    BY <2>7
    DEF CapabilitiesFailed, Return, Goto, hookVars, isoVars, Exclusion,
        Cleared, Prepared, Renewable
  <2>8. CASE BeginCapabilities(t)
    BY <2>8
    DEF BeginCapabilities, Goto, hookVars, Exclusion, Cleared, Prepared,
        Renewable
  <2>9. CASE \E applied \in BOOLEAN : EndCapabilities(t, applied)
    <3>1. PICK applied \in BOOLEAN : EndCapabilities(t, applied)
      BY <2>9
    <3>2. \A u \in Threads : u # t => pc[u] = "idle" /\ pc'[u] = "idle"
      BY <3>1 DEF EndCapabilities, Goto, Exclusion
    <3>3. due[t] = {} /\ due' = due
      BY <3>1 DEF EndCapabilities, Cleared
    <3>4. pc'[t] = "leave" \/ (pc'[t] = "recheck" /\ capabilities' = "ready")
      <4>1. CASE applied /\ termination_bits \cup SyncOomCause = {}
        BY <3>1, <4>1 DEF EndCapabilities, CapabilitiesAfter, Goto
      <4>2. CASE ~(applied /\ termination_bits \cup SyncOomCause = {})
        BY <3>1, <4>2 DEF EndCapabilities, Goto
      <4> QED BY <4>1, <4>2
    <3> QED BY <3>2, <3>3, <3>4 DEF Cleared, Prepared
  <2>10. CASE Recheck(t)
    <3>1. \A u \in Threads : u # t => pc[u] = "idle" /\ pc'[u] = "idle"
      BY <2>10 DEF Recheck, RejectOr, Goto, Exclusion
    <3>2. due[t] = {} /\ due' = due
      BY <2>10 DEF Recheck, Cleared
    <3>3. pc'[t] \in {"sealcheck", "renew", "start", "leave"} /\ capabilities' = "ready"
      BY <2>10 DEF Recheck, RejectOr, Goto, isoVars, Prepared
    <3> QED BY <3>1, <3>2, <3>3 DEF Cleared, Prepared
  <2>11. CASE SealCheck(t)
    BY <2>11
    DEF SealCheck, Return, Goto, isoVars, Exclusion, Cleared, Prepared,
        Renewable
  <2>12. CASE RenewGas(t)
    BY <2>12
    DEF RenewGas, Goto, isoVars, Exclusion, Cleared, Prepared, Renewable
  <2>13. CASE CommitGas(t)
    <3>1. \A u \in Threads : u # t => pc[u] = "idle" /\ pc'[u] = "idle"
      BY <2>13 DEF CommitGas, RejectOr, Goto, Exclusion
    <3>2. due[t] = {} /\ due' = due
      BY <2>13 DEF CommitGas, Cleared
    <3>3. pc'[t] \in {"start", "leave"} /\ capabilities' = "ready"
      BY <2>13 DEF CommitGas, RejectOr, Goto, isoVars, Prepared
    <3> QED BY <3>1, <3>2, <3>3 DEF Cleared, Prepared
  <2>14. CASE StartRunning(t)
    BY <2>14
    DEF StartRunning, Goto, hookVars, Exclusion, Cleared, Prepared, Renewable
  <2>15. CASE Guard(t)
    <3>1. \A u \in Threads : u # t => pc[u] = "idle" /\ pc'[u] = "idle"
      BY <2>15 DEF Guard, RejectOr, Goto, Exclusion
    <3>2. due[t] = {} /\ due' = due
      BY <2>15 DEF Guard, Cleared
    <3>3. pc'[t] \in {"body", "finish"} /\ capabilities' = "ready"
      BY <2>15 DEF Guard, RejectOr, Goto, isoVars, Prepared
    <3> QED BY <3>1, <3>2, <3>3 DEF Cleared, Prepared
  <2>16. CASE GuestFetch(t)
    <3>1. PICK catchable \in BOOLEAN, deep \in BOOLEAN :
            FetchRaises(catchable, deep) \/ FetchContinues(catchable, deep)
      <4>1. policy.depth \in BOOLEAN
        BY HookAssumption DEF TypeOK, HookTypeOK, PolicySet
      <4> QED BY <2>16, <4>1 DEF GuestFetch
    <3>2. termination_bits \subseteq termination_bits'
      BY <3>1, FetchKeepsGas DEF TypeOK, GasInv
    <3>3. policy' = policy
      BY <3>1 DEF FetchRaises, FetchContinues
    <3> QED BY <2>16, <3>2, <3>3 DEF GuestFetch, isoVars, NotedLate, Renewable
  <2>17. CASE GuestException(t)
    BY <2>17 DEF GuestException, isoVars, threadVars, Renewable
  <2>18. CASE CallHost(t)
    BY <2>18
    DEF CallHost, Goto, hookVars, isoVars, Exclusion, Cleared, Prepared,
        Renewable
  <2>19. CASE EnterNested(t)
    BY <2>19
    DEF EnterNested, Goto, isoVars, Exclusion, Cleared, Prepared, Renewable
  <2>20. CASE LeaveNested(t)
    BY <2>20
    DEF LeaveNested, Goto, hookVars, isoVars, Exclusion, Cleared, Prepared,
        Renewable
  <2>21. CASE ReturnFromCallback(t)
    BY <2>21
    DEF ReturnFromCallback, Goto, isoVars, Exclusion, Cleared, Prepared,
        Renewable
  <2>22. CASE \E r \in {"ok", "RubyException", "OtherError"} : EndBody(t, r)
    BY <2>22
    DEF EndBody, Return, Goto, hookVars, isoVars, Exclusion, Cleared,
        Prepared, Renewable
  <2>23. CASE Arbitrate(t)
    <3>1. \A u \in Threads : u # t => pc[u] = "idle" /\ pc'[u] = "idle"
      BY <2>23 DEF Arbitrate, Goto, Exclusion
    <3>2. due[t] \subseteq Polled /\ due' = due
      BY <2>23 DEF Arbitrate
    <3>3. CASE Polled = {}
      <4>1. pc'[t] \in {"capture", "finish"}
        BY <2>23, <3>3 DEF Arbitrate, Goto
      <4> QED BY <3>1, <3>2, <3>3, <4>1 DEF Cleared, Prepared
    <3>4. CASE Polled # {}
      <4>1. /\ pc'[t] = "finish"
            /\ result'[t] = TerminationError[SelectedTermination(Polled)]
        BY <2>23, <3>4 DEF Arbitrate, Goto, Return
      <4>2. Answers(result'[t], due[t])
        BY <3>2, <3>4, <4>1, SelectedAnswers
      <4> QED BY <3>1, <3>2, <4>1, <4>2 DEF Cleared, Prepared
    <3> QED BY <3>3, <3>4
  <2>24. CASE CaptureErrorView(t)
    BY <2>24
    DEF CaptureErrorView, Goto, Exclusion, Cleared, Prepared, Renewable
  <2>25. CASE Remap(t)
    BY <2>25 DEF Remap, Return, Goto, Exclusion, Cleared, Prepared, Renewable
  <2>26. CASE FinishExecution(t)
    BY <2>26 DEF FinishExecution, Renewable, Goto, Exclusion, Cleared, Prepared
  <2>27. CASE Leave(t)
    BY <2>27
    DEF Leave, Return, Goto, hookVars, Exclusion, Cleared, Prepared, Renewable
  <2>28. CASE \E what \in HostOps : EnterHost(t, what)
    BY <2>28
    DEF EnterHost, Return, Goto, hookVars, Exclusion, Cleared, Prepared,
        Renewable
  <2>29. CASE HostMemoryCheck(t)
    BY <2>29
    DEF HostMemoryCheck, Goto, Return, isoVars, Exclusion, Cleared, Prepared,
        Renewable
  <2>30. CASE RejectCapsule(t)
    BY <2>30
    DEF RejectCapsule, Return, Goto, hookVars, isoVars, Exclusion, Cleared,
        Prepared, Renewable
  <2>31. CASE \E r \in {"ok", "RubyException", "OtherError"} : AttributedBody(t, r)
    BY <2>31
    DEF AttributedBody, Return, Goto, hostBodyUnchanged, Exclusion, Cleared,
        Prepared, Renewable
  <2>32. CASE ClearErrorBody(t)
    BY <2>32
    DEF ClearErrorBody, Return, Goto, hostBodyUnchanged, Exclusion, Cleared,
        Prepared, Renewable
  <2>33. CASE \E r \in {"ok", "OtherError"} : ExportBody(t, r)
    BY <2>33
    DEF ExportBody, Return, Goto, hostBodyUnchanged, Exclusion, Cleared,
        Prepared, Renewable
  <2>34. CASE \E r \in {"ok", "OtherError", "OutOfMemory"} : MaterializeBody(t, r)
    BY <2>34
    DEF MaterializeBody, Return, Goto, hostBodyUnchanged, Exclusion, Cleared,
        Prepared, Renewable
  <2>35. CASE LeaveHost(t)
    BY <2>35
    DEF LeaveHost, Return, Goto, hookVars, Exclusion, Cleared, Prepared,
        Renewable
  <2>36. CASE EnterForeign(t)
    BY <2>36 DEF EnterForeign, hookVars, isoVars, Renewable
  <2>37. CASE LeaveForeign(t)
    BY <2>37 DEF LeaveForeign, hookVars, isoVars, Renewable
  <2> QED BY <1>1, <2>1, <2>2, <2>3, <2>4, <2>5, <2>6, <2>7, <2>8, <2>9, <2>10, <2>11,
     <2>12, <2>13, <2>14, <2>15, <2>16, <2>17, <2>18, <2>19, <2>20, <2>21,
     <2>22, <2>23, <2>24, <2>25, <2>26, <2>27, <2>28, <2>29, <2>30, <2>31,
     <2>32, <2>33, <2>34, <2>35, <2>36, <2>37
  DEF Step
<1>2. CASE Terminate
  BY <1>2 DEF Terminate, NoteScript, isoVars, NotedLate, Renewable
<1>3. CASE DeadlinePasses
  BY <1>3 DEF DeadlinePasses, ClockPasses, isoVars, threadVars, Renewable
<1>4. CASE MemoryCapCrossed
  BY <1>4 DEF MemoryCapCrossed, CapCrossed, isoVars, threadVars, Renewable
<1>5. CASE MemoryLimitCallback
  BY <1>5
  DEF MemoryLimitCallback, LimitCallback, isoVars, NotedLate, Renewable
<1>6. CASE BootstrapFetch
  <2>1. PICK catchable \in BOOLEAN, deep \in BOOLEAN :
          FetchRaises(catchable, deep) \/ FetchContinues(catchable, deep)
    <3>1. policy.depth \in BOOLEAN
      BY HookAssumption DEF TypeOK, HookTypeOK, PolicySet
    <3> QED BY <1>6, <3>1 DEF BootstrapFetch
  <2>2. termination_bits \subseteq termination_bits'
    BY <2>1, FetchKeepsGas DEF TypeOK, GasInv
  <2>3. policy' = policy
    BY <2>1 DEF FetchRaises, FetchContinues
  <2> QED BY <1>6, <2>2, <2>3 DEF BootstrapFetch, isoVars, threadVars, Renewable
<1>7. CASE BootstrapException
  BY <1>7 DEF BootstrapException, isoVars, threadVars, Renewable
<1>8. CASE UNCHANGED vars
  BY <1>8 DEF vars, hookVars, isoVars, threadVars, Renewable
<1> QED BY <1>1, <1>2, <1>3, <1>4, <1>5, <1>6, <1>7, <1>8 DEF Next

\* The causes are tracked in every reachable state.
LEMMA DueInvariant == Spec => [](TypeOK /\ Exclusion /\ GasInv /\ DueInv)
<1>1. Init => DueInv
  BY DEF Init, DueInv, Cleared, Prepared
<1>2. TypeOK /\ Exclusion /\ GasInv /\ DueInv /\ [Next]_vars => DueInv'
  BY DueStep
<1> QED BY <1>1, <1>2, GasInvariant, PTL DEF Spec

\* The causes noted after the admission of a call are on record until its body,
\* and nothing is noted against a call that is past its preflight.
LateInv ==
  \A t \in Threads :
    /\ pc[t] \in BeforeBody => late[t] \subseteq termination_bits \ {"gas"}
    /\ pc[t] \notin BeforeBody \cup {"finish", "leave"} => late[t] = {}

\* What is noted now is on record now.
LEMMA NotedLateStep ==
  ASSUME TypeOK, LateInv, NotedLate, termination_bits \subseteq termination_bits'
  PROVE  LateInv'
  BY DEF TypeOK, LateInv, NotedLate, NotedNow

\* Every step keeps track of the causes noted against a call before its body.
LEMMA LateStep ==
  ASSUME TypeOK, Exclusion, GasInv, LateInv, [Next]_vars
  PROVE  LateInv'
<1>0. /\ pc \in [Threads -> Stages]
      /\ late \in [Threads -> SUBSET Kinds]
      /\ termination_bits \subseteq Polled
  BY DEF TypeOK, Polled
<1> USE <1>0 DEF LateInv
<1>1. ASSUME NEW t \in Threads, Step(t)
      PROVE  LateInv'
  <2>1. CASE \E what \in {"run", "seal"} : Enter(t, what)
    BY <2>1 DEF Enter, Goto, hookVars, BeforeBody
  <2>2. CASE Refuse(t)
    BY <2>2 DEF Refuse, hookVars
  <2>3. CASE RejectImage(t)
    BY <2>3 DEF RejectImage, Goto, hookVars, BeforeBody
  <2>4. CASE BeginOuter(t)
    BY <2>4 DEF BeginOuter, Goto, BeforeBody
  <2>5. CASE Preflight(t)
    <3>1. late' = late /\ termination_bits \subseteq termination_bits'
      BY <2>5 DEF Preflight, RejectOr
    <3>2. pc[t] \in BeforeBody /\ pc' = [pc EXCEPT ![t] = pc'[t]]
      BY <2>5 DEF Preflight, RejectOr, Goto, BeforeBody
    <3>3. pc'[t] \in BeforeBody \cup {"leave"}
      BY <2>5 DEF Preflight, RejectOr, Goto, BeforeBody
    <3> QED BY <3>1, <3>2, <3>3 DEF BeforeBody
  <2>6. CASE CapabilitiesReady(t)
    BY <2>6 DEF CapabilitiesReady, Goto, hookVars, BeforeBody
  <2>7. CASE CapabilitiesFailed(t)
    BY <2>7 DEF CapabilitiesFailed, Goto, hookVars, BeforeBody
  <2>8. CASE BeginCapabilities(t)
    BY <2>8 DEF BeginCapabilities, Goto, hookVars, BeforeBody
  <2>9. CASE \E applied \in BOOLEAN : EndCapabilities(t, applied)
    <3>1. late' = late /\ termination_bits \subseteq termination_bits'
      BY <2>9 DEF EndCapabilities
    <3>2. pc[t] \in BeforeBody /\ pc' = [pc EXCEPT ![t] = pc'[t]]
      BY <2>9 DEF EndCapabilities, Goto, BeforeBody
    <3>3. pc'[t] \in {"recheck", "leave"}
      BY <2>9 DEF EndCapabilities, Goto
    <3> QED BY <3>1, <3>2, <3>3 DEF BeforeBody
  <2>10. CASE Recheck(t)
    <3>1. late' = late /\ termination_bits \subseteq termination_bits'
      BY <2>10 DEF Recheck, RejectOr
    <3>2. pc[t] \in BeforeBody /\ pc' = [pc EXCEPT ![t] = pc'[t]]
      BY <2>10 DEF Recheck, RejectOr, Goto, BeforeBody
    <3>3. pc'[t] \in BeforeBody \cup {"leave"}
      BY <2>10 DEF Recheck, RejectOr, Goto, BeforeBody
    <3> QED BY <3>1, <3>2, <3>3 DEF BeforeBody
  <2>11. CASE SealCheck(t)
    BY <2>11 DEF SealCheck, Goto, BeforeBody
  <2>12. CASE RenewGas(t)
    BY <2>12 DEF RenewGas, ForgiveGas, Goto, BeforeBody
  <2>13. CASE CommitGas(t)
    <3>1. late' = late /\ termination_bits \subseteq termination_bits'
      BY <2>13 DEF CommitGas, RejectOr
    <3>2. pc[t] \in BeforeBody /\ pc' = [pc EXCEPT ![t] = pc'[t]]
      BY <2>13 DEF CommitGas, RejectOr, Goto, BeforeBody
    <3>3. pc'[t] \in BeforeBody \cup {"leave"}
      BY <2>13 DEF CommitGas, RejectOr, Goto, BeforeBody
    <3> QED BY <3>1, <3>2, <3>3 DEF BeforeBody
  <2>14. CASE StartRunning(t)
    BY <2>14 DEF StartRunning, Goto, hookVars, BeforeBody
  <2>15. CASE Guard(t)
    <3>1. late' = late /\ termination_bits \subseteq termination_bits'
      BY <2>15 DEF Guard, RejectOr
    <3>2. pc[t] \in BeforeBody /\ pc' = [pc EXCEPT ![t] = pc'[t]]
      BY <2>15 DEF Guard, RejectOr, Goto, BeforeBody
    <3>3. CASE Rejecting(FALSE) = {}
      <4>1. pc'[t] = "body" /\ late'[t] = {}
        BY <2>15, <3>1, <3>2, <3>3 DEF Guard, RejectOr, Goto, Rejecting
      <4> QED BY <3>1, <3>2, <4>1 DEF BeforeBody
    <3>4. CASE Rejecting(FALSE) # {}
      <4>1. pc'[t] = "finish"
        BY <2>15, <3>4 DEF Guard, RejectOr, Goto
      <4> QED BY <3>1, <3>2, <4>1 DEF BeforeBody
    <3> QED BY <3>3, <3>4
  <2>16. CASE GuestFetch(t)
    <3>1. PICK catchable \in BOOLEAN, deep \in BOOLEAN :
            FetchRaises(catchable, deep) \/ FetchContinues(catchable, deep)
      <4>1. policy.depth \in BOOLEAN
        BY HookAssumption DEF TypeOK, HookTypeOK, PolicySet
      <4> QED BY <2>16, <4>1 DEF GuestFetch
    <3>2. termination_bits \subseteq termination_bits'
      BY <3>1, FetchKeepsGas DEF TypeOK, GasInv
    <3> QED BY <2>16, <3>2, NotedLateStep DEF GuestFetch
  <2>17. CASE GuestException(t)
    BY <2>17 DEF GuestException, threadVars
  <2>18. CASE CallHost(t)
    BY <2>18 DEF CallHost, Goto, hookVars, BeforeBody
  <2>19. CASE EnterNested(t)
    BY <2>19 DEF EnterNested, Goto, BeforeBody
  <2>20. CASE LeaveNested(t)
    BY <2>20 DEF LeaveNested, Goto, hookVars, BeforeBody
  <2>21. CASE ReturnFromCallback(t)
    BY <2>21 DEF ReturnFromCallback, Goto, BeforeBody
  <2>22. CASE \E r \in {"ok", "RubyException", "OtherError"} : EndBody(t, r)
    BY <2>22 DEF EndBody, Goto, hookVars, BeforeBody
  <2>23. CASE Arbitrate(t)
    BY <2>23 DEF Arbitrate, Goto, BeforeBody
  <2>24. CASE CaptureErrorView(t)
    BY <2>24 DEF CaptureErrorView, Goto, BeforeBody
  <2>25. CASE Remap(t)
    BY <2>25 DEF Remap, Goto, BeforeBody
  <2>26. CASE FinishExecution(t)
    <3>1. pc[t] = "finish" /\ pc' = [pc EXCEPT ![t] = "leave"] /\ late' = late
      BY <2>26 DEF FinishExecution, Goto
    <3>2. \A u \in Threads : u # t => pc[u] = "idle"
      BY <2>26 DEF FinishExecution, Exclusion
    <3> QED BY <3>1, <3>2 DEF BeforeBody
  <2>27. CASE Leave(t)
    BY <2>27 DEF Leave, Goto, hookVars, BeforeBody
  <2>28. CASE \E what \in HostOps : EnterHost(t, what)
    BY <2>28 DEF EnterHost, Goto, hookVars, BeforeBody
  <2>29. CASE HostMemoryCheck(t)
    BY <2>29 DEF HostMemoryCheck, Goto, BeforeBody
  <2>30. CASE RejectCapsule(t)
    BY <2>30 DEF RejectCapsule, Goto, hookVars, BeforeBody
  <2>31. CASE \E r \in {"ok", "RubyException", "OtherError"} : AttributedBody(t, r)
    BY <2>31 DEF AttributedBody, Goto, hostBodyUnchanged, BeforeBody
  <2>32. CASE ClearErrorBody(t)
    BY <2>32 DEF ClearErrorBody, Goto, hostBodyUnchanged, BeforeBody
  <2>33. CASE \E r \in {"ok", "OtherError"} : ExportBody(t, r)
    BY <2>33 DEF ExportBody, Goto, hostBodyUnchanged, BeforeBody
  <2>34. CASE \E r \in {"ok", "OtherError", "OutOfMemory"} : MaterializeBody(t, r)
    BY <2>34 DEF MaterializeBody, Goto, hostBodyUnchanged, BeforeBody
  <2>35. CASE LeaveHost(t)
    BY <2>35 DEF LeaveHost, Goto, hookVars, BeforeBody
  <2>36. CASE EnterForeign(t)
    BY <2>36 DEF EnterForeign, hookVars
  <2>37. CASE LeaveForeign(t)
    BY <2>37 DEF LeaveForeign, hookVars
  <2> QED BY <1>1, <2>1, <2>2, <2>3, <2>4, <2>5, <2>6, <2>7, <2>8, <2>9, <2>10, <2>11,
     <2>12, <2>13, <2>14, <2>15, <2>16, <2>17, <2>18, <2>19, <2>20, <2>21,
     <2>22, <2>23, <2>24, <2>25, <2>26, <2>27, <2>28, <2>29, <2>30, <2>31,
     <2>32, <2>33, <2>34, <2>35, <2>36, <2>37
  DEF Step
<1>2. CASE Terminate
  BY <1>2, NotedLateStep DEF Terminate, NoteScript
<1>3. CASE DeadlinePasses
  BY <1>3 DEF DeadlinePasses, ClockPasses, threadVars
<1>4. CASE MemoryCapCrossed
  BY <1>4 DEF MemoryCapCrossed, CapCrossed, threadVars
<1>5. CASE MemoryLimitCallback
  BY <1>5, NotedLateStep DEF MemoryLimitCallback, LimitCallback
<1>6. CASE BootstrapFetch
  <2>1. \A t \in Threads : pc[t] = "idle"
    BY <1>6, IsolateAssumption DEF BootstrapFetch, Exclusion
  <2> QED BY <1>6, <2>1 DEF BootstrapFetch, threadVars, BeforeBody
<1>7. CASE BootstrapException
  BY <1>7 DEF BootstrapException, threadVars
<1>8. CASE UNCHANGED vars
  BY <1>8 DEF vars, hookVars, threadVars
<1> QED BY <1>1, <1>2, <1>3, <1>4, <1>5, <1>6, <1>7, <1>8 DEF Next

\* The causes noted meanwhile are tracked in every reachable state.
LEMMA LateInvariant == Spec => []LateInv
<1>1. Init => LateInv
  BY DEF Init, LateInv
<1>2. TypeOK /\ Exclusion /\ GasInv /\ LateInv /\ [Next]_vars => LateInv'
  BY LateStep
<1> QED BY <1>1, <1>2, GasInvariant, PTL DEF Spec

\* No guest code runs in an execution that was admitted after a sticky cause, or
\* against which terminate(), the allocator or the hook recorded one between its
\* admission and its body.
THEOREM DoomedNeverRunsHolds == Spec => []DoomedNeverRuns
<1>1. DueInv /\ LateInv => DoomedNeverRuns
  BY DEF DueInv, LateInv, DoomedNeverRuns, Cleared, Prepared, BeforeBody
<1> QED BY <1>1, DueInvariant, LateInvariant, PTL

\* A recorded cause, or a more important one, is what the host is told.
THEOREM CauseSurfacesHolds == Spec => []CauseSurfaces
<1>1. DueInv => CauseSurfaces
  BY DEF DueInv, CauseSurfaces, Answers
<1> QED BY <1>1, DueInvariant, PTL

----------------------------------------------------------------------------
\* The stages at which no view may be visible: the previous one was dropped when
\* the execution began, and a new one is not captured yet.
Unseen == {"preflight", "capabilities", "applying", "recheck", "sealcheck",
           "renew", "commit", "start", "guard", "body", "callback",
           "arbitrate", "capture"}

\* The strengthening: where the view of an execution comes from.
ViewInv ==
  \A t \in Threads :
    /\ pc[t] \in Unseen => ~error_view
    /\ pc[t] \in {"capture", "remap"} => result[t] = "RubyException"
    /\ pc[t] \in {"finish", "leave"} /\ error_view =>
         result[t] \in {"RubyException", "InvalidArtifact"}

\* Every step keeps track of the view.
LEMMA ViewStep ==
  ASSUME TypeOK, Exclusion, ViewInv, [Next]_vars
  PROVE  ViewInv'
<1>0. /\ pc \in [Threads -> Stages]
      /\ result \in [Threads -> Results]
      /\ NoThread \notin Threads
  BY IsolateAssumption DEF TypeOK
<1> USE <1>0 DEF ViewInv
<1>1. ASSUME NEW t \in Threads, Step(t)
      PROVE  ViewInv'
  <2>1. CASE \E what \in {"run", "seal"} : Enter(t, what)
    BY <2>1 DEF Enter, Return, Goto, hookVars, Exclusion, Unseen
  <2>2. CASE Refuse(t)
    BY <2>2 DEF Refuse, Return, hookVars, isoVars, Exclusion, Unseen
  <2>3. CASE RejectImage(t)
    BY <2>3
    DEF RejectImage, Return, Goto, hookVars, isoVars, Exclusion, Unseen
  <2>4. CASE BeginOuter(t)
    BY <2>4 DEF BeginOuter, Goto, ClearErrorView, Exclusion, Unseen
  <2>5. CASE Preflight(t)
    BY <2>5 DEF Preflight, isoVars, RejectOr, Return, Goto, Exclusion, Unseen
  <2>6. CASE CapabilitiesReady(t)
    BY <2>6 DEF CapabilitiesReady, Goto, hookVars, isoVars, Exclusion, Unseen
  <2>7. CASE CapabilitiesFailed(t)
    BY <2>7
    DEF CapabilitiesFailed, Return, Goto, hookVars, isoVars, Exclusion,
        Unseen
  <2>8. CASE BeginCapabilities(t)
    BY <2>8 DEF BeginCapabilities, Goto, hookVars, Exclusion, Unseen
  <2>9. CASE \E applied \in BOOLEAN : EndCapabilities(t, applied)
    BY <2>9 DEF EndCapabilities, Return, Goto, Exclusion, Unseen
  <2>10. CASE Recheck(t)
    BY <2>10 DEF Recheck, isoVars, RejectOr, Return, Goto, Exclusion, Unseen
  <2>11. CASE SealCheck(t)
    BY <2>11 DEF SealCheck, Return, Goto, isoVars, Exclusion, Unseen
  <2>12. CASE RenewGas(t)
    BY <2>12 DEF RenewGas, Goto, isoVars, Exclusion, Unseen
  <2>13. CASE CommitGas(t)
    BY <2>13 DEF CommitGas, isoVars, RejectOr, Return, Goto, Exclusion, Unseen
  <2>14. CASE StartRunning(t)
    BY <2>14 DEF StartRunning, Goto, hookVars, Exclusion, Unseen
  <2>15. CASE Guard(t)
    BY <2>15 DEF Guard, isoVars, RejectOr, Return, Goto, Exclusion, Unseen
  <2>16. CASE GuestFetch(t)
    BY <2>16 DEF GuestFetch, isoVars, NotedLate, Exclusion, Unseen
  <2>17. CASE GuestException(t)
    BY <2>17 DEF GuestException, isoVars, threadVars, Exclusion, Unseen
  <2>18. CASE CallHost(t)
    BY <2>18 DEF CallHost, Goto, hookVars, isoVars, Exclusion, Unseen
  <2>19. CASE EnterNested(t)
    BY <2>19 DEF EnterNested, Goto, isoVars, Exclusion, Unseen
  <2>20. CASE LeaveNested(t)
    BY <2>20 DEF LeaveNested, Goto, hookVars, isoVars, Exclusion, Unseen
  <2>21. CASE ReturnFromCallback(t)
    BY <2>21 DEF ReturnFromCallback, Goto, isoVars, Exclusion, Unseen
  <2>22. CASE \E r \in {"ok", "RubyException", "OtherError"} : EndBody(t, r)
    BY <2>22 DEF EndBody, Return, Goto, hookVars, isoVars, Exclusion, Unseen
  <2>23. CASE Arbitrate(t)
    BY <2>23 DEF Arbitrate, Return, Goto, isoVars, Exclusion, Unseen
  <2>24. CASE CaptureErrorView(t)
    BY <2>24 DEF CaptureErrorView, Goto, Exclusion, Unseen
  <2>25. CASE Remap(t)
    BY <2>25 DEF Remap, Return, Goto, ClearErrorView, Exclusion, Unseen
  <2>26. CASE FinishExecution(t)
    BY <2>26 DEF FinishExecution, Goto, Exclusion, Unseen
  <2>27. CASE Leave(t)
    BY <2>27 DEF Leave, Return, Goto, hookVars, Exclusion, Unseen
  <2>28. CASE \E what \in HostOps : EnterHost(t, what)
    BY <2>28 DEF EnterHost, Return, Goto, hookVars, Exclusion, Unseen
  <2>29. CASE HostMemoryCheck(t)
    BY <2>29 DEF HostMemoryCheck, Return, Goto, isoVars, Exclusion, Unseen
  <2>30. CASE RejectCapsule(t)
    BY <2>30
    DEF RejectCapsule, Return, Goto, hookVars, isoVars, Exclusion, Unseen
  <2>31. CASE \E r \in {"ok", "RubyException", "OtherError"} : AttributedBody(t, r)
    BY <2>31
    DEF AttributedBody, Return, Goto, hostBodyUnchanged, Exclusion, Unseen
  <2>32. CASE ClearErrorBody(t)
    BY <2>32
    DEF ClearErrorBody, Return, Goto, ClearErrorView, hostBodyUnchanged,
        Exclusion, Unseen
  <2>33. CASE \E r \in {"ok", "OtherError"} : ExportBody(t, r)
    BY <2>33
    DEF ExportBody, Return, Goto, hostBodyUnchanged, Exclusion, Unseen
  <2>34. CASE \E r \in {"ok", "OtherError", "OutOfMemory"} : MaterializeBody(t, r)
    BY <2>34
    DEF MaterializeBody, Return, Goto, hostBodyUnchanged, Exclusion, Unseen
  <2>35. CASE LeaveHost(t)
    BY <2>35 DEF LeaveHost, Return, Goto, hookVars, Exclusion, Unseen
  <2>36. CASE EnterForeign(t)
    BY <2>36 DEF EnterForeign, hookVars, isoVars, Exclusion, Unseen
  <2>37. CASE LeaveForeign(t)
    BY <2>37 DEF LeaveForeign, hookVars, isoVars, Exclusion, Unseen
  <2> QED
    BY <1>1, <2>1, <2>2, <2>3, <2>4, <2>5, <2>6, <2>7, <2>8, <2>9, <2>10,
       <2>11, <2>12, <2>13, <2>14, <2>15, <2>16, <2>17, <2>18, <2>19,
       <2>20, <2>21, <2>22, <2>23, <2>24, <2>25, <2>26, <2>27, <2>28,
       <2>29, <2>30, <2>31, <2>32, <2>33, <2>34, <2>35, <2>36, <2>37
    DEF Step
<1>2. CASE Terminate
  BY <1>2 DEF Terminate, isoVars, NotedLate
<1>3. CASE DeadlinePasses
  BY <1>3 DEF DeadlinePasses, isoVars, threadVars
<1>4. CASE MemoryCapCrossed
  BY <1>4 DEF MemoryCapCrossed, isoVars, threadVars
<1>5. CASE MemoryLimitCallback
  BY <1>5 DEF MemoryLimitCallback, isoVars, NotedLate
<1>6. CASE BootstrapFetch
  BY <1>6 DEF BootstrapFetch, isoVars, threadVars
<1>7. CASE BootstrapException
  BY <1>7 DEF BootstrapException, isoVars, threadVars
<1>8. CASE UNCHANGED vars
  BY <1>8 DEF vars, hookVars, isoVars, threadVars
<1> QED BY <1>1, <1>2, <1>3, <1>4, <1>5, <1>6, <1>7, <1>8 DEF Next

\* A visible error view belongs to the execution that reports RubyException.
THEOREM ErrorViewHonestHolds == Spec => []ErrorViewHonest
<1>1. Init => ViewInv
  BY DEF Init, ViewInv, Unseen
<1>2. TypeOK /\ Exclusion /\ ViewInv /\ [Next]_vars => ViewInv'
  BY ViewStep
<1>3. ViewInv => ErrorViewHonest
  BY DEF ViewInv, ErrorViewHonest
<1> QED BY <1>1, <1>2, <1>3, ExclusionInvariant, PTL DEF Spec

----------------------------------------------------------------------------
\* What keeps every later seal from succeeding.
Obstacle == capabilities = "failed" \/ Rejecting(Renewable) # {}

\* The clock does not run backwards and the policy is resolved once.
KeepsClock ==
  /\ policy' = policy
  /\ deadline = "passed" => deadline' = "passed"

\* No step sets the clock back or changes the policy.
LEMMA KeepsClockStep ==
  ASSUME TypeOK, [Next]_vars
  PROVE  KeepsClock
<1> USE DEF KeepsClock
<1>1. ASSUME NEW t \in Threads, Step(t)
      PROVE  KeepsClock
  <2>1. CASE \E what \in {"run", "seal"} : Enter(t, what)
    BY <2>1 DEF Enter, hookVars
  <2>2. CASE Refuse(t)
    BY <2>2 DEF Refuse, hookVars
  <2>3. CASE RejectImage(t)
    BY <2>3 DEF RejectImage, hookVars
  <2>4. CASE BeginOuter(t)
    BY <2>4 DEF BeginOuter
  <2>5. CASE Preflight(t)
    BY <2>5 DEF Preflight
  <2>6. CASE CapabilitiesReady(t)
    BY <2>6 DEF CapabilitiesReady, hookVars
  <2>7. CASE CapabilitiesFailed(t)
    BY <2>7 DEF CapabilitiesFailed, hookVars
  <2>8. CASE BeginCapabilities(t)
    BY <2>8 DEF BeginCapabilities, hookVars
  <2>9. CASE \E applied \in BOOLEAN : EndCapabilities(t, applied)
    BY <2>9 DEF EndCapabilities
  <2>10. CASE Recheck(t)
    BY <2>10 DEF Recheck
  <2>11. CASE SealCheck(t)
    BY <2>11 DEF SealCheck
  <2>12. CASE RenewGas(t)
    BY <2>12 DEF RenewGas
  <2>13. CASE CommitGas(t)
    BY <2>13 DEF CommitGas
  <2>14. CASE StartRunning(t)
    BY <2>14 DEF StartRunning, hookVars
  <2>15. CASE Guard(t)
    BY <2>15 DEF Guard
  <2>16. CASE GuestFetch(t)
    <3>1. PICK catchable \in BOOLEAN, deep \in BOOLEAN :
            FetchRaises(catchable, deep) \/ FetchContinues(catchable, deep)
      <4>1. policy.depth \in BOOLEAN
        BY HookAssumption DEF TypeOK, HookTypeOK, PolicySet
      <4> QED BY <2>16, <4>1 DEF GuestFetch
    <3> QED BY <3>1 DEF FetchRaises, FetchContinues
  <2>17. CASE GuestException(t)
    BY <2>17 DEF GuestException
  <2>18. CASE CallHost(t)
    BY <2>18 DEF CallHost, hookVars
  <2>19. CASE EnterNested(t)
    BY <2>19 DEF EnterNested
  <2>20. CASE LeaveNested(t)
    BY <2>20 DEF LeaveNested, hookVars
  <2>21. CASE ReturnFromCallback(t)
    BY <2>21 DEF ReturnFromCallback
  <2>22. CASE \E r \in {"ok", "RubyException", "OtherError"} : EndBody(t, r)
    BY <2>22 DEF EndBody, hookVars
  <2>23. CASE Arbitrate(t)
    BY <2>23 DEF Arbitrate
  <2>24. CASE CaptureErrorView(t)
    BY <2>24 DEF CaptureErrorView
  <2>25. CASE Remap(t)
    BY <2>25 DEF Remap
  <2>26. CASE FinishExecution(t)
    BY <2>26 DEF FinishExecution
  <2>27. CASE Leave(t)
    BY <2>27 DEF Leave, hookVars
  <2>28. CASE \E what \in HostOps : EnterHost(t, what)
    BY <2>28 DEF EnterHost, hookVars
  <2>29. CASE HostMemoryCheck(t)
    BY <2>29 DEF HostMemoryCheck
  <2>30. CASE RejectCapsule(t)
    BY <2>30 DEF RejectCapsule, hookVars
  <2>31. CASE \E r \in {"ok", "RubyException", "OtherError"} : AttributedBody(t, r)
    BY <2>31 DEF AttributedBody, hostBodyUnchanged
  <2>32. CASE ClearErrorBody(t)
    BY <2>32 DEF ClearErrorBody, hostBodyUnchanged
  <2>33. CASE \E r \in {"ok", "OtherError"} : ExportBody(t, r)
    BY <2>33 DEF ExportBody, hostBodyUnchanged
  <2>34. CASE \E r \in {"ok", "OtherError", "OutOfMemory"} : MaterializeBody(t, r)
    BY <2>34 DEF MaterializeBody, hostBodyUnchanged
  <2>35. CASE LeaveHost(t)
    BY <2>35 DEF LeaveHost, hookVars
  <2>36. CASE EnterForeign(t)
    BY <2>36 DEF EnterForeign, hookVars
  <2>37. CASE LeaveForeign(t)
    BY <2>37 DEF LeaveForeign, hookVars
  <2> QED
    BY <1>1, <2>1, <2>2, <2>3, <2>4, <2>5, <2>6, <2>7, <2>8, <2>9, <2>10,
       <2>11, <2>12, <2>13, <2>14, <2>15, <2>16, <2>17, <2>18, <2>19,
       <2>20, <2>21, <2>22, <2>23, <2>24, <2>25, <2>26, <2>27, <2>28,
       <2>29, <2>30, <2>31, <2>32, <2>33, <2>34, <2>35, <2>36, <2>37
    DEF Step
<1>2. CASE Terminate
  BY <1>2 DEF Terminate, NoteScript, isoVars, NotedLate
<1>3. CASE DeadlinePasses
  BY <1>3 DEF DeadlinePasses, ClockPasses, isoVars, threadVars
<1>4. CASE MemoryCapCrossed
  BY <1>4 DEF MemoryCapCrossed, CapCrossed, isoVars, threadVars
<1>5. CASE MemoryLimitCallback
  BY <1>5 DEF MemoryLimitCallback, LimitCallback, isoVars, NotedLate
<1>6. CASE BootstrapFetch
  <2>1. PICK catchable \in BOOLEAN, deep \in BOOLEAN :
          FetchRaises(catchable, deep) \/ FetchContinues(catchable, deep)
    <3>1. policy.depth \in BOOLEAN
      BY HookAssumption DEF TypeOK, HookTypeOK, PolicySet
    <3> QED BY <1>6, <3>1 DEF BootstrapFetch
  <2> QED BY <2>1 DEF FetchRaises, FetchContinues
<1>7. CASE BootstrapException
  BY <1>7 DEF BootstrapException, isoVars, threadVars
<1>8. CASE UNCHANGED vars
  BY <1>8 DEF vars, hookVars, isoVars, threadVars
<1> QED BY <1>1, <1>2, <1>3, <1>4, <1>5, <1>6, <1>7, <1>8 DEF Next

\* An obstacle stays.
LEMMA ObstacleStays ==
  ASSUME TypeOK, GasInv, Obstacle, [Next]_vars
  PROVE  Obstacle'
<1>1. KeepsCauses /\ KeepsClock
  BY KeepsCausesStep, KeepsClockStep
<1>2. CASE capabilities = "failed"
  BY <1>1, <1>2 DEF KeepsCauses, Obstacle
<1>3. CASE Rejecting(Renewable) # {}
  <2>1. PICK k \in Rejecting(Renewable) : TRUE
    BY <1>3
  <2>2. k \in Polled /\ ~(Renewable /\ k = "gas")
    BY <2>1 DEF Rejecting
  <2>3. k \in Polled'
    <3>1. CASE k \in termination_bits
      BY <1>1, <2>2, <3>1 DEF KeepsCauses, Polled, Renewable
    <3>2. CASE k \in SyncOomCause
      BY <1>1, <3>2 DEF KeepsCauses, Polled, SyncOomCause
    <3>3. CASE k \in PollDeadline
      BY <1>1, <3>3 DEF KeepsClock, Polled, PollDeadline
    <3> QED BY <2>2, <3>1, <3>2, <3>3 DEF Polled
  <2>4. Renewable' = Renewable
    BY <1>1 DEF KeepsClock, Renewable
  <2>5. k \in Rejecting(Renewable)'
    BY <2>2, <2>3, <2>4 DEF Rejecting
  <2> QED BY <2>5 DEF Obstacle
<1> QED BY <1>2, <1>3 DEF Obstacle

\* The stages of a seal.
SealStages == {"admitted", "preflight", "capabilities", "applying", "recheck",
               "sealcheck", "leave"}

\* The strengthening: a failed seal left an obstacle, and a seal that is about to
\* report success found none.
SealInv ==
  /\ seal_failed => ~sealed /\ Obstacle
  /\ \A t \in Threads : op[t] = "seal" =>
       /\ ~sealed
       /\ pc[t] \in SealStages
       /\ pc[t] = "leave" => IF result[t] = "ok" THEN ~seal_failed ELSE Obstacle

\* An error selected for a nonempty set of causes is not a success.
LEMMA SelectedNotOk ==
  ASSUME NEW bits \in SUBSET Kinds, bits # {}
  PROVE  TerminationError[SelectedTermination(bits)] # "ok"
<1>1. SelectedTermination(bits) \in Kinds
  BY SelectedFirst
<1> QED BY <1>1 DEF Kinds, TerminationError

\* Every step keeps the bookkeeping of the seals.
LEMMA SealStep ==
  ASSUME TypeOK, Exclusion, GasInv, DueInv, SealInv, [Next]_vars
  PROVE  SealInv'
<1>0. /\ pc \in [Threads -> Stages]
      /\ op \in [Threads -> Ops]
      /\ result \in [Threads -> Results]
      /\ Polled \in SUBSET Kinds
      /\ \A ignore_gas : Rejecting(ignore_gas) \in SUBSET Kinds
      /\ NoThread \notin Threads
  BY CauseTypes, IsolateAssumption DEF TypeOK
<1>a. Obstacle => Obstacle'
  BY ObstacleStays
<1> USE <1>0, <1>a DEF SealInv
<1>1. ASSUME NEW t \in Threads, Step(t)
      PROVE  SealInv'
  <2>1. CASE \E what \in {"run", "seal"} : Enter(t, what)
    BY <2>1 DEF Enter, Return, Goto, SealStages
  <2>2. CASE Refuse(t)
    BY <2>2 DEF Refuse, Return, isoVars, SealStages
  <2>3. CASE RejectImage(t)
    BY <2>3 DEF RejectImage, Return, Goto, isoVars, SealStages
  <2>4. CASE BeginOuter(t)
    BY <2>4 DEF BeginOuter, Goto, SealStages
  <2>5. CASE Preflight(t)
    <3>1. /\ Rejecting(Renewable) = {} => pc'[t] # "leave"
          /\ op[t] = "seal" => pc'[t] \in SealStages
      BY <2>5 DEF Preflight, RejectOr, Goto, SealStages
    <3>2. CASE Rejecting(Renewable) = {}
      BY <2>5, <3>1, <3>2 DEF Preflight, RejectOr, Goto, isoVars, SealStages
    <3>3. CASE Rejecting(Renewable) # {}
      <4>1. result'[t] # "ok"
        BY <2>5, <3>3, SelectedNotOk DEF Preflight, RejectOr, Return
      <4>2. Obstacle'
        BY <1>a, <3>3 DEF Obstacle
      <4> QED BY <2>5, <3>1, <3>3, <4>1, <4>2 DEF Preflight, RejectOr, Return, Goto, isoVars
    <3> QED BY <3>2, <3>3
  <2>6. CASE CapabilitiesReady(t)
    BY <2>6 DEF CapabilitiesReady, Goto, isoVars, SealStages
  <2>7. CASE CapabilitiesFailed(t)
    BY <2>7 DEF CapabilitiesFailed, Return, Goto, isoVars, Obstacle, SealStages
  <2>8. CASE BeginCapabilities(t)
    BY <2>8 DEF BeginCapabilities, Goto, SealStages
  <2>9. CASE \E applied \in BOOLEAN : EndCapabilities(t, applied)
    <3>1. PICK applied \in BOOLEAN : EndCapabilities(t, applied)
      BY <2>9
    <3>2. CASE applied /\ termination_bits \cup SyncOomCause = {}
      BY <3>1, <3>2, <1>a DEF EndCapabilities, Goto, SealStages
    <3>3. CASE ~(applied /\ termination_bits \cup SyncOomCause = {})
      <4>1. Obstacle'
        BY <3>1, <3>3 DEF EndCapabilities, CapabilitiesAfter, Obstacle
      <4>2. result'[t] # "ok"
        <5>1. termination_bits \cup SyncOomCause \in SUBSET Kinds
          BY CauseTypes DEF TypeOK, HookTypeOK
        <5> QED BY <3>1, <3>3, <5>1, SelectedNotOk DEF EndCapabilities, Return
      <4>3. pc'[t] = "leave" /\ op' = op /\ sealed' = sealed /\ seal_failed' = seal_failed
        BY <3>1, <3>3 DEF EndCapabilities, Goto
      <4> QED BY <3>1, <4>1, <4>2, <4>3, <3>3, <1>a DEF EndCapabilities, Return, Goto, SealStages
    <3> QED BY <3>2, <3>3
  <2>10. CASE Recheck(t)
    <3>1. /\ Rejecting(Renewable) = {} => pc'[t] # "leave"
          /\ op[t] = "seal" => pc'[t] \in SealStages
      BY <2>10 DEF Recheck, RejectOr, Goto, SealStages
    <3>2. CASE Rejecting(Renewable) = {}
      BY <2>10, <3>1, <3>2 DEF Recheck, RejectOr, Goto, isoVars, SealStages
    <3>3. CASE Rejecting(Renewable) # {}
      <4>1. result'[t] # "ok"
        BY <2>10, <3>3, SelectedNotOk DEF Recheck, RejectOr, Return
      <4>2. Obstacle'
        BY <1>a, <3>3 DEF Obstacle
      <4> QED BY <2>10, <3>1, <3>3, <4>1, <4>2 DEF Recheck, RejectOr, Return, Goto, isoVars
    <3> QED BY <3>2, <3>3
  <2>11. CASE SealCheck(t)
    <3>1. pc[t] = "sealcheck" /\ pc'[t] = "leave"
      BY <2>11 DEF SealCheck, Goto
    <3>2. Rejecting(Renewable) = Polled
      <4>1. CASE Renewable
        <5>1. ~gas_meter.active
          BY <3>1, <4>1 DEF GasInv, Exclusion, Metered
        <5>2. "gas" \notin Polled
          BY <4>1, <5>1 DEF GasInv, Polled, SyncOomCause, PollDeadline
        <5> QED BY <4>1, <5>2 DEF Rejecting
      <4> QED BY <4>1 DEF Rejecting
    <3>3. CASE Polled = {}
      <4>1. ~Obstacle
        BY <3>1, <3>2, <3>3 DEF Obstacle, DueInv, Prepared
      <4> QED BY <2>11, <3>1, <3>3, <4>1 DEF SealCheck, Return, Goto, isoVars, SealStages
    <3>4. CASE Polled # {}
      <4>1. result'[t] # "ok"
        BY <2>11, <3>4, SelectedNotOk DEF SealCheck, Return
      <4>2. Obstacle'
        BY <1>a, <3>2, <3>4 DEF Obstacle
      <4> QED BY <2>11, <3>1, <4>1, <4>2 DEF SealCheck, Return, Goto, isoVars, SealStages
    <3> QED BY <3>3, <3>4
  <2>12. CASE RenewGas(t)
    BY <2>12 DEF RenewGas, Goto, isoVars, SealStages
  <2>13. CASE CommitGas(t)
    BY <2>13 DEF CommitGas, isoVars, RejectOr, Return, Goto, SealStages
  <2>14. CASE StartRunning(t)
    BY <2>14 DEF StartRunning, Goto, SealStages
  <2>15. CASE Guard(t)
    BY <2>15 DEF Guard, isoVars, RejectOr, Return, Goto, SealStages
  <2>16. CASE GuestFetch(t)
    BY <2>16 DEF GuestFetch, isoVars, NotedLate, SealStages
  <2>17. CASE GuestException(t)
    BY <2>17 DEF GuestException, isoVars, threadVars, SealStages
  <2>18. CASE CallHost(t)
    BY <2>18 DEF CallHost, Goto, isoVars, SealStages
  <2>19. CASE EnterNested(t)
    BY <2>19 DEF EnterNested, Goto, isoVars, SealStages
  <2>20. CASE LeaveNested(t)
    BY <2>20 DEF LeaveNested, Goto, isoVars, SealStages
  <2>21. CASE ReturnFromCallback(t)
    BY <2>21 DEF ReturnFromCallback, Goto, isoVars, SealStages
  <2>22. CASE \E r \in {"ok", "RubyException", "OtherError"} : EndBody(t, r)
    BY <2>22 DEF EndBody, Return, Goto, isoVars, SealStages
  <2>23. CASE Arbitrate(t)
    BY <2>23 DEF Arbitrate, Return, Goto, isoVars, SealStages
  <2>24. CASE CaptureErrorView(t)
    BY <2>24 DEF CaptureErrorView, Goto, SealStages
  <2>25. CASE Remap(t)
    BY <2>25 DEF Remap, Return, Goto, SealStages
  <2>26. CASE FinishExecution(t)
    BY <2>26 DEF FinishExecution, Goto, SealStages
  <2>27. CASE Leave(t)
    <3>1. \A u \in Threads : u # t => pc[u] = "idle"
      BY <2>27 DEF Leave, Exclusion
    <3>2. \A u \in Threads : op'[u] # "seal"
      BY <2>27, <3>1 DEF Leave, SealStages
    <3>3. CASE op[t] = "seal" /\ result[t] = "ok"
      BY <2>27, <3>2, <3>3 DEF Leave
    <3>4. CASE op[t] = "seal" /\ result[t] # "ok"
      BY <2>27, <3>2, <3>4 DEF Leave
    <3>5. CASE op[t] # "seal"
      BY <2>27, <3>2, <3>5 DEF Leave
    <3> QED BY <3>3, <3>4, <3>5
  <2>28. CASE \E what \in HostOps : EnterHost(t, what)
    BY <2>28 DEF EnterHost, HostOps, Return, Goto, SealStages
  <2>29. CASE HostMemoryCheck(t)
    <3>1. pc[t] = "hostcheck" /\ op[t] # "seal" /\ op' = op
      BY <2>29 DEF HostMemoryCheck, SealStages
    <3>2. \A u \in Threads : u # t => pc'[u] = pc[u] /\ result'[u] = result[u]
      BY <2>29 DEF HostMemoryCheck, Return, Goto
    <3> QED BY <2>29, <3>1, <3>2 DEF HostMemoryCheck, isoVars
  <2>30. CASE RejectCapsule(t)
    BY <2>30 DEF RejectCapsule, Return, Goto, isoVars, SealStages
  <2>31. CASE \E r \in {"ok", "RubyException", "OtherError"} : AttributedBody(t, r)
    <3>1. op[t] = "attributed" /\ op' = op
      BY <2>31 DEF AttributedBody, hostBodyUnchanged
    <3>2. \A u \in Threads : u # t => pc'[u] = pc[u] /\ result'[u] = result[u]
      BY <2>31 DEF AttributedBody, Return, Goto
    <3> QED BY <2>31, <3>1, <3>2 DEF AttributedBody, hostBodyUnchanged
  <2>32. CASE ClearErrorBody(t)
    BY <2>32 DEF ClearErrorBody, Return, Goto, hostBodyUnchanged, SealStages
  <2>33. CASE \E r \in {"ok", "OtherError"} : ExportBody(t, r)
    BY <2>33 DEF ExportBody, Return, Goto, hostBodyUnchanged, SealStages
  <2>34. CASE \E r \in {"ok", "OtherError", "OutOfMemory"} : MaterializeBody(t, r)
    BY <2>34 DEF MaterializeBody, Return, Goto, hostBodyUnchanged, SealStages
  <2>35. CASE LeaveHost(t)
    BY <2>35 DEF LeaveHost, Return, Goto, SealStages
  <2>36. CASE EnterForeign(t)
    BY <2>36 DEF EnterForeign, isoVars, SealStages
  <2>37. CASE LeaveForeign(t)
    BY <2>37 DEF LeaveForeign, isoVars, SealStages
  <2> QED
    BY <1>1, <2>1, <2>2, <2>3, <2>4, <2>5, <2>6, <2>7, <2>8, <2>9, <2>10,
       <2>11, <2>12, <2>13, <2>14, <2>15, <2>16, <2>17, <2>18, <2>19,
       <2>20, <2>21, <2>22, <2>23, <2>24, <2>25, <2>26, <2>27, <2>28,
       <2>29, <2>30, <2>31, <2>32, <2>33, <2>34, <2>35, <2>36, <2>37
    DEF Step
<1>2. CASE Terminate
  BY <1>2 DEF Terminate, NoteScript, isoVars, NotedLate
<1>3. CASE DeadlinePasses
  BY <1>3 DEF DeadlinePasses, ClockPasses, isoVars, threadVars
<1>4. CASE MemoryCapCrossed
  BY <1>4 DEF MemoryCapCrossed, CapCrossed, isoVars, threadVars
<1>5. CASE MemoryLimitCallback
  BY <1>5 DEF MemoryLimitCallback, LimitCallback, isoVars, NotedLate
<1>6. CASE BootstrapFetch
  BY <1>6 DEF BootstrapFetch, FetchRaises, FetchContinues, isoVars, threadVars
<1>7. CASE BootstrapException
  BY <1>7 DEF BootstrapException, isoVars, threadVars
<1>8. CASE UNCHANGED vars
  BY <1>8 DEF vars, hookVars, isoVars, threadVars
<1> QED BY <1>1, <1>2, <1>3, <1>4, <1>5, <1>6, <1>7, <1>8 DEF Next

\* The bookkeeping of the seals holds in every reachable state.
LEMMA SealInvariant == Spec => []SealInv
<1>1. Init => SealInv
  BY DEF Init, SealInv
<1>2. TypeOK /\ Exclusion /\ GasInv /\ DueInv /\ SealInv /\ [Next]_vars => SealInv'
  BY SealStep
<1> QED BY <1>1, <1>2, DueInvariant, PTL DEF Spec

\* No retry turns a failed seal into an execution handle.
THEOREM SealFailureIsFinalHolds == Spec => []SealFailureIsFinal
<1>1. SealInv => SealFailureIsFinal
  BY DEF SealInv, SealFailureIsFinal
<1> QED BY <1>1, SealInvariant, PTL

=============================================================================
