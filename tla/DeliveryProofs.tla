--------------------------- MODULE DeliveryProofs ---------------------------
(***************************************************************************)
(* A recorded cause is raised in time, whatever guest code does, and the   *)
(* handlers that see it get their whole grace: PromptDelivery and          *)
(* GraceHonoured, for every policy and every value of the limits.          *)
(*                                                                         *)
(* The bound on the lag is a ledger: each fetch that a known cause has     *)
(* waited for was paid for by the grace, by a wait at an uncovered program *)
(* counter, or by the one fetch that armed the delivery.                   *)
(***************************************************************************)
EXTENDS Delivery, TLAPS

CounterTypes ==
  /\ lag \in Nat /\ deliveries \in 0 .. 2 /\ spent \in 0 .. HandlerGrace
  /\ uncovered_waits \in 0 .. UncoveredWaitLimit
  /\ handler_grace \in 0 .. HandlerGrace

\* An armed delivery has a cause, and is not armed while grace is left.
ArmedInv == raise_pending => termination_bits # {} /\ handler_grace = 0

LagInv ==
  /\ raise_pending => lag + handler_grace <= HandlerGrace + uncovered_waits + 1
  /\ ~raise_pending => lag + handler_grace <= HandlerGrace + uncovered_waits

\* The grace is granted by the first delivery, and the second waits for its end.
GraceInv ==
  /\ deliveries = 0 => ~grace_armed /\ handler_grace = 0 /\ spent = 0
  /\ deliveries > 0 => grace_armed
  /\ deliveries = 1 => spent + handler_grace = HandlerGrace
  /\ GraceHonoured

DeliveryInv == CounterTypes /\ ArmedInv /\ LagInv /\ GraceInv

\* A fetch that lets the opcode execute keeps the ledger, and draws on the grace
\* at most once.
LEMMA ContinueStep ==
  ASSUME DeliveryInv, FetchOpcode
  PROVE  DeliveryInv'
<1>1. PICK catchable, deep :
        /\ FetchContinues(catchable, deep)
        /\ lag' = IF NotedAtFetch(deep) # {} /\ ~mrb_exc THEN lag + 1 ELSE lag
  BY DEF FetchOpcode
<1> DEFINE noted == NotedAtFetch(deep)
           enforced == noted # {} /\ ~mrb_exc
           here == DeliveredHere(catchable)
<1>2. termination_bits \subseteq noted /\ noted \subseteq termination_bits'
  BY <1>1 DEF FetchContinues, NotedAtFetch
<1>3. /\ ~(here /\ noted # {})
      /\ uncovered_waits' = IF here THEN 0
                            ELSE IF Deliverable THEN uncovered_waits + 1
                            ELSE uncovered_waits
      /\ raise_pending' <=> (raise_pending /\ ~here) \/ (enforced /\ handler_grace = 0)
      /\ handler_grace' = IF enforced /\ handler_grace > 0 THEN handler_grace - 1
                                                           ELSE handler_grace
      /\ grace_armed' = grace_armed
      /\ lag' = IF enforced THEN lag + 1 ELSE lag
  BY <1>1 DEF FetchContinues
<1>4. Deliverable /\ ~here => uncovered_waits < UncoveredWaitLimit
  BY HookAssumption DEF DeliveredHere, DeliveryInv, CounterTypes
<1>5. here => raise_pending /\ Deliverable
  BY DEF DeliveredHere, Deliverable
<1>6. Deliverable <=> raise_pending /\ ~mrb_exc /\ handler_grace = 0
  BY DEF Deliverable
<1>7. spent' = (IF handler_grace' < handler_grace /\ spent < HandlerGrace
                  THEN spent + 1 ELSE spent) /\ deliveries' = deliveries
  BY DEF FetchOpcode
<1> HIDE DEF noted, here
<1>8. here => noted = {}
  BY <1>3
<1>9. ~here
  BY <1>2, <1>5, <1>8 DEF DeliveryInv, ArmedInv
<1>10. CounterTypes'
  BY <1>3, <1>4, <1>7, <1>9, HookAssumption DEF DeliveryInv, CounterTypes
<1>11. ArmedInv'
  BY <1>2, <1>3, <1>9 DEF DeliveryInv, CounterTypes, ArmedInv
<1>12. LagInv'
  BY <1>3, <1>4, <1>6, <1>9, <1>10, HookAssumption
  DEF DeliveryInv, CounterTypes, ArmedInv, LagInv
<1>13. GraceInv'
  BY <1>3, <1>7, <1>10, HookAssumption
  DEF DeliveryInv, CounterTypes, GraceInv, GraceHonoured
<1> QED BY <1>10, <1>11, <1>12, <1>13 DEF DeliveryInv

\* A fetch that raises settles the ledger; the second one finds the grace spent.
LEMMA DeliverStep ==
  ASSUME DeliveryInv, FetchDelivers
  PROVE  DeliveryInv'
<1>1. PICK catchable, deep : FetchRaises(catchable, deep)
  BY DEF FetchDelivers
<1>2. /\ ~raise_pending' /\ uncovered_waits' = 0
      /\ handler_grace' = (IF grace_armed THEN handler_grace ELSE HandlerGrace)
      /\ grace_armed' /\ handler_grace = 0
  BY <1>1 DEF FetchRaises, DeliveredHere, Deliverable, GrantedGrace
<1>3. /\ lag' = 0 /\ spent' = spent
      /\ deliveries' = IF deliveries < 2 THEN deliveries + 1 ELSE 2
  BY DEF FetchDelivers
<1> QED BY <1>2, <1>3, HookAssumption
    DEF DeliveryInv, CounterTypes, ArmedInv, LagInv, GraceInv, GraceHonoured

\* Every step keeps the ledger.
LEMMA DeliveryStep ==
  ASSUME DeliveryInv, [Next]_vars
  PROVE  DeliveryInv'
<1> DEFINE Kept == /\ UNCHANGED <<deliveryVars, historyVars>>
                   /\ termination_bits \subseteq termination_bits'
<1>1. ASSUME Kept PROVE DeliveryInv'
  BY <1>1 DEF deliveryVars, historyVars, DeliveryInv, CounterTypes, ArmedInv,
     LagInv, GraceInv, GraceHonoured
<1>2. CASE FetchOpcode
  BY <1>2, ContinueStep
<1>3. CASE FetchDelivers
  BY <1>3, DeliverStep
<1>4. CASE Unwind \/ OpExcept \/ OpOther \/ OpCall \/ OpLeave \/ OpRaise \/ OpStop
  BY <1>1, <1>4
  DEF Unwind, OpExcept, OpOther, OpCall, OpLeave, OpRaise, OpStop, hookVars
<1>5. CASE \E kind \in Protected : OpEnter(kind)
  BY <1>1, <1>5 DEF OpEnter, hookVars
<1>6. CASE Environment
  <2>1. UNCHANGED <<deliveryVars, historyVars>>
    BY <1>6 DEF Environment, NoteScript, ClockPasses, CapCrossed, LimitCallback
  <2>2. termination_bits \subseteq termination_bits'
    BY <1>6 DEF Environment, NoteScript, ClockPasses, CapCrossed, LimitCallback
  <2> QED BY <1>1, <2>1, <2>2
<1>7. CASE UNCHANGED vars
  BY <1>1, <1>7 DEF vars, hookVars
<1> QED BY <1>2, <1>3, <1>4, <1>5, <1>6, <1>7 DEF Next, Interpreter, Ended

\* The ledger is kept in every reachable state.
LEMMA DeliveryInvariant == Spec => []DeliveryInv
<1>1. Init => DeliveryInv
  BY HookAssumption
  DEF Init, DeliveryInv, CounterTypes, ArmedInv, LagInv, GraceInv, GraceHonoured
<1>2. DeliveryInv /\ [Next]_vars => DeliveryInv'
  BY DeliveryStep
<1> QED BY <1>1, <1>2, PTL DEF Spec

\* Whatever the guest does, a known cause waits for no more fetches than the grace,
\* the wait limit and the one that arms it.
THEOREM PromptDeliveryHolds == Spec => []PromptDelivery
<1>1. DeliveryInv => PromptDelivery
  BY HookAssumption DEF DeliveryInv, CounterTypes, ArmedInv, LagInv, PromptDelivery
<1> QED BY <1>1, DeliveryInvariant, PTL

\* A second policy exception comes only after handlers had their whole grace.
THEOREM GraceHonouredHolds == Spec => []GraceHonoured
<1>1. DeliveryInv => GraceHonoured
  BY DEF DeliveryInv, GraceInv
<1> QED BY <1>1, DeliveryInvariant, PTL

=============================================================================
