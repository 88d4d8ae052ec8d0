-------------------------------- MODULE Gas --------------------------------
(***************************************************************************)
(* The instruction-gas meter of src/gas.zig: one cumulative generation for *)
(* a per-isolate policy, a fresh generation for each committed outermost   *)
(* execution of a per-execution policy, and no meter at all for an         *)
(* unlimited one (modelled by a meter that is never active, which observes *)
(* and charges nothing, exactly like the absent one).                      *)
(*                                                                         *)
(* The audit counter observed_instructions only feeds statistics and is    *)
(* left out.  generation is a saturating u64: MaxGeneration stands for     *)
(* maxInt(u64).                                                            *)
(***************************************************************************)
EXTENDS Naturals

CONSTANTS
  GasLimit,       \* the finite allowance of a generation, in charged fetches
  MaxGeneration   \* where the saturating generation counter stops

ASSUME GasAssumption ==
  /\ GasLimit \in Nat
  /\ MaxGeneration \in Nat \ {0}

GasScopes == {"unlimited", "isolate", "execution"}

Meters ==
  [generation: 0 .. MaxGeneration,
   used:       Nat,
   remaining:  Nat,
   exhausted:  BOOLEAN,
   active:     BOOLEAN]

(***************************************************************************)
(* Generation 0 is the prospective, inactive state of a per-execution      *)
(* policy; a per-isolate policy starts in its only generation.             *)
(***************************************************************************)
InitMeter(scope) ==
  [generation |-> IF scope = "isolate" THEN 1 ELSE 0,
   used       |-> 0,
   remaining  |-> GasLimit,
   exhausted  |-> FALSE,
   active     |-> scope = "isolate"]

\* observeFetch returns true: the allowance was empty before this fetch.
FetchFindsEmpty(m) == m.active /\ m.remaining = 0

ObserveFetch(m) == [m EXCEPT !.exhausted = @ \/ FetchFindsEmpty(m)]

\* Faulty variant: an empty allowance is charged as well.
ChargeFetchUnguarded(m) ==
  IF m.active THEN [m EXCEPT !.remaining = @ - 1, !.used = @ + 1] ELSE m

ChargeFetch(m) ==
  IF m.active /\ m.remaining # 0
    THEN [m EXCEPT !.remaining = @ - 1, !.used = @ + 1]
    ELSE m

\* Faulty variant: the previous generation's usage is carried over.
NextGenerationKeepsUsed(m) ==
  [m EXCEPT !.generation = IF @ < MaxGeneration THEN @ + 1 ELSE @,
            !.remaining = GasLimit, !.exhausted = FALSE, !.active = TRUE]

NextGeneration(m) ==
  [generation |-> IF m.generation < MaxGeneration THEN m.generation + 1
                                                  ELSE MaxGeneration,
   used       |-> 0,
   remaining  |-> GasLimit,
   exhausted  |-> FALSE,
   active     |-> TRUE]

\* Faulty variant: the generation stays active after its execution.
FinishGenerationNever(m, scope) == m

FinishGeneration(m, scope) ==
  IF scope = "execution" THEN [m EXCEPT !.active = FALSE] ELSE m

\* The Stats record a host reads; it does not show whether a meter is active.
Snapshot(m) ==
  [generation |-> m.generation, used |-> m.used,
   remaining |-> m.remaining, exhausted |-> m.exhausted]

Snapshots ==
  [generation: 0 .. MaxGeneration, used: Nat, remaining: Nat,
   exhausted: BOOLEAN]

=============================================================================
