---------------------------- MODULE MCExecution ----------------------------
(***************************************************************************)
(* Instances of Execution for TLC: one action of one unit, two callers and *)
(* two providers, which are interchangeable.  Its transaction may settle   *)
(* within the intent's bounds, revert, or settle outside the bounds.       *)
(***************************************************************************)
EXTENDS Execution, TLC

CONSTANTS p1, c1, a1, r1

OnePolicyInfo ==
    p1 :> [instrument |-> "X", quote |-> "USD", network |-> "ink", maxCycles |-> 1,
           allocation |-> 1, perOrder |-> 1, perInstrument |-> 1, perNetwork |-> 1,
           global |-> 1, reservedCash |-> 0]
OneCycleInfo == c1 :> [policy |-> p1, index |-> 0]
OneActionInfo ==
    a1 :> [cycle |-> c1, side |-> "BUY", kind |-> "ENTRY", size |-> 1, num |-> 0, den |-> 1, floor |-> 1]

OneRef == a1 :> r1
UnitGrant == [perAction |-> 1, cumulative |-> 1]

InBlock(status, output) ==
    [block |-> 1, hash |-> 1, status |-> status, input |-> 1, output |-> output]
Filled == InBlock("SUCCESS", 1)
OutOfBounds == InBlock("SUCCESS", 0)
Reverted == InBlock("REVERTED", 1)
AllFacts == {Filled, Reverted, OutOfBounds}

Interchangeable == Permutations(Workers) \cup Permutations(Providers)
=============================================================================
