---------------------------- MODULE MCRoundTrip -----------------------------
(***************************************************************************)
(* An instance of RoundTrip for TLC: one sell of one unit, two providers.  *)
(* Its transactions may succeed or revert, and be taken off the chain and  *)
(* included again with the other outcome.                                  *)
(***************************************************************************)
EXTENDS RoundTrip, TLC

CONSTANTS p1, c1, a1, r1

OnePolicyInfo ==
    p1 :> [instrument |-> "X", quote |-> "USD", network |-> "ink", maxCycles |-> 1,
           allocation |-> 1, perOrder |-> 1, perInstrument |-> 1, perNetwork |-> 1,
           global |-> 1, reservedCash |-> 0]
OneCycleInfo == c1 :> [policy |-> p1, index |-> 0]
OneActionInfo ==
    a1 :> [cycle |-> c1, side |-> "SELL", kind |-> "ENTRY", size |-> 1, num |-> 0, den |-> 1, floor |-> 1]

OneRef == a1 :> r1
UnitGrant == [perAction |-> 1, cumulative |-> 1]

InBlock(status) == [block |-> 1, hash |-> 1, status |-> status, input |-> 1, output |-> 1]
BothOutcomes == {InBlock("SUCCESS"), InBlock("REVERTED")}

Interchangeable == Permutations(Workers) \cup Permutations(Providers)
=============================================================================
