------------------------------ MODULE InkTerms ------------------------------
(***************************************************************************)
(* The terms of an Ink V2 swap (qntyspot/ink.py, ink_v0f_risk.py,          *)
(* ink_v0f_execution.py): what the pool pays for an amount, what that does *)
(* to the price, the amount that a price-impact ceiling leaves of the      *)
(* desired one, and the least output that is accepted for it.  All of it   *)
(* is exact integer and rational arithmetic; the fee and the basis points  *)
(* are parameters.  The sizing is a search over integers, here one step at *)
(* a time.                                                                 *)
(***************************************************************************)
EXTENDS Integers, FiniteSets, FiniteSetsExt

CONSTANTS
    FeeNumerator, FeeDenominator,   \* what is left of an input after the fee
    Bps,                            \* basis points in one
    Reserves,                       \* reserves a pool may hold, in atomic units
    Desires,                        \* amounts an intent may want to spend
    Ceilings,                       \* price-impact ceilings, in basis points
    Coarse                          \* the width below which the search enumerates

ASSUME TermsAssumption ==
    /\ FeeDenominator \in Nat /\ FeeNumerator \in 1..FeeDenominator
    /\ Bps \in Nat \ {0} /\ Coarse \in Nat \ {0, 1}
    /\ Reserves \subseteq Nat \ {0} /\ Desires \subseteq Nat \ {0} /\ Ceilings \subseteq 0..Bps

Sides == {"BUY", "SELL"}
Pools == [base : Reserves, quote : Reserves]

Lesser(x, y) == IF x <= y THEN x ELSE y
Greater(x, y) == IF x >= y THEN x ELSE y
DivUp(x, y) == (x + y - 1) \div y

-----------------------------------------------------------------------------
(* The canonical integer quote. *)

\* A BUY spends the quote token, a SELL the base token.
ReserveIn(pool, side) == IF side = "BUY" THEN pool.quote ELSE pool.base
ReserveOut(pool, side) == IF side = "BUY" THEN pool.base ELSE pool.quote

\* _quote; an output of zero is refused.
Output(pool, side, x) ==
    (x * FeeNumerator * ReserveOut(pool, side))
        \div (ReserveIn(pool, side) * FeeDenominator + x * FeeNumerator)

\* The average price against the spot price, each in quote per base: for a BUY
\* the excess over the spot price, for a SELL what is missing from it.
ImpactWithin(pool, side, x, ceiling) ==
    LET spotOutput == x * ReserveOut(pool, side)
        output == Output(pool, side, x) * ReserveIn(pool, side)
    IN Bps * (spotOutput - output) <= ceiling * (IF side = "BUY" THEN output ELSE spotOutput)

-----------------------------------------------------------------------------
(* impact_capped_input_atomic. *)

\* The output demanded for each unit of input, as a fraction.
Required(pool, side, ceiling) ==
    IF side = "BUY"
    THEN [num |-> ReserveOut(pool, side) * Bps, den |-> ReserveIn(pool, side) * (Bps + ceiling)]
    ELSE [num |-> ReserveOut(pool, side) * (Bps - ceiling), den |-> ReserveIn(pool, side) * Bps]

Weight(pool, side, x) == ReserveIn(pool, side) * FeeDenominator + FeeNumerator * x

\* Where the continuous curve crosses what is required, rounded down.
Crossing(pool, side, ceiling) ==
    LET r == Required(pool, side, ceiling) IN
    (FeeNumerator * ReserveOut(pool, side) * r.den - r.num * ReserveIn(pool, side) * FeeDenominator)
        \div (FeeNumerator * r.num)

\* The mutant demands no margin for the rounding of the quote.
HasMargin_None(pool, side, ceiling, x) ==
    LET r == Required(pool, side, ceiling) IN
    FeeNumerator * x * ReserveOut(pool, side) * r.den >= r.num * x * Weight(pool, side, x)

\* rounding_surplus(x) >= 1: the continuous output exceeds what is required by a unit.
HasMargin(pool, side, ceiling, x) ==
    LET r == Required(pool, side, ceiling) IN
    FeeNumerator * x * ReserveOut(pool, side) * r.den - r.num * x * Weight(pool, side, x)
        >= r.den * Weight(pool, side, x)

\* rounding_surplus(x) < rounding_surplus(y), for x < y, with the fractions cleared.
SurplusGrows(pool, side, ceiling, x, y) ==
    LET r == Required(pool, side, ceiling) IN
    FeeNumerator * ReserveOut(pool, side) * ReserveIn(pool, side) * FeeDenominator * r.den
        > r.num * Weight(pool, side, x) * Weight(pool, side, y)

\* What the search is for: the largest amount with that margin.
Roomy(pool, side, desired, ceiling) ==
    {x \in 1..Lesser(desired, Crossing(pool, side, ceiling)) : HasMargin(pool, side, ceiling, x)}

TakenWhole(pool, side, desired, ceiling) ==
    \/ ImpactWithin(pool, side, desired, ceiling)
    \/ side = "SELL" /\ ceiling = Bps

Sizable(pool, side, desired, ceiling) ==
    /\ Output(pool, side, desired) > 0
    /\ TakenWhole(pool, side, desired, ceiling) \/ Roomy(pool, side, desired, ceiling) # {}

Sized(pool, side, desired, ceiling) ==
    IF TakenWhole(pool, side, desired, ceiling) THEN desired ELSE Max(Roomy(pool, side, desired, ceiling))

-----------------------------------------------------------------------------
(* The least output. *)

\* The mutant rounds the pro rata floor down.
ProratedMinOutput_Down(bounds, x) == (bounds.minOutput * x) \div bounds.maxInput

\* prorated_min_output_atomic: the intent's limit price for a smaller amount.
ProratedMinOutput(bounds, x) == DivUp(bounds.minOutput * x, bounds.maxInput)

\* amount_out_min_atomic: that, or the quoted output less the slippage.
AmountOutMin(risk, bounds, x, output) ==
    Greater(ProratedMinOutput(bounds, x),
            DivUp(output * (Bps - Lesser(risk.slippage, bounds.slippage)), Bps))

-----------------------------------------------------------------------------
(* The search of impact_capped_input_atomic, a step for each turn of its loops. *)

VARIABLE sizing     \* its arguments and what it is looking between

Case == [pool : Pools, side : Sides, desired : Desires, ceiling : Ceilings]

Margin(x) == HasMargin(sizing.pool, sizing.side, sizing.ceiling, x)
Fits(x) == ImpactWithin(sizing.pool, sizing.side, x, sizing.ceiling)
UpperEnd == Lesser(sizing.desired, Crossing(sizing.pool, sizing.side, sizing.ceiling))

Goes(step, lo, hi, selected) ==
    sizing' = [sizing EXCEPT !.step = step, !.lo = lo, !.hi = hi, !.selected = selected]

\* The desired amount as it is, or the interval the curve leaves; raising is REFUSED.
SizeDesired ==
    /\ sizing.step = "DESIRED"
    /\ \/ Output(sizing.pool, sizing.side, sizing.desired) <= 0 /\ Goes("REFUSED", 0, 0, 0)
       \/ /\ Output(sizing.pool, sizing.side, sizing.desired) > 0
          /\ \/ /\ TakenWhole(sizing.pool, sizing.side, sizing.desired, sizing.ceiling)
                /\ Goes("SELECTED", 0, 0, sizing.desired)
             \/ /\ ~TakenWhole(sizing.pool, sizing.side, sizing.desired, sizing.ceiling)
                /\ IF UpperEnd <= 0
                   THEN Goes("REFUSED", 0, 0, 0)
                   ELSE Goes("CLIMB", 1, UpperEnd, 0)

\* A third of the interval is left out at either end, as the surplus is concave.
Climb ==
    LET third == (sizing.hi - sizing.lo) \div 3
        left == sizing.lo + third
        right == sizing.hi - third
    IN /\ sizing.step = "CLIMB"
       /\ sizing.hi - sizing.lo > Coarse
       /\ IF SurplusGrows(sizing.pool, sizing.side, sizing.ceiling, left, right)
          THEN Goes("CLIMB", left + 1, sizing.hi, 0)
          ELSE Goes("CLIMB", sizing.lo, right - 1, 0)

\* The first of the largest surpluses in what is left.
Peak ==
    LET better(x, y) == SurplusGrows(sizing.pool, sizing.side, sizing.ceiling, x, y)
        peak == CHOOSE x \in sizing.lo..sizing.hi :
                    /\ \A y \in x+1..sizing.hi : ~better(x, y)
                    /\ \A y \in sizing.lo..x-1 : better(y, x)
    IN /\ sizing.step = "CLIMB"
       /\ sizing.hi - sizing.lo <= Coarse
       /\ IF Margin(peak)
          THEN Goes("WIDEN", peak, UpperEnd, peak)
          ELSE Goes("REFUSED", 0, 0, 0)

\* A bisection above the peak, and the canonical quote once more at its end.
Widen ==
    LET mid == (sizing.lo + sizing.hi) \div 2 IN
    /\ sizing.step = "WIDEN"
    /\ IF sizing.lo <= sizing.hi
       THEN IF Margin(mid)
            THEN Goes("WIDEN", mid + 1, sizing.hi, mid)
            ELSE Goes("WIDEN", sizing.lo, mid - 1, sizing.selected)
       ELSE Goes(IF Output(sizing.pool, sizing.side, sizing.selected) <= 0 THEN "REFUSED"
                 ELSE IF Fits(sizing.selected) THEN "SELECTED" ELSE "HALTED",
                 0, 0, sizing.selected)

SizingInit ==
    \E c \in Case :
        sizing = [pool |-> c.pool, side |-> c.side, desired |-> c.desired, ceiling |-> c.ceiling,
                  step |-> "DESIRED", lo |-> 0, hi |-> 0, selected |-> 0]

SizingNext == SizeDesired \/ Climb \/ Peak \/ Widen

SizingSpec == SizingInit /\ [][SizingNext]_sizing

-----------------------------------------------------------------------------
\* The search never ends in the SAFE_HALT of its last check, and what it returns
\* is no more than desired, within the ceiling by the integer quote, and the most
\* that the one-unit margin allows; it refuses only when there is no such amount
\* (impact_capped_input_atomic).
SizingIsSafe ==
    LET sizable == Sizable(sizing.pool, sizing.side, sizing.desired, sizing.ceiling)
    IN /\ sizing.step # "HALTED"
       /\ sizing.step = "REFUSED" => ~sizable
       /\ sizing.step = "SELECTED" =>
              /\ sizable /\ sizing.selected <= sizing.desired
              /\ sizing.selected = Sized(sizing.pool, sizing.side, sizing.desired, sizing.ceiling)
              /\ Fits(sizing.selected) \/ (sizing.side = "SELL" /\ sizing.ceiling = Bps)
=============================================================================
