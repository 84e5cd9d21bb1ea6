---------------------------- MODULE MCSpotLedger ----------------------------
(***************************************************************************)
(* An instance of SpotLedger for TLC, about capital.                       *)
(***************************************************************************)
EXTENDS SpotLedger, TLC

CONSTANTS p1, p2, p3, c1, c2, a1, a2, a3

RefSymmetry == Permutations(Refs)

Budget(instrument, allocation, perInstrument, perNetwork, global, reservedCash) ==
    [instrument |-> instrument, quote |-> "USD", network |-> "ink", maxCycles |-> 2,
     allocation |-> allocation, perOrder |-> 2, perInstrument |-> perInstrument,
     perNetwork |-> perNetwork, global |-> global, reservedCash |-> reservedCash]

Entry(c, n) ==
    [cycle |-> c, side |-> "BUY", kind |-> "ENTRY", size |-> n, num |-> 0, den |-> 1, floor |-> 1]

-----------------------------------------------------------------------------
(* a1 and a2 compete for p1's allocation, a1 and a3 for the instrument p1   *)
(* and p2 share.  p3, which may be admitted after capital is already held,  *)
(* is tighter than what p1 alone allows on the network.                     *)

MCPolicyInfo ==
    (p1 :> Budget("X", 2, 3, 4, 6, 1)) @@ (p2 :> Budget("X", 2, 2, 4, 6, 2))
 @@ (p3 :> Budget("Y", 2, 4, 1, 6, 1))
MCCycleInfo == (c1 :> [policy |-> p1, index |-> 0]) @@ (c2 :> [policy |-> p2, index |-> 0])
MCActionInfo == (a1 :> Entry(c1, 2)) @@ (a2 :> Entry(c1, 1)) @@ (a3 :> Entry(c2, 1))

\* Bound: cycles, once opened, stay open, and nobody reads their inventory.
CyclesStayOpen ==
    \A c \in Cycles : cycle[c] \in {"NONE", "OPEN"} /\ seen[c] = 0

\* Bound: EXPIRED and REJECTED are left to CANCELLED, which they equal in every
\* guard and effect as long as no execution surface exists.
EndByCancelling == \A a \in Actions : state[a] \notin {"EXPIRED", "REJECTED"}

CapitalBound == CyclesStayOpen /\ EndByCancelling
=============================================================================
