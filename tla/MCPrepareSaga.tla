---------------------------- MODULE MCPrepareSaga ----------------------------
(***************************************************************************)
(* The instance of PrepareSaga for TLC: two runs of the program and two    *)
(* moments, so that one run may go on with the clock it read while another *)
(* starts when the first one's policy has expired.  Two receipts, the      *)
(* second issued in the epoch of the first; the plan a run makes follows   *)
(* from the receipt and the moment.                                        *)
(***************************************************************************)
EXTENDS PrepareSaga, TLC

CONSTANTS pb, pl, p1, p2, p3, cb, cl, c1, c2, c3, ab, al, a1, a2, a3, n1, n2, n3, g1, g2

OneAsset ==
    [instrument |-> "X", quote |-> "ETH", network |-> "ink", maxCycles |-> 1,
     allocation |-> 1, perOrder |-> 1, perInstrument |-> 1, perNetwork |-> 1,
     global |-> 1, reservedCash |-> 0]
MCPolicyInfo == [p \in Policies |-> OneAsset]
FirstCycleOf(p) == [policy |-> p, index |-> 0]
MCCycleInfo == cb :> FirstCycleOf(pb) @@ cl :> FirstCycleOf(pl)
            @@ c1 :> FirstCycleOf(p1) @@ c2 :> FirstCycleOf(p2) @@ c3 :> FirstCycleOf(p3)

Buy(c) == [cycle |-> c, side |-> "BUY", kind |-> "ENTRY", size |-> 1, num |-> 0, den |-> 1, floor |-> 1]
SellAll(c) == [cycle |-> c, side |-> "SELL", kind |-> "EXIT", size |-> 1, num |-> 1, den |-> 1, floor |-> 1]
MCActionInfo == ab :> Buy(cb) @@ al :> SellAll(cl) @@ a1 :> SellAll(c1) @@ a2 :> SellAll(c2) @@ a3 :> SellAll(c3)

Receipt(from, to) ==
    [root |-> "qnty", epoch |-> 6, body |-> "sell", level |-> 3, scope |-> InkScope,
     notBefore |-> from, notAfter |-> to, issued |-> from, maxReservation |-> 1, maxCumulative |-> 1]
MCGrantInfo == g1 :> Receipt(0, 2) @@ g2 :> Receipt(1, 3)
MCSessionInfo == [n \in Sessions |-> [body |-> "sell", scope |-> InkScope]]
MCRoot == [id |-> "qnty", minimumEpoch |-> 6]

MCPlanInfo ==
    n1 :> [built |-> 0, grant |-> g1, cycle |-> c1, action |-> a1]
 @@ n2 :> [built |-> 1, grant |-> g1, cycle |-> c2, action |-> a2]
 @@ n3 :> [built |-> 1, grant |-> g2, cycle |-> c3, action |-> a3]
MCPolicyExpiry == pb :> 0 @@ pl :> 0 @@ p1 :> 1 @@ p2 :> 2 @@ p3 :> 2

Interchangeable == Permutations(Runs)
=============================================================================
