-------------------------- MODULE MCLedgerRecovery --------------------------
(***************************************************************************)
(* Instances of LedgerRecovery for TLC: one policy, one cycle, two entry   *)
(* intents of one unit that compete for nothing, so that only the order of *)
(* steps decides what happens to them.                                     *)
(***************************************************************************)
EXTENDS LedgerRecovery, TLC

CONSTANTS p1, c1, a1, a2

OnePolicyInfo ==
    p1 :> [instrument |-> "X", quote |-> "USD", network |-> "ink", maxCycles |-> 1,
           allocation |-> 2, perOrder |-> 1, perInstrument |-> 2, perNetwork |-> 2,
           global |-> 2, reservedCash |-> 0]
OneCycleInfo == c1 :> [policy |-> p1, index |-> 0]
Unit == [cycle |-> c1, side |-> "BUY", kind |-> "ENTRY", size |-> 1, num |-> 0, den |-> 1, floor |-> 1]
TwoActionInfo == (a1 :> Unit) @@ (a2 :> Unit)
OneActionInfo == a1 :> Unit
=============================================================================
