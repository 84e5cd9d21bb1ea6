------------------------------ MODULE MCPreauth ------------------------------
(***************************************************************************)
(* An instance of Preauth for TLC: a BUY and a SELL of one wallet, each    *)
(* with a token of its own, under the session the configuration gives.     *)
(***************************************************************************)
EXTENDS Preauth, TLC

CONSTANTS a1, a2, wallet

TwoSides == (a1 :> "BUY") @@ (a2 :> "SELL")
TwoInputs == (a1 :> "quote") @@ (a2 :> "base")
OneWallet == [s \in Sessions |-> wallet]

Interchangeable ==
    Permutations(Planners) \cup Permutations(Submitters) \cup Permutations(Sessions) \cup Permutations(Nonces) \cup Permutations(Quotes)
=============================================================================
