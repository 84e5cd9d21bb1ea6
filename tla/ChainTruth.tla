----------------------------- MODULE ChainTruth -----------------------------
(***************************************************************************)
(* evaluate_chain_truth of qntyspot/execution_contract.py: the strongest   *)
(* conclusion that a set of provider observations of one transaction       *)
(* supports.  Contradiction always wins, and absence is never evidence     *)
(* that nothing happened.                                                  *)
(*                                                                         *)
(* A block's hash and its parent's are one identity here, and a record's   *)
(* observation_id (a digest, whose order means nothing) is the number id.  *)
(***************************************************************************)
EXTENDS Integers, FiniteSets

CONSTANTS
    MinAgreeingProviders,       \* FinalityPolicyV0.min_agreeing_providers
    MinConfirmationDepth        \* FinalityPolicyV0.min_confirmation_depth

ASSUME FinalityAssumption ==
    /\ MinAgreeingProviders \in Nat \ {0}
    /\ MinConfirmationDepth \in Nat \ {0}

ChainPresence == {"ABSENT", "PENDING", "INCLUDED"}
ReceiptStatus == {"SUCCESS", "REVERTED"}
ChainTruthVerdict == {"NO_EVIDENCE", "VISIBLE", "INCLUDED", "CONFIRMED", "REVERTED", "AMBIGUOUS"}

\* The settlement facts of an observation that is not INCLUDED, and the head of
\* one that did not read it.
NoFacts == [block |-> 0, hash |-> 0, status |-> "NONE", input |-> 0, output |-> 0]
NoHead == -1

-----------------------------------------------------------------------------
Reporting(obs) == {o.provider : o \in obs}

\* A provider's latest record, by the moment it observed and not the moment the
\* record was stored; equal moments are ordered by the record's identity.
LatestBy(obs, p) ==
    CHOOSE o \in obs :
        /\ o.provider = p
        /\ \A e \in obs : e.provider = p => e.at < o.at \/ (e.at = o.at /\ e.id <= o.id)

Latest(obs) == {LatestBy(obs, p) : p \in Reporting(obs)}
Included(S) == {o \in S : o.presence = "INCLUDED"}

\* The mutant compares the providers' latest records only.
FactSets_Latest(obs) == {o.facts : o \in Included(Latest(obs))}

\* Every set of settlement facts any provider ever reported.
FactSets(obs) == {o.facts : o \in Included(obs)}

\* A provider reported the transaction included and, later, not included.
Withdrawn(obs) ==
    \E o \in Latest(obs) \ Included(obs) : \E e \in Included(obs) : e.provider = o.provider

\* Some providers see the transaction included now and others do not.
Divided(obs) == Included(Latest(obs)) \notin {{}, Latest(obs)}

Contradictory(obs) == Cardinality(FactSets(obs)) > 1 \/ Withdrawn(obs) \/ Divided(obs)

\* Confirmations by the provider's own head; none if it named no head.
Depth(o) ==
    IF o.head = NoHead \/ o.head < o.facts.block THEN 0 ELSE o.head - o.facts.block

Settled(included) == \A o \in included : o.facts.status = "SUCCESS"

\* The mutant lets one provider's depth stand for all.
FinalDepth_Any(included) == \E o \in included : Depth(o) >= MinConfirmationDepth

\* The shallowest agreeing provider decides.
FinalDepth(included) == \A o \in included : Depth(o) >= MinConfirmationDepth

UnseenVerdict(obs, acknowledged) ==
    IF \E o \in obs : o.presence = "PENDING" THEN "VISIBLE"
    ELSE IF acknowledged THEN "AMBIGUOUS"
    ELSE "NO_EVIDENCE"

Verdict(obs, acknowledged) ==
    LET included == Included(Latest(obs))
    IN CASE Contradictory(obs)                            -> "AMBIGUOUS"
         [] ~Contradictory(obs) /\ included = {}          -> UnseenVerdict(obs, acknowledged)
         [] ~Contradictory(obs) /\ included # {}          ->
              IF Cardinality(included) < MinAgreeingProviders THEN "VISIBLE"
              ELSE IF ~FinalDepth(included) THEN "INCLUDED"
              ELSE IF Settled(included) THEN "CONFIRMED" ELSE "REVERTED"

\* The facts a settled conclusion rests on.
SettledFacts(obs) == CHOOSE f \in FactSets(obs) : TRUE
=============================================================================
