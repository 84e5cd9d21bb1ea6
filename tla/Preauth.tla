-------------------------------- MODULE Preauth --------------------------------
(***************************************************************************)
(* What ExecutionRuntime authorises before anything is signed, and what it *)
(* then lets be signed: execution envelopes, approvals, and the bundles    *)
(* that write both in one transaction (ink_v0f preauth), the admission of  *)
(* signed swaps and signed approvals, and the handing over of an approval. *)
(*                                                                         *)
(* A bundle reads the live market before its transaction, so the action    *)
(* may be released, another bundle written or the kill switch engaged in   *)
(* between; an approval's guard is committed before its transport.         *)
(* Reserving is in Execution: here the actions begin reserved.  A quote    *)
(* stands for the amount and the terms one reading of the market gives,    *)
(* within the intent's bounds and the reserved capital.                    *)
(***************************************************************************)
EXTENDS Naturals, FiniteSets

CONSTANTS
    Actions,            \* economic actions
    Sessions,           \* execution sessions
    Nonces,             \* account nonces
    Quotes,             \* readings of the live market
    Planners,           \* callers that write bundles
    Submitters,         \* callers that hand approvals over
    SideOf,             \* [Actions -> {"BUY", "SELL"}]
    InputOf,            \* [Actions -> token the action spends]
    WalletOf,           \* [Sessions -> taker address]
    Unbound,            \* no session
    MaxEnvelopes,       \* bound on the envelopes recorded
    MaxApprovals        \* bound on the approvals recorded

ASSUME PreauthAssumption ==
    /\ SideOf \in [Actions -> {"BUY", "SELL"}]
    /\ DOMAIN InputOf = Actions /\ DOMAIN WalletOf = Sessions
    /\ {Unbound, "NO_ROW"} \cap Sessions = {}
    /\ MaxEnvelopes \in Nat /\ MaxApprovals \in Nat

VARIABLES
    intent,             \* the action's lifecycle, as far as it matters here
    owner,              \* the session of its external action, Unbound or "NO_ROW"
    envelopes,          \* execution_envelopes
    approvals,          \* approval_actions, each with its external action's session
    signedSwaps,        \* envelopes with a signed transaction
    signedApprovals,    \* [approval, nonce] with a signed transaction
    guards,             \* approvals with a submission attempt
    sends,              \* times the action's approval went through the transport
    killed,             \* the kill switch is engaged
    job                 \* the bundle or the submission each caller is in

authorityVars == <<envelopes, approvals, signedSwaps, signedApprovals, guards>>
preauthVars == <<intent, owner, authorityVars, sends, killed, job>>

Idle == [call |-> "none", of |-> "none", with |-> "none"]
Finish(w) == job' = [job EXCEPT ![w] = Idle]

Envelope(a, s, n, q, needs) ==
    [action |-> a, session |-> s, nonce |-> n, quote |-> q, needs |-> needs, lifecycle |-> "AUTHORIZED"]

Authorized(records) == {r \in records : r.lifecycle = "AUTHORIZED"}

\* Identities cover everything but the lifecycle (and the session of the
\* approval's external action, which is another row).
SameEnvelope(e, f) == [e EXCEPT !.lifecycle = f.lifecycle] = f
SameApproval(p, q) == [p EXCEPT !.lifecycle = q.lifecycle, !.bound = q.bound] = q

-----------------------------------------------------------------------------
(* The unique indexes, which also refuse a conflicting replacement. *)

EnvelopeFits(e) ==
    e.lifecycle = "AUTHORIZED" =>
        \A f \in Authorized(envelopes) \ {e} :
            /\ f.action # e.action
            /\ f.nonce = e.nonce => WalletOf[f.session] # WalletOf[e.session]

ApprovalFits(p) ==
    p.lifecycle = "AUTHORIZED" =>
        \A q \in Authorized(approvals) \ {p} :
            InputOf[q.action] = InputOf[p.action] => WalletOf[q.session] # WalletOf[p.session]

\* The mutant looks among the approvals only.
NonceFree_SameKind(s, n) ==
    \A x \in signedApprovals : x.nonce = n => WalletOf[x.approval.session] # WalletOf[s]

NonceFree(s, n) ==
    /\ \A e \in signedSwaps : e.nonce = n => WalletOf[e.session] # WalletOf[s]
    /\ \A x \in signedApprovals : x.nonce = n => WalletOf[x.approval.session] # WalletOf[s]

\* _insert_or_match: a row of that identity is there with the same values, or
\* is inserted as far as the indexes allow.
InsertEnvelope(e) ==
    /\ \A f \in envelopes : SameEnvelope(e, f) => e = f
    /\ EnvelopeFits(e)
    /\ Cardinality(envelopes \cup {e}) <= MaxEnvelopes
    /\ envelopes' = envelopes \cup {e}

\* Its external action is inserted or matched with it; a bundle's names a session.
InsertApproval(p) ==
    /\ \A q \in approvals : SameApproval(p, q) => p.lifecycle = q.lifecycle /\ (p.bound => q.bound)
    /\ IF \E q \in approvals : SameApproval(p, q)
       THEN UNCHANGED approvals
       ELSE /\ ApprovalFits(p)
            /\ Cardinality(approvals) < MaxApprovals
            /\ approvals' = approvals \cup {p}

\* _economic_external_action, without a session and with one.
EconomicRow(a) == owner' = [owner EXCEPT ![a] = IF @ = "NO_ROW" THEN Unbound ELSE @]
EconomicRowOf(a, s) ==
    /\ owner[a] \in {"NO_ROW", s}
    /\ owner' = [owner EXCEPT ![a] = s]

-----------------------------------------------------------------------------
(* Envelopes and approvals recorded on their own. *)

\* The session is not compared with the one that reserved the action.  No code
\* moves an envelope on from the lifecycle it was recorded with.
RecordExecutionEnvelope(a, s, n, q) ==
    /\ ~killed
    /\ intent[a] = "RESERVED"
    /\ \E stage \in {"DRAFT", "AUTHORIZED"}, needs \in {"ALLOWANCE", "VALUE"} :
          InsertEnvelope([Envelope(a, s, n, q, needs) EXCEPT !.lifecycle = stage])
    /\ EconomicRow(a)
    /\ UNCHANGED <<intent, approvals, signedSwaps, signedApprovals, guards, sends, killed, job>>

\* Whatever the state of the action; the external action names no session.
RecordApprovalAction(a, s, q) ==
    /\ ~killed
    /\ \E stage \in {"DRAFT", "AUTHORIZED"} :
          InsertApproval([action |-> a, session |-> s, quote |-> q,
                          bound |-> FALSE, lifecycle |-> stage])
    /\ UNCHANGED <<intent, owner, envelopes, signedSwaps, signedApprovals, guards, sends, killed, job>>

-----------------------------------------------------------------------------
(* The bundles. *)

\* Authorised, the action seen reserved, the market read once, and both records
\* derived from that reading.
Derive(w, kind, e) ==
    /\ job[w] = Idle
    /\ ~killed
    /\ intent[e.action] = "RESERVED"
    /\ job' = [job EXCEPT ![w] =
           [call |-> kind, of |-> e,
            with |-> [action |-> e.action, session |-> e.session, quote |-> e.quote,
                      bound |-> TRUE, lifecycle |-> "AUTHORIZED"]]]
    /\ UNCHANGED <<intent, owner, authorityVars, sends, killed>>

DeriveBundle(w, a, s, n, q) == Derive(w, "BUNDLE", Envelope(a, s, n, q, "ALLOWANCE"))

\* A native BUY pays with its value and needs no approval.
DeriveNativeBuy(w, a, s, n, q) ==
    SideOf[a] = "BUY" /\ Derive(w, "NATIVE_BUY", Envelope(a, s, n, q, "VALUE"))

\* A native SELL may instead be given what a prepared plan has frozen, which was
\* derived the same way earlier.
DeriveNativeSell(w, a, s, n, q) ==
    SideOf[a] = "SELL" /\ Derive(w, "NATIVE_SELL", Envelope(a, s, n, q, "ALLOWANCE"))

\* The mutant trusts what was read before the market.
StillPermitted_AsRead(e) == TRUE

\* Read again inside the transaction.
StillPermitted(e) == ~killed /\ intent[e.action] = "RESERVED"

EnvelopesOf(a) == {e \in envelopes : e.action = a}
ApprovalsOf(a) == {p \in approvals : p.action = a}

\* The mutant writes the approval though the envelope cannot be written.
Persisted_Halves(e, p) ==
    /\ InsertApproval(p)
    /\ IF EnvelopeFits(e) THEN InsertEnvelope(e) ELSE UNCHANGED envelopes

Persisted(e, p) == InsertApproval(p) /\ InsertEnvelope(e)

PersistBundle(w) ==
    /\ job[w].call = "BUNDLE"
    /\ StillPermitted(job[w].of)
    /\ EconomicRowOf(job[w].of.action, job[w].of.session)
    /\ Persisted(job[w].of, job[w].with)
    /\ Finish(w)
    /\ UNCHANGED <<intent, signedSwaps, signedApprovals, guards, sends, killed>>

\* It replaces neither an approval nor another envelope, whatever their lifecycle.
PersistNativeBuy(w) ==
    LET e == job[w].of IN
    /\ job[w].call = "NATIVE_BUY"
    /\ StillPermitted(e)
    /\ ApprovalsOf(e.action) = {}
    /\ \A f \in EnvelopesOf(e.action) : SameEnvelope(e, f)
    /\ EconomicRowOf(e.action, e.session)
    /\ InsertEnvelope(e)
    /\ Finish(w)
    /\ UNCHANGED <<intent, approvals, signedSwaps, signedApprovals, guards, sends, killed>>

PersistNativeSell(w) ==
    LET e == job[w].of
        p == job[w].with
    IN /\ job[w].call = "NATIVE_SELL"
       /\ StillPermitted(e)
       /\ \A q \in ApprovalsOf(e.action) : SameApproval(p, q)
       /\ \A f \in EnvelopesOf(e.action) : SameEnvelope(e, f)
       /\ EconomicRowOf(e.action, e.session)
       /\ Persisted(e, p)
       /\ Finish(w)
       /\ UNCHANGED <<intent, signedSwaps, signedApprovals, guards, sends, killed>>

-----------------------------------------------------------------------------
(* What is then signed. *)

BoundTo(a, s) == owner[a] = s

\* admit_exact_signed_bytes: for the action's one AUTHORIZED envelope.
AdmitSwap(e) ==
    /\ ~killed
    /\ intent[e.action] = "RESERVED"
    /\ e \in Authorized(envelopes)
    /\ BoundTo(e.action, e.session)
    /\ NonceFree(e.session, e.nonce)
    /\ signedSwaps' = signedSwaps \cup {e}
    /\ intent' = [intent EXCEPT ![e.action] = "SIGNED"]
    /\ UNCHANGED <<owner, envelopes, approvals, signedApprovals, guards, sends, killed, job>>

Admissible(p) == p \in Authorized(approvals) /\ p.bound

\* admit_ink_v0f_signed_approval: the nonce is the signing request's; it is not
\* compared with the nonces of the authorized envelopes.
AdmitApproval(p, n) ==
    /\ ~killed
    /\ Admissible(p)
    /\ intent[p.action] = "RESERVED"
    /\ \A x \in signedApprovals : x.approval # p
    /\ NonceFree(p.session, n)
    /\ signedApprovals' = signedApprovals \cup {[approval |-> p, nonce |-> n]}
    /\ UNCHANGED <<intent, owner, envelopes, approvals, signedSwaps, guards, sends, killed, job>>

\* The mutant lets a caller go on over the guard of another.
Unguarded_Retry(p) == TRUE

Unguarded(p) == p \notin guards

\* submit_ink_v0f_signed_approval: the attempt of unknown outcome is committed
\* before the transport is called.
GuardApproval(w, p) ==
    /\ job[w] = Idle
    /\ ~killed
    /\ \E x \in signedApprovals : x.approval = p
    /\ intent[p.action] = "RESERVED"
    /\ Unguarded(p)
    /\ guards' = guards \cup {p}
    /\ job' = [job EXCEPT ![w] = [call |-> "SUBMIT", of |-> "none", with |-> p]]
    /\ UNCHANGED <<intent, owner, envelopes, approvals, signedSwaps, signedApprovals, sends, killed>>

\* Whatever the transport answers, the caller is done.
TransportApproval(w) ==
    /\ job[w].call = "SUBMIT"
    /\ sends' = [sends EXCEPT ![job[w].with.action] = @ + 1]
    /\ Finish(w)
    /\ UNCHANGED <<intent, owner, authorityVars, killed>>

\* An exception, or the death of the process.
Die(w) ==
    /\ job[w] # Idle
    /\ Finish(w)
    /\ UNCHANGED <<intent, owner, authorityVars, sends, killed>>

\* Cancelled or expired: its envelope and approval stay as they are.
Release(a) ==
    /\ intent[a] = "RESERVED"
    /\ intent' = [intent EXCEPT ![a] = "RELEASED"]
    /\ UNCHANGED <<owner, authorityVars, sends, killed, job>>

EngageKillSwitch ==
    /\ ~killed
    /\ killed' = TRUE
    /\ UNCHANGED <<intent, owner, authorityVars, sends, job>>

-----------------------------------------------------------------------------
PreauthInit ==
    /\ intent = [a \in Actions |-> "RESERVED"]
    /\ owner \in [Actions -> Sessions \cup {"NO_ROW"}]
    /\ envelopes = {} /\ approvals = {}
    /\ signedSwaps = {} /\ signedApprovals = {} /\ guards = {}
    /\ sends = [a \in Actions |-> 0]
    /\ killed = FALSE
    /\ job = [w \in Planners \cup Submitters |-> Idle]

PreauthNext ==
    \/ \E a \in Actions, s \in Sessions, n \in Nonces, q \in Quotes :
          \/ RecordExecutionEnvelope(a, s, n, q)
          \/ \E w \in Planners :
                \/ DeriveBundle(w, a, s, n, q)
                \/ DeriveNativeBuy(w, a, s, n, q)
                \/ DeriveNativeSell(w, a, s, n, q)
    \/ \E a \in Actions, s \in Sessions, q \in Quotes : RecordApprovalAction(a, s, q)
    \/ \E e \in envelopes : AdmitSwap(e)
    \/ \E p \in approvals :
          \/ \E n \in Nonces : AdmitApproval(p, n)
          \/ \E w \in Submitters : GuardApproval(w, p)
    \/ \E w \in Planners : PersistBundle(w) \/ PersistNativeBuy(w) \/ PersistNativeSell(w)
    \/ \E w \in Submitters : TransportApproval(w)
    \/ \E w \in Planners \cup Submitters : Die(w)
    \/ \E a \in Actions : Release(a)
    \/ EngageKillSwitch

PreauthSpec == PreauthInit /\ [][PreauthNext]_preauthVars

-----------------------------------------------------------------------------
\* An allowance is signed only for a swap that spends it: beside every signed
\* approval stands the authorized envelope of the same action, session and
\* reading of the market, which needs that allowance; requotes, other bundles
\* and approvals recorded on their own included (record_ink_v0f_preauth_bundle).
ApprovalHasItsSwap ==
    \A x \in signedApprovals :
        \E e \in Authorized(envelopes) :
            /\ e.action = x.approval.action /\ e.session = x.approval.session
            /\ e.quote = x.approval.quote /\ e.needs = "ALLOWANCE"

\* No two signed transactions of one wallet, swaps and approvals of any actions
\* together, carry the same nonce: none can take another's place on the chain.
NonceSignedOnce ==
    LET swaps == {<<WalletOf[e.session], e.nonce>> : e \in signedSwaps}
        allowed == {<<WalletOf[x.approval.session], x.nonce>> : x \in signedApprovals}
    IN /\ Cardinality(swaps) = Cardinality(signedSwaps)
       /\ Cardinality(allowed) = Cardinality(signedApprovals)
       /\ swaps \cap allowed = {}

\* An approval goes through the transport once at most, over two callers, dead
\* callers and calls made again (submit_ink_v0f_signed_approval).
ApprovalLeavesOnce == \A a \in Actions : sends[a] <= 1

\* Once the kill switch is engaged nothing more is authorised, signed or guarded,
\* whatever calls were under way; a guarded approval may still leave.
KillStopsAuthority == [][killed => UNCHANGED authorityVars]_preauthVars
=============================================================================
