---------------------------- MODULE PreauthProofs ----------------------------
(***************************************************************************)
(* Proofs about Preauth: for any actions, sessions and wallets, nonces,    *)
(* readings of the market and callers, and any number of envelopes and     *)
(* approvals on record.                                                    *)
(***************************************************************************)
EXTENDS Preauth, FunctionTheorems, FiniteSetTheorems, TLAPS

Callers == Planners \cup Submitters

EnvelopeRecord ==
    [action: Actions, session: Sessions, nonce: Nonces, quote: Quotes,
     needs: {"ALLOWANCE", "VALUE"}, lifecycle: {"DRAFT", "AUTHORIZED"}]
ApprovalRecord ==
    [action: Actions, session: Sessions, quote: Quotes, bound: BOOLEAN,
     lifecycle: {"DRAFT", "AUTHORIZED"}]

ApprovalOf(e) ==
    [action |-> e.action, session |-> e.session, quote |-> e.quote,
     bound |-> TRUE, lifecycle |-> "AUTHORIZED"]

\* A caller is idle, has derived a bundle, or has written the guard of an approval.
Deriving(j) ==
    /\ j.call \in {"BUNDLE", "NATIVE_BUY", "NATIVE_SELL"}
    /\ j.of \in EnvelopeRecord /\ j.of.lifecycle = "AUTHORIZED"
    /\ j.call # "NATIVE_BUY" => j.of.needs = "ALLOWANCE"
    /\ j.with = ApprovalOf(j.of)
Sending(j) == j.call = "SUBMIT" /\ j.with \in guards

JobsTyped ==
    /\ job = [w \in Callers |-> job[w]]
    /\ \A w \in Callers : job[w] = Idle \/ Deriving(job[w]) \/ Sending(job[w])

PreauthTyped ==
    /\ intent \in [Actions -> {"RESERVED", "SIGNED", "RELEASED"}]
    /\ owner \in [Actions -> Sessions \cup {"NO_ROW", Unbound}]
    /\ envelopes \subseteq EnvelopeRecord
    /\ approvals \subseteq ApprovalRecord
    /\ signedSwaps \subseteq envelopes
    /\ signedApprovals \subseteq [approval: approvals, nonce: Nonces]
    /\ \A p \in guards : \E x \in signedApprovals : x.approval = p
    /\ sends \in [Actions -> Nat]
    /\ JobsTyped

-----------------------------------------------------------------------------
(* What a step does to the records.                                           *)

Recording ==
    \/ \E a \in Actions, s \in Sessions, n \in Nonces, q \in Quotes :
          RecordExecutionEnvelope(a, s, n, q)
    \/ \E a \in Actions, s \in Sessions, q \in Quotes : RecordApprovalAction(a, s, q)
Persisting(w) == PersistBundle(w) \/ PersistNativeBuy(w) \/ PersistNativeSell(w)
Admitting ==
    \/ \E e \in envelopes : AdmitSwap(e)
    \/ \E p \in approvals, n \in Nonces : AdmitApproval(p, n)
Submitting ==
    \/ \E p \in approvals, w \in Submitters : GuardApproval(w, p)
    \/ \E w \in Submitters : TransportApproval(w)

\* The other steps write nothing.
LEMMA StepKinds ==
    ASSUME [PreauthNext]_preauthVars
    PROVE \/ Recording \/ (\E w \in Planners : Persisting(w)) \/ Admitting \/ Submitting
          \/ /\ UNCHANGED <<owner, authorityVars, sends>>
             /\ UNCHANGED intent \/ \E a \in Actions : Release(a)
<1>1. CASE UNCHANGED preauthVars
  BY <1>1 DEF preauthVars
<1>2. CASE \E w \in Callers : Die(w)
  BY <1>2 DEF Die
<1>3. CASE (\E a \in Actions : Release(a)) \/ EngageKillSwitch
  BY <1>3 DEF Release, EngageKillSwitch
<1>4. CASE \E a \in Actions, s \in Sessions, n \in Nonces, q \in Quotes, w \in Planners :
              DeriveBundle(w, a, s, n, q) \/ DeriveNativeBuy(w, a, s, n, q)
                \/ DeriveNativeSell(w, a, s, n, q)
  BY <1>4 DEF DeriveBundle, DeriveNativeBuy, DeriveNativeSell, Derive
<1>5. CASE Recording \/ (\E w \in Planners : Persisting(w)) \/ Admitting \/ Submitting
  BY <1>5
<1> QED
  BY <1>1, <1>2, <1>3, <1>4, <1>5
     DEF PreauthNext, Recording, Persisting, Admitting, Submitting, Callers

\* What a bundle writes it has derived.
LEMMA PersistsDerived ==
    ASSUME JobsTyped, NEW w \in Planners, Persisting(w)
    PROVE Deriving(job[w])
<1>1. job[w] = Idle \/ Deriving(job[w]) \/ Sending(job[w])
  BY DEF JobsTyped, Callers
<1>2. job[w].call \in {"BUNDLE", "NATIVE_BUY", "NATIVE_SELL"}
  BY DEF Persisting, PersistBundle, PersistNativeBuy, PersistNativeSell
<1>3. Idle.call = "none"
  BY DEF Idle
<1> QED
  BY <1>1, <1>2, <1>3 DEF Sending

\* Envelopes are written one at a time and stay as they were written.
LEMMA StepEnvelopes ==
    ASSUME PreauthTyped, [PreauthNext]_preauthVars
    PROVE /\ envelopes' \subseteq EnvelopeRecord
          /\ envelopes \subseteq envelopes'
<1>1. CASE \E a \in Actions, s \in Sessions, n \in Nonces, q \in Quotes :
             RecordExecutionEnvelope(a, s, n, q)
  BY <1>1 DEF RecordExecutionEnvelope, InsertEnvelope, Envelope, EnvelopeRecord, PreauthTyped
<1>2. CASE \E w \in Planners : Persisting(w)
  <2>1. PICK w \in Planners : Persisting(w)
    BY <1>2
  <2>2. Deriving(job[w])
    BY <2>1, PersistsDerived DEF PreauthTyped
  <2> QED
    BY <2>1, <2>2
       DEF Persisting, PersistBundle, PersistNativeBuy, PersistNativeSell, Persisted,
           InsertEnvelope, Deriving, PreauthTyped
<1>3. CASE UNCHANGED envelopes
  BY <1>3 DEF PreauthTyped
<1>4. CASE (\E a \in Actions, s \in Sessions, q \in Quotes : RecordApprovalAction(a, s, q))
             \/ Admitting \/ Submitting
  BY <1>3, <1>4
     DEF RecordApprovalAction, Admitting, AdmitSwap, AdmitApproval, Submitting, GuardApproval,
         TransportApproval, authorityVars
<1> QED
  BY <1>1, <1>2, <1>3, <1>4, StepKinds DEF Recording, authorityVars

\* The session an action's external action names, once it names one, is never
\* another (_economic_external_action).
LEMMA StepOwner ==
    ASSUME PreauthTyped, [PreauthNext]_preauthVars
    PROVE /\ owner' \in [Actions -> Sessions \cup {"NO_ROW", Unbound}]
          /\ \A a \in Actions : owner[a] \in Sessions => owner'[a] = owner[a]
<1>0. "NO_ROW" \notin Sessions /\ Unbound \notin Sessions
  BY PreauthAssumption
<1>1. CASE \E a \in Actions : EconomicRow(a)
  BY <1>0, <1>1 DEF EconomicRow, PreauthTyped
<1>2. CASE \E a \in Actions, s \in Sessions : EconomicRowOf(a, s)
  BY <1>0, <1>2 DEF EconomicRowOf, PreauthTyped
<1>3. CASE \E w \in Planners : Persisting(w)
  <2>1. PICK w \in Planners : Persisting(w)
    BY <1>3
  <2>2. Deriving(job[w])
    BY <2>1, PersistsDerived DEF PreauthTyped
  <2>3. EconomicRowOf(job[w].of.action, job[w].of.session)
    BY <2>1 DEF Persisting, PersistBundle, PersistNativeBuy, PersistNativeSell
  <2>4. job[w].of.action \in Actions /\ job[w].of.session \in Sessions
    BY <2>2 DEF Deriving, EnvelopeRecord
  <2> QED
    BY <1>2, <2>3, <2>4
<1>4. CASE UNCHANGED owner
  BY <1>4 DEF PreauthTyped
<1>5. CASE Recording \/ Admitting \/ Submitting
  <2>1. UNCHANGED owner \/ \E a \in Actions : EconomicRow(a)
    BY <1>5 DEF Recording, RecordExecutionEnvelope, RecordApprovalAction, Admitting, AdmitSwap,
                AdmitApproval, Submitting, GuardApproval, TransportApproval
  <2> QED
    BY <1>1, <1>4, <2>1
<1> QED
  BY <1>3, <1>4, <1>5, StepKinds

\* The approval of a bundle is written with its envelope, and both with the row that
\* binds the action to their session.
Bundled(p) ==
    /\ p.lifecycle = "AUTHORIZED"
    /\ owner[p.action] = p.session
    /\ \E e \in Authorized(envelopes) :
          /\ e.action = p.action /\ e.session = p.session
          /\ e.quote = p.quote /\ e.needs = "ALLOWANCE"

NewApproval(p) == approvals' = approvals \cup {p} /\ ApprovalFits(p) /\ (p.bound => Bundled(p)')

\* Approvals are written one at a time, as far as the index allows, and stay.
LEMMA StepApprovals ==
    ASSUME PreauthTyped, [PreauthNext]_preauthVars
    PROVE UNCHANGED approvals \/ \E p \in ApprovalRecord : NewApproval(p)
<1>1. ASSUME NEW a \in Actions, NEW s \in Sessions, NEW q \in Quotes, RecordApprovalAction(a, s, q)
      PROVE UNCHANGED approvals \/ \E p \in ApprovalRecord : NewApproval(p)
  <2>1. PICK stage, p :
           /\ stage \in {"DRAFT", "AUTHORIZED"}
           /\ p = [action |-> a, session |-> s, quote |-> q, bound |-> FALSE, lifecycle |-> stage]
           /\ InsertApproval(p)
    BY <1>1 DEF RecordApprovalAction
  <2>2. p \in ApprovalRecord /\ ~p.bound
    BY <2>1 DEF ApprovalRecord
  <2> QED
    BY <2>1, <2>2 DEF InsertApproval, NewApproval
<1>2. ASSUME NEW w \in Planners, PersistBundle(w) \/ PersistNativeSell(w)
      PROVE UNCHANGED approvals \/ \E p \in ApprovalRecord : NewApproval(p)
  <2>1. Deriving(job[w]) /\ job[w].call # "NATIVE_BUY"
    BY <1>2, PersistsDerived DEF Persisting, PersistBundle, PersistNativeSell, PreauthTyped
  <2>2. PICK e, p : e = job[w].of /\ p = job[w].with
    OBVIOUS
  <2>3. /\ e \in EnvelopeRecord /\ e.lifecycle = "AUTHORIZED" /\ e.needs = "ALLOWANCE"
        /\ p = ApprovalOf(e)
    BY <2>1, <2>2 DEF Deriving
  <2>4. InsertApproval(p) /\ InsertEnvelope(e) /\ EconomicRowOf(e.action, e.session)
    BY <1>2, <2>2 DEF PersistBundle, PersistNativeSell, Persisted
  <2>5. /\ p \in ApprovalRecord /\ p.lifecycle = "AUTHORIZED"
        /\ p.action = e.action /\ p.session = e.session /\ p.quote = e.quote
    BY <2>3 DEF ApprovalOf, ApprovalRecord, EnvelopeRecord
  <2>6. owner'[p.action] = p.session
    BY <2>4, <2>5 DEF EconomicRowOf, PreauthTyped, ApprovalRecord
  <2>7. e \in Authorized(envelopes')
    BY <2>3, <2>4 DEF InsertEnvelope, Authorized
  <2>8. Bundled(p)'
    BY <2>3, <2>5, <2>6, <2>7 DEF Bundled
  <2> QED
    BY <2>4, <2>5, <2>8 DEF InsertApproval, NewApproval
<1>3. CASE \/ \E a \in Actions, s \in Sessions, n \in Nonces, q \in Quotes :
                 RecordExecutionEnvelope(a, s, n, q)
           \/ \E w \in Planners : PersistNativeBuy(w)
           \/ Admitting \/ Submitting
  BY <1>3
     DEF RecordExecutionEnvelope, PersistNativeBuy, Admitting, AdmitSwap, AdmitApproval,
         Submitting, GuardApproval, TransportApproval, authorityVars
<1> QED
  BY <1>1, <1>2, <1>3, StepKinds DEF Recording, Persisting, authorityVars
\* Signatures are added one at a time, each of an admission.
LEMMA StepSignatures ==
    ASSUME PreauthTyped, [PreauthNext]_preauthVars
    PROVE \/ UNCHANGED <<signedSwaps, signedApprovals>>
          \/ \E e \in envelopes : AdmitSwap(e)
          \/ \E p \in approvals, n \in Nonces : AdmitApproval(p, n)
BY StepKinds
   DEF Recording, RecordExecutionEnvelope, RecordApprovalAction, Persisting, PersistBundle,
       PersistNativeBuy, PersistNativeSell, Admitting, Submitting, GuardApproval,
       TransportApproval, authorityVars

\* So is the guard of a submission, whose sender goes on to the transport.
LEMMA StepGuards ==
    ASSUME PreauthTyped, [PreauthNext]_preauthVars
    PROVE \/ UNCHANGED <<guards, sends>>
          \/ \E p \in approvals, w \in Submitters : GuardApproval(w, p)
          \/ \E w \in Submitters : TransportApproval(w)
BY StepKinds
   DEF Recording, RecordExecutionEnvelope, RecordApprovalAction, Persisting, PersistBundle,
       PersistNativeBuy, PersistNativeSell, Admitting, AdmitSwap, AdmitApproval, Submitting,
       authorityVars

\* Signatures, guards and what they stand on are never taken back.
LEMMA StepSignedType ==
    ASSUME PreauthTyped, [PreauthNext]_preauthVars
    PROVE /\ signedSwaps' \subseteq envelopes'
          /\ signedApprovals' \subseteq [approval: approvals', nonce: Nonces]
          /\ \A p \in guards' : \E x \in signedApprovals' : x.approval = p
          /\ guards \subseteq guards'
<1>1. envelopes \subseteq envelopes' /\ approvals \subseteq approvals'
  BY StepEnvelopes, StepApprovals DEF NewApproval
<1>2. signedSwaps' \subseteq envelopes'
  BY <1>1, StepSignatures DEF AdmitSwap, AdmitApproval, PreauthTyped
<1>3. signedApprovals' \subseteq [approval: approvals', nonce: Nonces] /\ signedApprovals \subseteq signedApprovals'
  <2>1. [approval: approvals, nonce: Nonces] \subseteq [approval: approvals', nonce: Nonces]
    BY <1>1
  <2> QED
    BY <1>1, <2>1, StepSignatures DEF AdmitSwap, AdmitApproval, PreauthTyped
<1>4. (\A p \in guards' : \E x \in signedApprovals' : x.approval = p) /\ guards \subseteq guards'
  BY <1>3, StepGuards DEF GuardApproval, TransportApproval, authorityVars, PreauthTyped
<1> QED
  BY <1>2, <1>3, <1>4

\* How a caller goes on.
LEMMA StepJobs ==
    ASSUME PreauthTyped, [PreauthNext]_preauthVars
    PROVE \/ UNCHANGED job
          \/ \E w \in Callers : Finish(w)
          \/ \E w \in Callers : \E j : job[w] = Idle /\ Deriving(j) /\ job' = [job EXCEPT ![w] = j]
          \/ \E w \in Callers, p \in approvals : GuardApproval(w, p)
<1>1. CASE \E a \in Actions, s \in Sessions, n \in Nonces, q \in Quotes, w \in Planners :
              DeriveBundle(w, a, s, n, q) \/ DeriveNativeBuy(w, a, s, n, q)
                \/ DeriveNativeSell(w, a, s, n, q)
  <2>1. PICK a \in Actions, s \in Sessions, n \in Nonces, q \in Quotes, w \in Planners :
              DeriveBundle(w, a, s, n, q) \/ DeriveNativeBuy(w, a, s, n, q)
                \/ DeriveNativeSell(w, a, s, n, q)
    BY <1>1
  <2>2. PICK kind, e :
           /\ \/ kind \in {"BUNDLE", "NATIVE_SELL"} /\ e = Envelope(a, s, n, q, "ALLOWANCE")
              \/ kind = "NATIVE_BUY" /\ e = Envelope(a, s, n, q, "VALUE")
           /\ Derive(w, kind, e)
    BY <2>1 DEF DeriveBundle, DeriveNativeBuy, DeriveNativeSell
  <2>3. /\ e \in EnvelopeRecord /\ e.lifecycle = "AUTHORIZED"
        /\ kind # "NATIVE_BUY" => e.needs = "ALLOWANCE"
    BY <2>2 DEF Envelope, EnvelopeRecord
  <2>4. PICK j : j = [call |-> kind, of |-> e, with |-> ApprovalOf(e)]
    OBVIOUS
  <2>5. Deriving(j)
    BY <2>2, <2>3, <2>4 DEF Deriving
  <2>6. job[w] = Idle /\ job' = [job EXCEPT ![w] = j]
    BY <2>2, <2>4 DEF Derive, ApprovalOf
  <2> QED
    BY <2>5, <2>6 DEF Callers
<1>2. CASE UNCHANGED preauthVars
  BY <1>2 DEF preauthVars
<1>3. CASE Recording \/ Admitting \/ (\E a \in Actions : Release(a)) \/ EngageKillSwitch
  BY <1>3 DEF Recording, RecordExecutionEnvelope, RecordApprovalAction, Admitting, AdmitSwap,
              AdmitApproval, Release, EngageKillSwitch
<1>4. CASE \/ \E w \in Planners : Persisting(w)
           \/ \E w \in Submitters : TransportApproval(w)
           \/ \E w \in Callers : Die(w)
  BY <1>4 DEF Persisting, PersistBundle, PersistNativeBuy, PersistNativeSell, TransportApproval,
              Die, Callers
<1>5. CASE \E p \in approvals, w \in Submitters : GuardApproval(w, p)
  BY <1>5 DEF Callers
<1> QED
  BY <1>1, <1>2, <1>3, <1>4, <1>5
     DEF PreauthNext, Recording, Persisting, Admitting, Callers

LEMMA StepJobsType ==
    ASSUME PreauthTyped, [PreauthNext]_preauthVars
    PROVE JobsTyped'
<1>0. guards \subseteq guards'
  BY StepSignedType
<1>1. ASSUME NEW w \in Callers, NEW j, job' = [job EXCEPT ![w] = j],
             j = Idle \/ Deriving(j) \/ Sending(j)'
      PROVE JobsTyped'
  <2>1. job' = [v \in Callers |-> job'[v]]
    BY <1>1 DEF PreauthTyped, JobsTyped
  <2>2. ASSUME NEW v \in Callers
        PROVE (job[v] = Idle \/ Deriving(job[v]) \/ Sending(job[v]))'
    <3>1. job'[v] = IF v = w THEN j ELSE job[v]
      BY <1>1 DEF PreauthTyped, JobsTyped
    <3> QED
      BY <1>0, <1>1, <3>1 DEF PreauthTyped, JobsTyped, Deriving, Sending
  <2> QED
    BY <2>1, <2>2 DEF JobsTyped
<1>2. CASE UNCHANGED job
  BY <1>0, <1>2 DEF PreauthTyped, JobsTyped, Deriving, Sending
<1>3. CASE \E w \in Callers : Finish(w)
  BY <1>1, <1>3 DEF Finish
<1>4. CASE \E w \in Callers, p \in approvals : GuardApproval(w, p)
  <2>1. PICK w \in Callers, p \in approvals : GuardApproval(w, p)
    BY <1>4
  <2>2. PICK j : j = [call |-> "SUBMIT", of |-> "none", with |-> p]
    OBVIOUS
  <2>3. job' = [job EXCEPT ![w] = j] /\ p \in guards'
    BY <2>1, <2>2 DEF GuardApproval
  <2>4. Sending(j)'
    BY <2>2, <2>3 DEF Sending
  <2> QED
    BY <1>1, <2>3, <2>4
<1> QED
  BY <1>1, <1>2, <1>3, <1>4, StepJobs

\* What goes through the transport has its guard.
LEMMA TransportSends ==
    ASSUME PreauthTyped, NEW w \in Submitters, TransportApproval(w)
    PROVE /\ w \in Callers /\ Sending(job[w])
          /\ job[w].with \in approvals /\ job[w].with.action \in Actions
<1>1. job[w] = Idle \/ Deriving(job[w]) \/ Sending(job[w])
  BY DEF PreauthTyped, JobsTyped, Callers
<1>2. job[w].call = "SUBMIT"
  BY DEF TransportApproval
<1>3. Idle.call = "none"
  BY DEF Idle
<1>4. Sending(job[w])
  BY <1>1, <1>2, <1>3 DEF Deriving
<1>5. job[w].with \in approvals
  BY <1>4 DEF Sending, PreauthTyped
<1> QED
  BY <1>4, <1>5 DEF PreauthTyped, ApprovalRecord, Callers

LEMMA StepTyped ==
    ASSUME PreauthTyped, [PreauthNext]_preauthVars
    PROVE PreauthTyped'
<1>1. intent' \in [Actions -> {"RESERVED", "SIGNED", "RELEASED"}]
  <2>1. \/ UNCHANGED intent
        \/ \E e \in envelopes : AdmitSwap(e)
        \/ \E a \in Actions : Release(a)
    BY StepKinds
       DEF Recording, RecordExecutionEnvelope, RecordApprovalAction, Persisting, PersistBundle,
           PersistNativeBuy, PersistNativeSell, Admitting, AdmitApproval, Submitting,
           GuardApproval, TransportApproval
  <2> QED
    BY <2>1 DEF AdmitSwap, Release, PreauthTyped, EnvelopeRecord
<1>2. sends' \in [Actions -> Nat]
  <2>1. ASSUME NEW w \in Submitters, TransportApproval(w)
        PROVE sends' \in [Actions -> Nat]
    <3>1. PICK a \in Actions : a = job[w].with.action
      BY <2>1, TransportSends
    <3> QED
      BY <2>1, <3>1 DEF TransportApproval, PreauthTyped
  <2> QED
    BY <2>1, StepGuards DEF GuardApproval, PreauthTyped
<1>3. approvals' \subseteq ApprovalRecord
  BY StepApprovals DEF NewApproval, PreauthTyped
<1> QED
  BY <1>1, <1>2, <1>3, StepEnvelopes, StepOwner, StepSignedType, StepJobsType DEF PreauthTyped
-----------------------------------------------------------------------------
(* An approval leaves once.                                                   *)

OneWalletOneToken ==
    \A p, q \in Authorized(approvals) :
        InputOf[p.action] = InputOf[q.action] /\ WalletOf[p.session] = WalletOf[q.session] => p = q

\* What was admitted for signing was a bundle's, and still is.
AdmittedBundled ==
    /\ \A p \in approvals : p.bound => Bundled(p)
    /\ \A x \in signedApprovals : Admissible(x.approval)

\* A guard is followed by one transport at most.
Submits(w) == job[w].call = "SUBMIT"
SentOnce ==
    /\ \A a \in Actions : sends[a] \in {0, 1} /\ (sends[a] = 1 => \E p \in guards : p.action = a)
    /\ \A w \in Callers : Submits(w) => sends[job[w].with.action] = 0
    /\ \A v, w \in Callers : v # w /\ Submits(v) /\ Submits(w) =>
          job[v].with.action # job[w].with.action

LEMMA StepOneWallet ==
    ASSUME PreauthTyped, OneWalletOneToken, [PreauthNext]_preauthVars
    PROVE OneWalletOneToken'
<1>1. CASE UNCHANGED approvals
  BY <1>1 DEF OneWalletOneToken, Authorized
<1>2. ASSUME NEW p \in ApprovalRecord, NewApproval(p)
      PROVE OneWalletOneToken'
  BY <1>2 DEF NewApproval, ApprovalFits, OneWalletOneToken, Authorized
<1> QED
  BY <1>1, <1>2, StepApprovals

\* The session of a bundle stays that of its action, and its envelope on record.
LEMMA BundledStays ==
    ASSUME PreauthTyped, [PreauthNext]_preauthVars, NEW p \in approvals, Bundled(p)
    PROVE Bundled(p)'
<1>1. p.action \in Actions /\ p.session \in Sessions
  BY DEF PreauthTyped, ApprovalRecord
<1>2. owner'[p.action] = p.session
  BY <1>1, StepOwner DEF Bundled
<1>3. Authorized(envelopes) \subseteq Authorized(envelopes')
  BY StepEnvelopes DEF Authorized
<1> QED
  BY <1>2, <1>3 DEF Bundled

LEMMA StepAdmitted ==
    ASSUME PreauthTyped, AdmittedBundled, [PreauthNext]_preauthVars
    PROVE AdmittedBundled'
<1>1. \A p \in approvals' : p.bound => Bundled(p)'
  <2>1. ASSUME NEW p \in approvals, p.bound
        PROVE Bundled(p)'
    BY <2>1, BundledStays DEF AdmittedBundled
  <2> QED
    BY <2>1, StepApprovals DEF NewApproval
<1>2. \A p : Admissible(p) => Admissible(p)'
  BY StepApprovals DEF NewApproval, Admissible, Authorized
<1>3. \A x \in signedApprovals' : Admissible(x.approval)'
  <2>1. ASSUME NEW p \in approvals, NEW n \in Nonces, AdmitApproval(p, n)
        PROVE \A x \in signedApprovals' : Admissible(x.approval)'
    BY <1>2, <2>1 DEF AdmitApproval, AdmittedBundled
  <2>2. CASE UNCHANGED signedApprovals
    BY <1>2, <2>2 DEF AdmittedBundled
  <2> QED
    BY <2>1, <2>2, StepSignatures DEF AdmitSwap
<1> QED
  BY <1>1, <1>3 DEF AdmittedBundled

\* Two guarded approvals are of two actions: both are authorized, and each of the
\* session its action is bound to.
LEMMA OneGuardPerAction ==
    ASSUME PreauthTyped, OneWalletOneToken, AdmittedBundled,
           NEW p, NEW q, Admissible(p), Admissible(q), p.action = q.action
    PROVE p = q
<1>1. p.session = owner[p.action] /\ q.session = owner[q.action]
  BY DEF AdmittedBundled, Admissible, Authorized, Bundled
<1> QED
  BY <1>1 DEF OneWalletOneToken, Admissible

LEMMA SubmitsGuarded ==
    ASSUME PreauthTyped, NEW w \in Callers, Submits(w)
    PROVE job[w].with \in guards /\ job[w].with.action \in Actions
<1>1. job[w] = Idle \/ Deriving(job[w]) \/ Sending(job[w])
  BY DEF PreauthTyped, JobsTyped
<1>2. Idle.call = "none"
  BY DEF Idle
<1>3. Sending(job[w])
  BY <1>1, <1>2 DEF Deriving, Submits
<1>4. job[w].with \in approvals
  BY <1>3 DEF Sending, PreauthTyped
<1> QED
  BY <1>3, <1>4 DEF Sending, PreauthTyped, ApprovalRecord

LEMMA StepSent ==
    ASSUME PreauthTyped, OneWalletOneToken, AdmittedBundled, SentOnce, [PreauthNext]_preauthVars
    PROVE SentOnce'
<1>0. guards \subseteq guards' /\ JobsTyped'
  BY StepSignedType, StepJobsType
<1>1. \A p \in guards : Admissible(p)
  BY DEF PreauthTyped, AdmittedBundled
<1>2. ASSUME UNCHANGED <<guards, sends>>, \A w \in Callers : Submits(w)' => job'[w] = job[w]
      PROVE SentOnce'
  BY <1>2 DEF SentOnce, Submits
<1>3. CASE UNCHANGED <<guards, sends>> /\ UNCHANGED job
  BY <1>2, <1>3
<1>4. CASE UNCHANGED <<guards, sends>> /\ \E w \in Callers : Finish(w)
  <2>1. PICK w \in Callers : job' = [job EXCEPT ![w] = Idle]
    BY <1>4 DEF Finish
  <2>2. \A v \in Callers : job'[v] = IF v = w THEN Idle ELSE job[v]
    BY <2>1 DEF PreauthTyped, JobsTyped
  <2>3. \A v \in Callers : Submits(v)' => job'[v] = job[v]
    BY <2>2 DEF Submits, Idle
  <2> QED
    BY <1>2, <1>4, <2>3
<1>5. CASE /\ UNCHANGED <<guards, sends>>
           /\ \E w \in Callers : \E j : job[w] = Idle /\ Deriving(j) /\ job' = [job EXCEPT ![w] = j]
  <2>1. PICK w, j : w \in Callers /\ job[w] = Idle /\ Deriving(j) /\ job' = [job EXCEPT ![w] = j]
    BY <1>5
  <2>2. j.call # "SUBMIT"
    BY <2>1 DEF Deriving
  <2>3. \A v \in Callers : job'[v] = IF v = w THEN j ELSE job[v]
    BY <2>1 DEF PreauthTyped, JobsTyped
  <2>4. \A v \in Callers : Submits(v)' => job'[v] = job[v]
    BY <2>2, <2>3 DEF Submits
  <2> QED
    BY <1>2, <1>5, <2>4
<1>6. ASSUME NEW w \in Callers, NEW p \in approvals, GuardApproval(w, p)
      PROVE SentOnce'
  <2>1. p \notin guards /\ guards' = guards \cup {p} /\ UNCHANGED sends
    BY <1>6 DEF GuardApproval, Unguarded
  <2>2. Admissible(p) /\ p.action \in Actions
    BY <1>6 DEF GuardApproval, AdmittedBundled, PreauthTyped, ApprovalRecord
  <2>3. \A q \in guards : q.action # p.action
    BY <1>1, <2>1, <2>2, OneGuardPerAction
  <2>4. sends[p.action] = 0
    BY <2>2, <2>3 DEF SentOnce
  <2>5. PICK j : j = [call |-> "SUBMIT", of |-> "none", with |-> p]
    OBVIOUS
  <2>6. job' = [job EXCEPT ![w] = j] /\ j.with = p
    BY <1>6, <2>5 DEF GuardApproval
  <2>7. \A v \in Callers : job'[v] = IF v = w THEN j ELSE job[v]
    BY <2>6 DEF PreauthTyped, JobsTyped
  <2>8. ASSUME NEW v \in Callers, v # w, Submits(v)'
        PROVE job'[v] = job[v] /\ Submits(v) /\ job[v].with.action # p.action
    <3>1. job'[v] = job[v] /\ Submits(v)
      BY <2>7, <2>8 DEF Submits
    <3> QED
      BY <2>3, <3>1, SubmitsGuarded
  <2>9. \A v \in Callers : Submits(v)' => sends'[job'[v].with.action] = 0
    BY <2>1, <2>4, <2>6, <2>7, <2>8 DEF SentOnce
  <2>10. \A u, v \in Callers : u # v /\ Submits(u)' /\ Submits(v)' =>
            job'[u].with.action # job'[v].with.action
    BY <2>6, <2>7, <2>8 DEF SentOnce
  <2>11. \A a \in Actions : sends'[a] \in {0, 1} /\ (sends'[a] = 1 => \E q \in guards' : q.action = a)
    BY <2>1 DEF SentOnce
  <2> QED
    BY <2>9, <2>10, <2>11 DEF SentOnce
<1>7. ASSUME NEW w \in Submitters, TransportApproval(w)
      PROVE SentOnce'
  <2>0. w \in Callers /\ Submits(w) /\ UNCHANGED guards
    BY <1>7, TransportSends DEF TransportApproval, Submits, authorityVars
  <2>1. PICK p, a : p = job[w].with /\ a = p.action
    OBVIOUS
  <2>2. a \in Actions /\ p \in guards /\ sends[a] = 0
    BY <2>0, <2>1, SubmitsGuarded DEF SentOnce
  <2>3. \A b \in Actions : sends'[b] = IF b = a THEN 1 ELSE sends[b]
    BY <1>7, <2>1, <2>2 DEF TransportApproval, PreauthTyped
  <2>4. \A v \in Callers : job'[v] = IF v = w THEN Idle ELSE job[v]
    BY <1>7, <2>0 DEF TransportApproval, Finish, PreauthTyped, JobsTyped
  <2>5. ASSUME NEW v \in Callers, Submits(v)'
        PROVE job'[v] = job[v] /\ Submits(v) /\ sends'[job[v].with.action] = 0
    <3>1. v # w /\ job'[v] = job[v] /\ Submits(v)
      BY <2>4, <2>5 DEF Submits, Idle
    <3>2. job[v].with.action # a
      BY <2>0, <2>1, <3>1 DEF SentOnce
    <3> QED
      BY <2>3, <3>1, <3>2, SubmitsGuarded DEF SentOnce
  <2>6. \A b \in Actions : sends'[b] \in {0, 1} /\ (sends'[b] = 1 => \E q \in guards' : q.action = b)
    BY <2>0, <2>1, <2>2, <2>3 DEF SentOnce
  <2> QED
    BY <2>5, <2>6 DEF SentOnce
<1>8. CASE \E p \in approvals, w \in Submitters : GuardApproval(w, p)
  BY <1>6, <1>8 DEF Callers
<1>9. CASE \E w \in Submitters : TransportApproval(w)
  BY <1>7, <1>9
<1> QED
  BY <1>3, <1>4, <1>5, <1>6, <1>8, <1>9, StepGuards, StepJobs
-----------------------------------------------------------------------------
(* No nonce is signed twice.                                                  *)

SwapKey(e) == <<WalletOf[e.session], e.nonce>>
ApprovalKey(x) == <<WalletOf[x.approval.session], x.nonce>>

NoncesApart ==
    /\ IsFiniteSet(signedSwaps) /\ IsFiniteSet(signedApprovals)
    /\ \A e, f \in signedSwaps : SwapKey(e) = SwapKey(f) => e = f
    /\ \A x, y \in signedApprovals : ApprovalKey(x) = ApprovalKey(y) => x = y
    /\ \A e \in signedSwaps, x \in signedApprovals : SwapKey(e) # ApprovalKey(x)

LEMMA StepNonces ==
    ASSUME PreauthTyped, NoncesApart, [PreauthNext]_preauthVars
    PROVE NoncesApart'
<1>1. ASSUME NEW e \in envelopes, AdmitSwap(e)
      PROVE NoncesApart'
  <2>1. /\ signedSwaps' = signedSwaps \cup {e} /\ UNCHANGED signedApprovals
        /\ \A f \in signedSwaps : SwapKey(f) # SwapKey(e)
        /\ \A x \in signedApprovals : ApprovalKey(x) # SwapKey(e)
    BY <1>1 DEF AdmitSwap, NonceFree, SwapKey, ApprovalKey
  <2>2. IsFiniteSet(signedSwaps')
    BY <2>1, FS_AddElement DEF NoncesApart
  <2> QED
    BY <2>1, <2>2 DEF NoncesApart
<1>2. ASSUME NEW p \in approvals, NEW n \in Nonces, AdmitApproval(p, n)
      PROVE NoncesApart'
  <2>1. PICK y : y = [approval |-> p, nonce |-> n]
    OBVIOUS
  <2>2. /\ signedApprovals' = signedApprovals \cup {y} /\ UNCHANGED signedSwaps
        /\ \A f \in signedSwaps : SwapKey(f) # ApprovalKey(y)
        /\ \A x \in signedApprovals : ApprovalKey(x) # ApprovalKey(y)
    BY <1>2, <2>1 DEF AdmitApproval, NonceFree, SwapKey, ApprovalKey
  <2>3. IsFiniteSet(signedApprovals')
    BY <2>2, FS_AddElement DEF NoncesApart
  <2> QED
    BY <2>2, <2>3 DEF NoncesApart
<1>3. CASE UNCHANGED <<signedSwaps, signedApprovals>>
  BY <1>3 DEF NoncesApart
<1> QED
  BY <1>1, <1>2, <1>3, StepSignatures

\* A set is as large as the set of its members' keys, when no two share one.
LEMMA KeysAreAsMany ==
    ASSUME NEW S, NEW K, NEW f \in Bijection(S, K), IsFiniteSet(S)
    PROVE Cardinality(K) = Cardinality(S)
BY FS_Bijection DEF ExistsBijection

LEMMA ApartCounts ==
    ASSUME NoncesApart
    PROVE NonceSignedOnce
<1> DEFINE swaps == {SwapKey(e) : e \in signedSwaps}
           allowed == {ApprovalKey(x) : x \in signedApprovals}
           f == [e \in signedSwaps |-> SwapKey(e)]
           g == [x \in signedApprovals |-> ApprovalKey(x)]
<1>1. f \in Bijection(signedSwaps, swaps)
  <2>1. f \in [signedSwaps -> swaps] /\ \A k \in swaps : \E e \in signedSwaps : f[e] = k
    OBVIOUS
  <2>2. \A d, e \in signedSwaps : f[d] = f[e] => d = e
    BY DEF NoncesApart
  <2> HIDE DEF f, swaps
  <2> QED
    BY <2>1, <2>2 DEF Bijection, Injection, IsInjective, Surjection
<1>2. g \in Bijection(signedApprovals, allowed)
  <2>1. g \in [signedApprovals -> allowed] /\ \A k \in allowed : \E x \in signedApprovals : g[x] = k
    OBVIOUS
  <2>2. \A x, y \in signedApprovals : g[x] = g[y] => x = y
    BY DEF NoncesApart
  <2> HIDE DEF g, allowed
  <2> QED
    BY <2>1, <2>2 DEF Bijection, Injection, IsInjective, Surjection
<1>3. Cardinality(swaps) = Cardinality(signedSwaps)
  <2> HIDE DEF f, swaps
  <2> QED BY <1>1, KeysAreAsMany DEF NoncesApart
<1>4. Cardinality(allowed) = Cardinality(signedApprovals)
  <2> HIDE DEF g, allowed
  <2> QED BY <1>2, KeysAreAsMany DEF NoncesApart
<1>5. swaps \cap allowed = {}
  BY DEF NoncesApart
<1>6. /\ swaps = {<<WalletOf[e.session], e.nonce>> : e \in signedSwaps}
      /\ allowed = {<<WalletOf[x.approval.session], x.nonce>> : x \in signedApprovals}
  BY DEF SwapKey, ApprovalKey
<1> HIDE DEF swaps, allowed
<1> QED
  BY <1>3, <1>4, <1>5, <1>6 DEF NonceSignedOnce

-----------------------------------------------------------------------------
(* The theorems.                                                              *)

PreauthSound == PreauthTyped /\ OneWalletOneToken /\ AdmittedBundled /\ SentOnce /\ NoncesApart

LEMMA InitPreauth == PreauthInit => PreauthSound
<1> SUFFICES ASSUME PreauthInit
             PROVE PreauthSound
  OBVIOUS
<1>1. PreauthTyped
  BY DEF PreauthInit, PreauthTyped, JobsTyped, Callers
<1>2. OneWalletOneToken /\ AdmittedBundled
  BY DEF PreauthInit, OneWalletOneToken, AdmittedBundled, Authorized
<1>3. SentOnce
  BY DEF PreauthInit, SentOnce, Submits, Idle, Callers
<1>4. NoncesApart
  BY FS_EmptySet DEF PreauthInit, NoncesApart
<1> QED
  BY <1>1, <1>2, <1>3, <1>4 DEF PreauthSound

LEMMA StepPreauth ==
    ASSUME PreauthSound, [PreauthNext]_preauthVars
    PROVE PreauthSound'
BY StepTyped, StepOneWallet, StepAdmitted, StepSent, StepNonces DEF PreauthSound

LEMMA AlwaysPreauth == PreauthSpec => []PreauthSound
BY InitPreauth, StepPreauth, PTL DEF PreauthSpec

\* submit_ink_v0f_signed_approval: an action's approval goes through the transport
\* once at most, for any number of callers, submissions, deaths and approvals of
\* other sessions.
THEOREM LeavesOnceCorrect == PreauthSpec => []ApprovalLeavesOnce
<1>1. PreauthSound => ApprovalLeavesOnce
  BY DEF PreauthSound, SentOnce, ApprovalLeavesOnce
<1> QED
  BY <1>1, AlwaysPreauth, PTL

\* _ensure_account_nonce_free: no two signed transactions of a wallet, swaps and
\* approvals of any actions and sessions together, carry one nonce.
THEOREM NonceCorrect == PreauthSpec => []NonceSignedOnce
<1>1. PreauthSound => NonceSignedOnce
  BY ApartCounts DEF PreauthSound
<1> QED
  BY <1>1, AlwaysPreauth, PTL

\* record_ink_v0f_preauth_bundle: an allowance is signed only beside the authorized
\* envelope of the swap that spends it.
THEOREM SwapCorrect == PreauthSpec => []ApprovalHasItsSwap
<1>1. PreauthSound => ApprovalHasItsSwap
  BY DEF PreauthSound, AdmittedBundled, Admissible, Bundled, ApprovalHasItsSwap, Authorized
<1> QED
  BY <1>1, AlwaysPreauth, PTL

\* The kill switch (record_kill_switch_state): once it is engaged no step authorises,
\* signs or guards anything, whatever calls were under way.
THEOREM KillCorrect == PreauthSpec => KillStopsAuthority
<1>1. ASSUME [PreauthNext]_preauthVars, killed
      PROVE UNCHANGED authorityVars
  <2>1. ~Recording /\ ~(\E w \in Planners : Persisting(w)) /\ ~Admitting
    BY <1>1 DEF Recording, RecordExecutionEnvelope, RecordApprovalAction, Persisting, PersistBundle,
                PersistNativeBuy, PersistNativeSell, StillPermitted, Admitting, AdmitSwap, AdmitApproval
  <2>2. CASE Submitting
    BY <1>1, <2>2 DEF Submitting, GuardApproval, TransportApproval
  <2> QED
    BY <1>1, <2>1, <2>2, StepKinds
<1>2. [PreauthNext]_preauthVars => [killed => UNCHANGED authorityVars]_preauthVars
  BY <1>1
<1> QED
  BY <1>2, PTL DEF PreauthSpec, KillStopsAuthority

=============================================================================
