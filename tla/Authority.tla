------------------------------ MODULE Authority ------------------------------
(***************************************************************************)
(* Who may do what: the capability ladder of execution_contract.py, grants *)
(* of an external root (authority_root.py), the sessions bound to them,    *)
(* the high-water mark of accepted grants and the kill switch              *)
(* (ledger/execution.py).                                                  *)
(*                                                                         *)
(* A grant stands for a signed receipt: its signature, fingerprint and     *)
(* algorithm are those of its root.  The clock is a variable, because what *)
(* a grant permits depends on it; callers read it once and go on using     *)
(* what they read, so every operator takes the time its caller has.        *)
(***************************************************************************)
EXTENDS Integers

CONSTANTS
    Grants,             \* receipts: the external root's signed statements
    GrantInfo,          \* [Grants -> GrantRecord]
    Sessions,           \* execution session identities
    SessionInfo,        \* [Sessions -> SessionRecord]
    TrustedRoot,        \* the externally pinned root: [id, minimumEpoch]
    InkScope,           \* the one network, taker and venue Level 2+ may run in
    MaxTime             \* bound on the clock

VARIABLES
    now,                \* the clock
    killed,             \* a KILL_SWITCH row exists in operator_control_events
    accepted,           \* the authority_root_state row: grant and time accepted
    sessions            \* authority_level of each execution_sessions row, or -1

authorityVars == <<now, killed, accepted, sessions>>

GrantRecord ==
    [root: STRING, epoch: Nat \ {0}, body: STRING, level: 0..4, scope: STRING,
     notBefore: Nat, notAfter: Nat, issued: Nat, maxReservation: Nat \ {0},
     maxCumulative: Nat \ {0}]

\* body: the authority policy the session was constructed with.
SessionRecord == [body: STRING, scope: STRING]

ASSUME GrantAssumption == GrantInfo \in [Grants -> GrantRecord]
ASSUME SessionAssumption == SessionInfo \in [Sessions -> SessionRecord]
ASSUME RootAssumption == TrustedRoot \in [id: STRING, minimumEpoch: Nat \ {0}]
ASSUME TimeAssumption == MaxTime \in Nat /\ InkScope \in STRING
ASSUME NoGrantAssumption == "none" \notin Grants

-----------------------------------------------------------------------------
(* The ladder of capabilities. *)

L0 == {"OBSERVE_MARKET", "DECIDE_OFFLINE"}
L1 == L0 \cup {"OBSERVE_CHAIN", "RECONCILE", "ACCOUNT_QUARANTINE", "RESERVE_CAPITAL"}
L2 == L1 \cup {"SUBMIT_EXACT_BYTES"}
L3 == L2 \cup {"CONSTRUCT_ENVELOPE", "AUTHORIZE_APPROVAL"}
L4 == L3 \cup {"PRODUCE_SIGNATURE"}

LADDER == [level \in 0..4 |->
    CASE level = 0 -> L0 [] level = 1 -> L1 [] level = 2 -> L2 [] level = 3 -> L3 [] OTHER -> L4]

\* What stays possible under the kill switch: nothing that has a new effect.
KILL_SWITCH_PRESERVED_CAPABILITIES ==
    {"OBSERVE_MARKET", "DECIDE_OFFLINE", "OBSERVE_CHAIN", "RECONCILE", "ACCOUNT_QUARANTINE"}

RECONCILE_ONLY == 1
PHASE_GRANTED_AUTHORITY_LEVEL == 3

-----------------------------------------------------------------------------
(* Grants. *)

\* Signed by the pinned root, in an epoch the operator still accepts.
Authentic(g) ==
    /\ GrantInfo[g].root = TrustedRoot.id
    /\ GrantInfo[g].epoch >= TrustedRoot.minimumEpoch

Current(g, t) == GrantInfo[g].notBefore <= t /\ t < GrantInfo[g].notAfter

\* The session was constructed for this grant's policy, in exactly its scope.
BoundTo(s, g) ==
    /\ SessionInfo[s].body = GrantInfo[g].body
    /\ SessionInfo[s].scope = GrantInfo[g].scope

\* verify_authority_grant
Verifies(g, s, t) == Authentic(g) /\ BoundTo(s, g) /\ Current(g, t)

Lesser(m, n) == IF m <= n THEN m ELSE n

\* The source's own ceiling and the grant's, whichever is lower, and above
\* reconciliation only in the one scope the source has been reviewed for.
EffectiveLevel(s, g) ==
    LET level == Lesser(PHASE_GRANTED_AUTHORITY_LEVEL, GrantInfo[g].level)
    IN IF level > RECONCILE_ONLY /\ SessionInfo[s].scope # InkScope THEN RECONCILE_ONLY ELSE level

EffectiveCapabilities(s, g) ==
    IF killed
    THEN LADDER[EffectiveLevel(s, g)] \cap KILL_SWITCH_PRESERVED_CAPABILITIES
    ELSE LADDER[EffectiveLevel(s, g)]

RequireEffectiveCapability(capability, s, g, t) ==
    /\ Current(g, t)
    /\ BoundTo(s, g)
    /\ capability \in EffectiveCapabilities(s, g)

\* _authorize: a session already on record must have the level it has now.
Authorize(capability, s, g, t) ==
    /\ RequireEffectiveCapability(capability, s, g, t)
    /\ sessions[s] \in {-1, EffectiveLevel(s, g)}

-----------------------------------------------------------------------------
(* What the runtime writes down. *)

NothingAccepted == [grant |-> "none", at |-> 0]

\* A grant may succeed the accepted one in a later epoch, or in Ink's epoch 6 if
\* it was issued, and is accepted, after the acceptance it succeeds.
Succeeds(g, t) ==
    LET last == accepted.grant
    IN /\ last # "none"
       /\ \/ GrantInfo[g].epoch > GrantInfo[last].epoch
          \/ /\ GrantInfo[g].epoch = GrantInfo[last].epoch
             /\ GrantInfo[g].epoch = 6 /\ GrantInfo[g].scope = InkScope
             /\ GrantInfo[g].issued > accepted.at
             /\ t > accepted.at

\* The trigger authority_root_state_no_rollback on the acceptance time.
NoTimeRollback(t) == t >= accepted.at

\* The mutant takes any grant of an epoch no lower.
Acceptable_AnySameEpoch(g, t) ==
    \/ accepted.grant = "none"
    \/ g = accepted.grant
    \/ accepted.grant # "none" /\ GrantInfo[g].epoch >= GrantInfo[accepted.grant].epoch

Acceptable(g, t) ==
    \/ accepted.grant = "none"
    \/ g = accepted.grant
    \/ Succeeds(g, t) /\ NoTimeRollback(t)

\* record_verified_authority: the grant already on record is left as it is.
RecordVerifiedAuthority(g, t) ==
    /\ Current(g, t)
    /\ Acceptable(g, t)
    /\ accepted' = IF g = accepted.grant THEN accepted ELSE [grant |-> g, at |-> t]
    /\ UNCHANGED <<now, killed, sessions>>

\* create_execution_session: authorised for DECIDE_OFFLINE, which the kill switch
\* preserves; the switch stops it in the transaction.
CreateExecutionSession(s, g, t) ==
    /\ Authorize("DECIDE_OFFLINE", s, g, t)
    /\ ~killed
    /\ sessions' = [sessions EXCEPT ![s] = EffectiveLevel(s, g)]
    /\ UNCHANGED <<now, killed, accepted>>

\* engage_kill_switch: there is no way to disengage it.
EngageKillSwitch ==
    /\ ~killed
    /\ killed' = TRUE
    /\ UNCHANGED <<now, accepted, sessions>>

Tick ==
    /\ now < MaxTime
    /\ now' = now + 1
    /\ UNCHANGED <<killed, accepted, sessions>>

AuthorityInit ==
    /\ now = 0
    /\ killed = FALSE
    /\ accepted = NothingAccepted
    /\ sessions = [s \in Sessions |-> -1]
=============================================================================
