---------------------------- MODULE ReplayProofs ----------------------------
(***************************************************************************)
(* Proofs about LedgerReplay and ExecutionReplay: that a log, replayed on  *)
(* an empty database, rebuilds the tables it was written beside.           *)
(***************************************************************************)
EXTENDS ExecutionReplay, ExecutionProofs

-----------------------------------------------------------------------------
(* Replaying a sequence of events is replaying its front and then its last.   *)

\* One event: refused, or applied as the n-th of its call.
One(db, e, n) == IF db.ok /\ Accepted(db, e) THEN Applied(db, e, n) ELSE Diverged

\* g is what has been rebuilt after each of the first k events.
Replays(db, events, k, g) ==
    g = [n \in 0..k |-> IF n = 0 THEN db ELSE One(g[n - 1], events[n], n)]

\* Sequences that begin with the same k events.
SameUpTo(s, t, k) == \A n \in 1..k : s[n] = t[n]

LEMMA ReplayIsSolution ==
    ASSUME NEW db, NEW events
    PROVE ReplayInto(db, events) = (CHOOSE g : Replays(db, events, Len(events), g))[Len(events)]
BY DEF ReplayInto, Replays, One

\* What has been rebuilt is determined by the events so far.
LEMMA ReplaysAgree ==
    ASSUME NEW db, NEW s, NEW t, NEW k \in Nat, NEW m \in Nat, k <= m,
           SameUpTo(s, t, k),
           NEW g, Replays(db, s, k, g), NEW h, Replays(db, t, m, h)
    PROVE \A n \in 0..k : g[n] = h[n]
<1> DEFINE Wrong == {n \in 0..k : g[n] # h[n]}
<1> SUFFICES ASSUME Wrong # {}
             PROVE FALSE
  OBVIOUS
<1>1. Wrong \subseteq Nat
  OBVIOUS
<1>2. PICK n \in Wrong : \A i \in Wrong : ~(<<i, n>> \in OpToRel(<, Nat))
  <2> HIDE DEF Wrong
  <2> QED BY <1>1, NatLessThanWellFounded, WFMin
<1>3. CASE n = 0
  BY <1>3 DEF Replays
<1>4. CASE n # 0
  <2>1. n - 1 \in 0..k /\ n - 1 \in Nat /\ n - 1 < n /\ n \in 0..m /\ n \in 1..k
    BY <1>4
  <2>2. g[n - 1] = h[n - 1]
    <3>1. <<n - 1, n>> \in OpToRel(<, Nat)
      BY <1>1, <2>1 DEF OpToRel
    <3>2. n - 1 \notin Wrong
      BY <1>2, <3>1
    <3> QED
      BY <2>1, <3>2
  <2>3. g[n] = One(g[n - 1], s[n], n) /\ h[n] = One(h[n - 1], t[n], n)
    BY <1>4, <2>1 DEF Replays
  <2>4. s[n] = t[n]
    BY <2>1 DEF SameUpTo
  <2> QED
    BY <2>1, <2>2, <2>3, <2>4
<1> QED
  BY <1>3, <1>4

LEMMA ReplaysExtend ==
    ASSUME NEW db, NEW s, NEW k \in Nat, NEW g, Replays(db, s, k, g)
    PROVE Replays(db, s, k + 1,
                  [n \in 0..(k + 1) |-> IF n <= k THEN g[n] ELSE One(g[k], s[n], n)])
<1> DEFINE h == [n \in 0..(k + 1) |-> IF n <= k THEN g[n] ELSE One(g[k], s[n], n)]
           r == [n \in 0..(k + 1) |-> IF n = 0 THEN db ELSE One(h[n - 1], s[n], n)]
<1>1. ASSUME NEW n \in 0..(k + 1)
      PROVE h[n] = r[n]
  <2>1. CASE n = 0
    BY <2>1 DEF Replays
  <2>2. CASE n # 0 /\ n <= k
    <3>1. n \in 0..k /\ n - 1 \in 0..(k + 1) /\ n - 1 <= k
      BY <2>2
    <3>2. h[n - 1] = g[n - 1] /\ h[n] = g[n]
      BY <2>2, <3>1
    <3>3. g[n] = One(g[n - 1], s[n], n)
      BY <2>2, <3>1 DEF Replays
    <3> QED
      BY <2>2, <3>2, <3>3
  <2>3. CASE n = k + 1
    <3>1. ~(n <= k) /\ n # 0 /\ n - 1 = k /\ k \in 0..(k + 1) /\ k <= k
      BY <2>3
    <3>2. h[n] = One(g[k], s[n], n) /\ h[n - 1] = g[k]
      BY <3>1
    <3> QED
      BY <3>1, <3>2
  <2> QED
    BY <2>1, <2>2, <2>3
<1>2. h = r
  <2>1. h = [n \in 0..(k + 1) |-> h[n]] /\ r = [n \in 0..(k + 1) |-> r[n]]
    OBVIOUS
  <2> HIDE DEF h, r
  <2> QED
    BY <1>1, <2>1
<1> QED
  BY <1>2 DEF Replays

LEMMA ReplaysExists ==
    ASSUME NEW db, NEW s, NEW k \in Nat
    PROVE \E g : Replays(db, s, k, g)
<1> DEFINE Wrong == {n \in 0..k : ~\E g : Replays(db, s, n, g)}
<1> SUFFICES ASSUME Wrong # {}
             PROVE FALSE
  OBVIOUS
<1>1. Wrong \subseteq Nat
  OBVIOUS
<1>2. PICK n \in Wrong : \A i \in Wrong : ~(<<i, n>> \in OpToRel(<, Nat))
  <2> HIDE DEF Wrong
  <2> QED BY <1>1, NatLessThanWellFounded, WFMin
<1>3. CASE n = 0
  <2>1. Replays(db, s, 0, [i \in 0..0 |-> db])
    BY DEF Replays
  <2> QED
    BY <1>3, <2>1
<1>4. CASE n # 0
  <2>1. n - 1 \in 0..k /\ n - 1 \in Nat /\ n - 1 < n /\ (n - 1) + 1 = n
    BY <1>4
  <2>2. PICK g : Replays(db, s, n - 1, g)
    <3>1. <<n - 1, n>> \in OpToRel(<, Nat)
      BY <1>1, <2>1 DEF OpToRel
    <3>2. n - 1 \notin Wrong
      BY <1>2, <3>1
    <3> QED
      BY <2>1, <3>2
  <2>3. \E h : Replays(db, s, (n - 1) + 1, h)
    BY <2>1, <2>2, ReplaysExtend
  <2> QED
    BY <2>1, <2>3
<1> QED
  BY <1>3, <1>4

\* So replaying is the value of any such record of it.
LEMMA ReplayValue ==
    ASSUME NEW db, NEW s, NEW k \in Nat, Len(s) = k, NEW g, Replays(db, s, k, g)
    PROVE ReplayInto(db, s) = g[k]
<1>1. ASSUME NEW x, Replays(db, s, k, x)
      PROVE x[k] = g[k]
  <2>1. k <= k /\ k \in 0..k /\ SameUpTo(s, s, k)
    BY DEF SameUpTo
  <2>2. \A n \in 0..k : x[n] = g[n]
    BY <1>1, <2>1, ReplaysAgree
  <2> QED
    BY <2>1, <2>2
<1>2. Replays(db, s, k, CHOOSE x : Replays(db, s, k, x))
  OBVIOUS
<1>3. (CHOOSE x : Replays(db, s, k, x))[k] = g[k]
  BY <1>1, <1>2
<1> QED
  BY <1>3, ReplayIsSolution

\* What is rebuilt before the first event, and by each from what the one before it
\* left.
RebuiltBy(db, t, k, g) ==
    /\ g[0] = db
    /\ \A n \in 1..k : g[n] = One(g[n - 1], t[n], n)
    /\ ReplayInto(db, t) = g[k]

LEMMA ReplayRecord ==
    ASSUME NEW db, NEW t, NEW k \in Nat, Len(t) = k
    PROVE \E g : RebuiltBy(db, t, k, g)
<1>1. PICK g : Replays(db, t, k, g)
  BY ReplaysExists
<1>2. g[0] = db /\ \A n \in 1..k : g[n] = One(g[n - 1], t[n], n)
  <2>1. \A n \in 1..k : n \in 0..k /\ n # 0
    OBVIOUS
  <2> QED
    BY <1>1, <2>1 DEF Replays
<1>3. ReplayInto(db, t) = g[k]
  BY <1>1, ReplayValue
<1> QED
  BY <1>2, <1>3 DEF RebuiltBy

\* No event, one, and two.
LEMMA ReplayNone ==
    ASSUME NEW db
    PROVE ReplayInto(db, <<>>) = db
<1>0. PICK t : t = <<>>
  OBVIOUS
<1>1. PICK k \in Nat : k = 0 /\ t = <<>>
  BY <1>0
<1>2. Len(t) = k
  BY <1>1
<1> QED
  BY <1>1, <1>2, ReplayRecord DEF RebuiltBy

LEMMA ReplayOne ==
    ASSUME NEW db, NEW e
    PROVE ReplayInto(db, <<e>>) = One(db, e, 1)
<1>0. PICK t : t = <<e>>
  OBVIOUS
<1>1. PICK k \in Nat : k = 1 /\ t = <<e>>
  BY <1>0
<1>2. Len(t) = k /\ t[1] = e
  BY <1>1
<1>3. PICK g : RebuiltBy(db, t, k, g)
  BY <1>2, ReplayRecord
<1>4. g[1] = One(g[0], t[1], 1)
  BY <1>1, <1>3 DEF RebuiltBy
<1> QED
  BY <1>1, <1>2, <1>3, <1>4 DEF RebuiltBy

LEMMA ReplayTwo ==
    ASSUME NEW db, NEW t, NEW e, NEW f, Len(t) = 2, t[1] = e, t[2] = f
    PROVE ReplayInto(db, t) = One(One(db, e, 1), f, 2)
<1>1. PICK k \in Nat : k = 2
  OBVIOUS
<1>2. Len(t) = k
  BY <1>1
<1>3. PICK g : RebuiltBy(db, t, k, g)
  BY <1>2, ReplayRecord
<1>4. g[1] = One(g[0], t[1], 1) /\ g[2] = One(g[1], t[2], 2)
  BY <1>1, <1>3 DEF RebuiltBy
<1> QED
  BY <1>1, <1>3, <1>4 DEF RebuiltBy

-----------------------------------------------------------------------------
(* What each event is: what replay_into demands of it, and what it does.      *)

\* The tables as one record.
Tab(cy, ca, st, bo, re, rc, ma) ==
    [ok |-> TRUE, cycle |-> cy, carry |-> ca, state |-> st, bounds |-> bo,
     resv |-> re, receipts |-> rc, marks |-> ma]
Tables == Tab(cycle, carry, state, bounds, resv, receipts, marks)

\* The numbers beside a reservation whose status goes from one to another.
MarkOf(old, new, m, n) ==
    IF new = old THEN m
    ELSE IF new = "ACTIVE" /\ old = "NONE" THEN [reserved |-> n, settled |-> 0]
    ELSE [m EXCEPT !.settled = IF new = "ACTIVE" THEN 0 ELSE n]

\* One row of a column rewritten, and the state of an intent in the tables.
Put(column, a, v) == [column EXCEPT ![a] = v]
WithState(db, a, to) == [db EXCEPT !.state[a] = to]
OnActions(column) == column = [b \in Actions |-> column[b]]

MarksTyped == marks \in [Actions -> [reserved: Nat, settled: Nat]]

\* The calls and the replay number a reservation alike.
LEMMA MarkedMeans ==
    ASSUME NEW n, MarkedAt(n)
    PROVE marks' = [a \in Actions |-> MarkOf(resv[a], resv'[a], marks[a], n)]
<1> DEFINE M(a) == CASE resv'[a] = resv[a] -> marks[a]
          [] resv'[a] = "ACTIVE" /\ resv[a] = "NONE" -> [reserved |-> n, settled |-> 0]
          [] resv'[a] = "ACTIVE" /\ resv[a] \notin {"NONE", "ACTIVE"} -> [marks[a] EXCEPT !.settled = 0]
          [] OTHER -> [marks[a] EXCEPT !.settled = n]
<1>1. marks' = [a \in Actions |-> M(a)]
  BY DEF MarkedAt
<1>2. ASSUME NEW a
      PROVE M(a) = MarkOf(resv[a], resv'[a], marks[a], n)
  <2>1. CASE resv'[a] = resv[a]
    <3>1. M(a) = marks[a]
      <4>1. ~(resv'[a] = "ACTIVE" /\ resv[a] = "NONE")
        BY <2>1
      <4>2. ~(resv'[a] = "ACTIVE" /\ resv[a] \notin {"NONE", "ACTIVE"})
        BY <2>1
      <4> QED
        BY <2>1, <4>1, <4>2, Zenon
    <3> HIDE DEF M
    <3> QED
      BY <2>1, <3>1 DEF MarkOf
  <2>2. CASE resv'[a] = "ACTIVE" /\ resv[a] = "NONE"
    <3>1. M(a) = [reserved |-> n, settled |-> 0]
      <4>1. resv'[a] # resv[a] /\ ~(resv'[a] = "ACTIVE" /\ resv[a] \notin {"NONE", "ACTIVE"})
        BY <2>2
      <4> QED
        BY <2>2, <4>1, Zenon
    <3> HIDE DEF M
    <3> QED
      BY <2>2, <3>1 DEF MarkOf
  <2>3. CASE resv'[a] = "ACTIVE" /\ resv[a] \notin {"NONE", "ACTIVE"}
    <3>1. M(a) = [marks[a] EXCEPT !.settled = 0]
      <4>1. resv'[a] # resv[a] /\ ~(resv'[a] = "ACTIVE" /\ resv[a] = "NONE")
        BY <2>3
      <4> QED
        BY <2>3, <4>1, Zenon
    <3> HIDE DEF M
    <3> QED
      BY <2>3, <3>1 DEF MarkOf
  <2>4. CASE resv'[a] # resv[a] /\ resv'[a] # "ACTIVE"
    <3>1. M(a) = [marks[a] EXCEPT !.settled = n]
      BY <2>4, Zenon
    <3> HIDE DEF M
    <3> QED
      BY <2>4, <3>1 DEF MarkOf
  <2>5. resv'[a] = "ACTIVE" /\ resv[a] \in {"NONE", "ACTIVE"} =>
          resv'[a] = resv[a] \/ resv[a] = "NONE"
    OBVIOUS
  <2> HIDE DEF M
  <2> QED
    BY <2>1, <2>2, <2>3, <2>4, <2>5
<1> HIDE DEF M
<1> QED
  BY <1>1, <1>2

LEMMA OpenedEvent ==
    ASSUME NEW db, NEW e, NEW n, e.type = "CYCLE_OPENED"
    PROVE /\ Accepted(db, e) <=> /\ CycleInfo[e.cycle].policy \in admitted
                                 /\ db.cycle[e.cycle] = "NONE"
                                 /\ e.carry # NoCarry => CarryAccepted(db, e.cycle, e.carry)
          /\ Applied(db, e, n) = [db EXCEPT !.cycle[e.cycle] = "OPEN", !.carry[e.cycle] = e.carry]
BY Zenon DEF Accepted, Applied

LEMMA ClosedEvent ==
    ASSUME NEW db, NEW e, NEW n, e.type = "CYCLE_CLOSED"
    PROVE /\ Accepted(db, e) <=> db.cycle[e.cycle] = "OPEN"
          /\ Applied(db, e, n) = [db EXCEPT !.cycle[e.cycle] = e.status]
BY Zenon DEF Accepted, Applied

LEMMA CreatedEvent ==
    ASSUME NEW db, NEW e, NEW n, e.type = "INTENT_CREATED"
    PROVE /\ Accepted(db, e) <=> db.cycle[CycleOf(e.action)] # "NONE" /\ db.state[e.action] = "NONE"
          /\ Applied(db, e, n) =
                [db EXCEPT !.state[e.action] = "ARMED", !.bounds[e.action] = e.bounds]
BY Zenon DEF Accepted, Applied

LEMMA MovedEvent ==
    ASSUME NEW db, NEW e, NEW n, e.type = "INTENT_TRANSITION"
    PROVE /\ Accepted(db, e) <=>
                /\ db.state[e.action] = e.from
                /\ e.to \in TRANSITIONS[e.from]
                /\ e.to = "RESERVED" /\ ReplayedExposure(db, e.action) > 0 =>
                     db.resv[e.action] = "NONE"
                /\ e.to \in RELEASING_STATES /\ e.from \in EXTERNALLY_AMBIGUOUS_STATES =>
                     ExecutionSurface /\ recon'[e.action] = "REVERTED"
          /\ Applied(db, e, n) =
                WithState(WithReservation(db, e.action, ReplayedStatus(db, e), n), e.action, e.to)
BY Zenon DEF Accepted, Applied, WithState

LEMMA ReceivedEvent ==
    ASSUME NEW db, NEW e, NEW n, e.type = "FILL_RECEIPT_APPENDED"
    PROVE /\ Accepted(db, e) <=>
                db.state[e.row.action] # "NONE" /\ \A r \in db.receipts : r.ref # e.row.ref
          /\ Applied(db, e, n) = [db EXCEPT !.receipts = @ \cup {e.row}]
BY Zenon DEF Accepted, Applied

LEMMA ResumedEvent ==
    ASSUME NEW db, NEW e, NEW n, e.type = "EXACT_BYTES_RESUMED"
    PROVE /\ Accepted(db, e) <=> HaltedInReplay(db, e.action) /\ e.prior = db.resv[e.action]
          /\ Applied(db, e, n) =
                WithState(WithReservation(db, e.action,
                              IF db.resv[e.action] = "NONE" THEN "NONE" ELSE "ACTIVE", n),
                          e.action, "SIGNED")
BY Zenon DEF Accepted, Applied, WithState

LEMMA RecoveredEvent ==
    ASSUME NEW db, NEW e, NEW n, e.type = "CHAIN_TRUTH_RECOVERED"
    PROVE /\ Accepted(db, e) <=>
                /\ HaltedInReplay(db, e.action)
                /\ \/ /\ e.to = "RECONCILED" /\ e.verdict = "SETTLED"
                      /\ \E r \in db.receipts : r.action = e.action
                   \/ e.to = "REJECTED" /\ e.verdict = "REVERTED" /\ recon'[e.action] = "REVERTED"
          /\ Applied(db, e, n) =
                WithState(WithReservation(db, e.action,
                              IF db.resv[e.action] = "NONE" THEN "NONE"
                              ELSE IF e.to = "RECONCILED" THEN "ACTIVE" ELSE "RELEASED", n),
                          e.action, e.to)
BY Zenon DEF Accepted, Applied, WithState

\* A reservation rewritten, and the state of its intent.
LEMMA WithReservationTab ==
    ASSUME NEW cy, NEW ca, NEW st, NEW bo, NEW re, NEW rc, NEW ma,
           OnActions(re), OnActions(ma), NEW a \in Actions, NEW status, NEW n, NEW to,
           NEW db, db = Tab(cy, ca, st, bo, re, rc, ma)
    PROVE WithState(WithReservation(db, a, status, n), a, to) =
            Tab(cy, ca, Put(st, a, to), bo, Put(re, a, status), rc,
                Put(ma, a, MarkOf(re[a], status, ma[a], n)))
<1>0. PICK re2, ma2, mid, after :
         /\ re2 = [re EXCEPT ![a] = status]
         /\ ma2 = [ma EXCEPT ![a] = MarkOf(re[a], status, ma[a], n)]
         /\ mid = WithReservation(db, a, status, n)
         /\ after = WithState(mid, a, to)
  OBVIOUS
<1>1. db.resv = re /\ db.marks = ma
  BY DEF Tab
<1>2. mid = Tab(cy, ca, st, bo, re2, rc, ma2)
  <2>1. CASE status = re[a]
    <3>1. re2 = re
      BY <1>0, <2>1 DEF OnActions
    <3>2. ma2 = ma
      BY <1>0, <2>1 DEF MarkOf, OnActions
    <3>3. mid = db
      BY <1>0, <1>1, <2>1 DEF WithReservation
    <3> QED
      BY <3>1, <3>2, <3>3
  <2>2. CASE status # re[a]
    <3>1. ma2 = [ma EXCEPT ![a] = IF status = "ACTIVE" /\ re[a] = "NONE"
                                THEN [reserved |-> n, settled |-> 0]
                                ELSE [@ EXCEPT !.settled = IF status = "ACTIVE" THEN 0 ELSE n]]
      BY <1>0, <2>2 DEF MarkOf
    <3>2. mid = [db EXCEPT !.resv = re2, !.marks = ma2]
      BY <1>0, <1>1, <2>2, <3>1 DEF WithReservation
    <3> QED
      BY <3>2 DEF Tab
  <2> QED
    BY <2>1, <2>2
<1>3. after = [mid EXCEPT !.state[a] = to]
  BY <1>0 DEF WithState
<1>4. after = Tab(cy, ca, [st EXCEPT ![a] = to], bo, re2, rc, ma2)
  BY <1>2, <1>3 DEF Tab
<1> QED
  BY <1>0, <1>4 DEF Put

-----------------------------------------------------------------------------
(* The calls of the ledger, and the replay of what they append.              *)

\* What the replay relies on of the rows it is compared with.
RowsTyped ==
    /\ IntentsTyped /\ MarksTyped
    /\ bounds \in [Actions -> [maxInput: Nat, minOutput: Nat]]

\* The replay gives a moved intent's reservation the status transition() gives it.
LEMMA StatusMeans ==
    ASSUME RowsTyped, NEW a \in Actions, NEW to \in IntentState, ReservationEffect(a, to),
           NEW db, db.resv = resv, db.bounds = bounds,
           NEW e, e.action = a, e.to = to
    PROVE ReplayedStatus(db, e) = resv'[a]
<1> DEFINE held == db.resv[e.action] = "ACTIVE"
           takes == e.to = "RESERVED" /\ ReplayedExposure(db, e.action) > 0
<1>1. /\ ReplayedExposure(db, e.action) = Exposure(a) /\ Exposure(a) \in Nat
  BY ActionAssumption DEF ReplayedExposure, Exposure, RowsTyped, ActionRecord
<1>3. CASE takes
  <2>1. ReplayedStatus(db, e) = "ACTIVE"
    <3>1. e.to # "FILLED" /\ e.to \notin RELEASING_STATES /\ e.to # "SAFE_HALT"
      BY <1>3 DEF RELEASING_STATES
    <3> HIDE DEF held
    <3> QED
      BY <1>3, <3>1, Zenon DEF ReplayedStatus
  <2>2. resv'[a] = "ACTIVE"
    BY <1>1, <1>3 DEF ReservationEffect, Reserve, RELEASING_STATES, RowsTyped, IntentsTyped
  <2> QED
    BY <2>1, <2>2
<1>4. CASE ~takes
  <2>1. CASE to = "FILLED" /\ held
    <3>1. ReplayedStatus(db, e) = "COMMITTED"
      <4>1. e.to = "FILLED" /\ e.to \notin RELEASING_STATES /\ e.to # "SAFE_HALT" /\ e.to # "RESERVED"
        BY <2>1 DEF RELEASING_STATES
      <4> QED
        BY <2>1, <4>1, Zenon DEF ReplayedStatus
    <3>2. resv'[a] = "COMMITTED"
      BY <2>1 DEF ReservationEffect, SettleReservation, RELEASING_STATES, RowsTyped, IntentsTyped
    <3> QED
      BY <3>1, <3>2
  <2>2. CASE to \in RELEASING_STATES /\ held
    <3>1. ReplayedStatus(db, e) = "RELEASED"
      <4>1. e.to \in RELEASING_STATES /\ e.to # "FILLED" /\ e.to # "SAFE_HALT" /\ e.to # "RESERVED"
        BY <2>2 DEF RELEASING_STATES
      <4> QED
        BY <2>2, <4>1, Zenon DEF ReplayedStatus
    <3>2. resv'[a] = "RELEASED"
      BY <2>2 DEF ReservationEffect, SettleReservation, RELEASING_STATES, RowsTyped, IntentsTyped
    <3> QED
      BY <3>1, <3>2
  <2>3. CASE to = "SAFE_HALT" /\ held
    <3>1. ReplayedStatus(db, e) = "QUARANTINED"
      <4>1. e.to = "SAFE_HALT" /\ e.to \notin RELEASING_STATES /\ e.to # "FILLED" /\ e.to # "RESERVED"
        BY <2>3 DEF RELEASING_STATES
      <4> QED
        BY <2>3, <4>1, Zenon DEF ReplayedStatus
    <3>2. resv'[a] = "QUARANTINED"
      BY <2>3 DEF ReservationEffect, SettleReservation, RELEASING_STATES, RowsTyped, IntentsTyped
    <3> QED
      BY <3>1, <3>2
  <2>4. CASE ~(to = "FILLED" /\ held) /\ ~(to \in RELEASING_STATES /\ held) /\ ~(to = "SAFE_HALT" /\ held)
    <3>1. ReplayedStatus(db, e) = db.resv[e.action]
      <4>1. /\ ~(e.to = "FILLED" /\ held) /\ ~(e.to \in RELEASING_STATES /\ held)
            /\ ~(e.to = "SAFE_HALT" /\ held)
        BY <2>4
      <4> QED
        BY <1>4, <4>1, Zenon DEF ReplayedStatus
    <3>2. resv'[a] = resv[a]
      BY <1>1, <1>4, <2>4
         DEF ReservationEffect, SettleReservation, Reserve, RELEASING_STATES
    <3> QED
      BY <3>1, <3>2
  <2> QED
    BY <2>1, <2>2, <2>3, <2>4
<1> QED
  BY <1>3, <1>4

\* An intent moved along an edge of the lifecycle, replayed as the n-th event of the
\* call that moved it.
LEMMA EdgeReplayed ==
    ASSUME RowsTyped, NEW a \in Actions, NEW to \in IntentState, to \in TRANSITIONS[state[a]],
           to \in RELEASING_STATES /\ state[a] \in EXTERNALLY_AMBIGUOUS_STATES =>
             ExecutionSurface /\ recon'[a] = "REVERTED",
           ReservationEffect(a, to), state' = Put(state, a, to),
           NEW n, marks' = [b \in Actions |-> MarkOf(resv[b], resv'[b], marks[b], n)],
           NEW rc, NEW db, db = Tab(cycle, carry, state, bounds, resv, rc, marks)
    PROVE One(db, Moved(a, state[a], to), n) = Tab(cycle, carry, state', bounds, resv', rc, marks')
<1>0. PICK e : e = Moved(a, state[a], to)
  OBVIOUS
<1>1. e.type = "INTENT_TRANSITION" /\ e.action = a /\ e.from = state[a] /\ e.to = to
  BY <1>0 DEF Moved
<1>2. /\ db.ok /\ db.state = state /\ db.resv = resv /\ db.bounds = bounds
  BY DEF Tab
<1>4. Accepted(db, e)
  <2>1. to = "RESERVED" /\ ReplayedExposure(db, a) > 0 => resv[a] = "NONE"
    BY <1>2 DEF ReservationEffect, Reserve, ReplayedExposure, Exposure, RELEASING_STATES
  <2> QED
    BY <1>1, <1>2, <2>1, MovedEvent
<1>5. PICK status : status = ReplayedStatus(db, e)
  OBVIOUS
<1>6. status = resv'[a]
  BY <1>1, <1>2, <1>5, StatusMeans
<1>7. resv' = Put(resv, a, status)
  BY <1>6 DEF Put, ReservationEffect, Reserve, SettleReservation, RowsTyped, IntentsTyped
<1>8. marks' = Put(marks, a, MarkOf(resv[a], status, marks[a], n))
  BY <1>6, <1>7 DEF Put, MarkOf, RowsTyped, MarksTyped, IntentsTyped
<1>9. OnActions(resv) /\ OnActions(marks)
  BY DEF RowsTyped, IntentsTyped, MarksTyped, OnActions
<1>10. WithState(WithReservation(db, a, status, n), a, to) =
         Tab(cycle, carry, Put(state, a, to), bounds, Put(resv, a, status), rc,
             Put(marks, a, MarkOf(resv[a], status, marks[a], n)))
  BY <1>9, WithReservationTab
<1>11. Applied(db, e, n) = WithState(WithReservation(db, a, status, n), a, to)
  BY <1>1, <1>5, MovedEvent
<1> QED
  BY <1>0, <1>2, <1>4, <1>7, <1>8, <1>10, <1>11 DEF One
\* An ordinary transition, replayed as the n-th event of its call.
LEMMA MoveReplayed ==
    ASSUME RowsTyped, NEW a \in Actions, NEW to \in IntentState, MoveIntent(a, to), UNCHANGED recon,
           NEW n, marks' = [b \in Actions |-> MarkOf(resv[b], resv'[b], marks[b], n)],
           NEW rc, NEW db, db = Tab(cycle, carry, state, bounds, resv, rc, marks)
    PROVE One(db, Moved(a, state[a], to), n) = Tab(cycle, carry, state', bounds, resv', rc, marks')
<1>1. /\ to \in TRANSITIONS[state[a]]
      /\ to \in RELEASING_STATES /\ state[a] \in EXTERNALLY_AMBIGUOUS_STATES =>
           ExecutionSurface /\ recon'[a] = "REVERTED"
      /\ ReservationEffect(a, to) /\ state' = Put(state, a, to)
  BY DEF MoveIntent, TransitionAllowed, HasBoundReverted, Put
<1> QED
  BY <1>1, EdgeReplayed

\* A call that moves no reservation numbers none.
LEMMA MarksStay ==
    ASSUME MarksTyped, UNCHANGED resv, NEW n, MarkedAt(n)
    PROVE marks' = marks
<1>1. marks' = [a \in Actions |-> MarkOf(resv[a], resv'[a], marks[a], n)]
  BY MarkedMeans
<1>2. \A a \in Actions : MarkOf(resv[a], resv'[a], marks[a], n) = marks[a]
  BY DEF MarkOf
<1> QED
  BY <1>1, <1>2 DEF MarksTyped

\* Every call numbers the reservations it moves with natural numbers.
LEMMA MarksType ==
    ASSUME MarksTyped, NEW n \in Nat, MarkedAt(n)
    PROVE MarksTyped'
<1>1. marks' = [a \in Actions |-> MarkOf(resv[a], resv'[a], marks[a], n)]
  BY MarkedMeans
<1>2. \A a \in Actions : MarkOf(resv[a], resv'[a], marks[a], n) \in [reserved: Nat, settled: Nat]
  BY DEF MarkOf, MarksTyped
<1> QED
  BY <1>1, <1>2 DEF MarksTyped

LEMMA TypedRows ==
    ASSUME TypeOK, MarksTyped
    PROVE RowsTyped
BY DEF TypeOK, RowsTyped, IntentsTyped

\* open_cycle(), replayed.
LEMMA OpenReplayed ==
    ASSUME TypeOK, UnopenedUntouched, MarksTyped, NEW c \in Cycles, OpenCycle(c), MarkedAt(1)
    PROVE One(Tables, Opened(c, NoCarry), 1) = Tables'
<1>0. PICK e, db : e = Opened(c, NoCarry) /\ db = Tables
  OBVIOUS
<1>1. e.type = "CYCLE_OPENED" /\ e.cycle = c /\ e.carry = NoCarry
  BY <1>0 DEF Opened
<1>2. db.ok /\ db.cycle = cycle /\ db.carry = carry
  BY <1>0 DEF Tables, Tab
<1>3. Accepted(db, e)
  BY <1>1, <1>2, OpenedEvent DEF OpenCycle
<1>4. carry[c] = NoCarry /\ carry = [d \in Cycles |-> carry[d]]
  BY DEF OpenCycle, UnopenedUntouched, Untouched, TypeOK
<1>5. [carry EXCEPT ![c] = NoCarry] = carry
  BY <1>4
<1>6. PICK after : after = [db EXCEPT !.cycle[e.cycle] = "OPEN", !.carry[e.cycle] = e.carry]
  OBVIOUS
<1>7. after = Tab([cycle EXCEPT ![c] = "OPEN"], carry, state, bounds, resv, receipts, marks)
  BY <1>0, <1>1, <1>5, <1>6 DEF Tables, Tab
<1>8. marks' = marks
  BY MarksStay DEF OpenCycle
<1>9. Tables' = after
  BY <1>7, <1>8 DEF Tables, OpenCycle
<1>10. Applied(db, e, 1) = after
  BY <1>1, <1>6, OpenedEvent
<1> QED
  BY <1>0, <1>2, <1>3, <1>9, <1>10 DEF One

\* close_cycle(), and the closing half of a continuation.
LEMMA CloseReplayed ==
    ASSUME NEW c \in Cycles, NEW status, cycle[c] = "OPEN", NEW n
    PROVE One(Tables, Closed(c, status), n) =
            Tab([cycle EXCEPT ![c] = status], carry, state, bounds, resv, receipts, marks)
<1>0. PICK e, db : e = Closed(c, status) /\ db = Tables
  OBVIOUS
<1>1. e.type = "CYCLE_CLOSED" /\ e.cycle = c /\ e.status = status
  BY <1>0 DEF Closed
<1>2. db.ok /\ db.cycle = cycle
  BY <1>0 DEF Tables, Tab
<1>3. Accepted(db, e)
  BY <1>1, <1>2, ClosedEvent
<1>4. PICK after : after = [db EXCEPT !.cycle[e.cycle] = e.status]
  OBVIOUS
<1>5. after = Tab([cycle EXCEPT ![c] = status], carry, state, bounds, resv, receipts, marks)
  BY <1>0, <1>1, <1>4 DEF Tables, Tab
<1>6. Applied(db, e, n) = after
  BY <1>1, <1>4, ClosedEvent
<1> QED
  BY <1>0, <1>2, <1>3, <1>5, <1>6 DEF One

\* The inventory the replay finds in a cycle is what the ledger finds in it.
LEMMA InventoryReplayed ==
    ASSUME TypeOK, NEW c \in Cycles, NEW db, db.carry = carry, db.state = state,
           db.receipts = receipts
    PROVE ReplayedInventory(db, c) = Inventory(c)
<1> DEFINE carriedBy(d) == db.carry[d].amount
           S == {d \in Cycles : db.carry[d].from = c}
           Own(g) ==
             g = [s \in SUBSET S |-> IF s = {} THEN 0 ELSE carriedBy(Pick(s)) + g[s \ {Pick(s)}]]
<1>1. S = CarriedFrom(c)
  BY DEF CarriedFrom
<1>2. MapThenSumSet(carriedBy, S) = SumOf(CarryColumn, S)
  <2>1. \A s \in SUBSET S : s # {} => carriedBy(Pick(s)) = CarryColumn[Pick(s)]
    BY DEF CarryColumn, CarryAmount, Pick
  <2>2. \A g : Own(g) <=> Solves(CarryColumn, S, g)
    BY <2>1 DEF Solves
  <2>3. (CHOOSE g : Own(g)) = (CHOOSE g : Solves(CarryColumn, S, g))
    <3> HIDE DEF Own
    <3> QED BY <2>2
  <2>4. MapThenSumSet(carriedBy, S) = (CHOOSE g : Own(g))[S]
    BY DEF MapThenSumSet, MapThenFoldSet, Pick
  <2> QED
    BY <2>3, <2>4, SumIsSolution DEF Solution
<1>3. CarriedOut(c) = SumOf(CarryColumn, S)
  BY <1>1, CarriesSum DEF CarriesAreSums, CarriedOut, CarriedFrom
<1>4. /\ ReplayedFilled(db, c, "BUY") = {r \in receipts : r.action \in FilledIn(c, "BUY")}
      /\ ReplayedFilled(db, c, "SELL") = {r \in receipts : r.action \in FilledIn(c, "SELL")}
  BY DEF ReplayedFilled, FilledIn, TypeOK, ReceiptRow
<1>5. ReplayedInventory(db, c) = db.carry[c].amount
         + TotalOut(ReplayedFilled(db, c, "BUY")) - TotalIn(ReplayedFilled(db, c, "SELL"))
         - MapThenSumSet(carriedBy, S)
  BY DEF ReplayedInventory
<1> HIDE DEF S, carriedBy
<1> QED
  BY <1>2, <1>3, <1>4, <1>5 DEF Inventory, BaseAcquired, BaseDisposed, CarryAmount

\* continue_inventory_into_successor_cycle(): the closing, then the opening, which
\* the replay accepts of a completed source for just what the source holds.
LEMMA ContinueReplayed ==
    ASSUME TypeOK, MarksTyped, NEW c \in Cycles, NEW d \in Cycles,
           ContinueInventoryIntoSuccessorCycle(c, d), MarkedAt(1)
    PROVE One(One(Tables, Closed(c, "COMPLETED"), 1), Opened(d, carry'[d]), 2) = Tables'
<1>0. PICK e, k, db : /\ k = [from |-> c, amount |-> Inventory(c)]
                      /\ e = Opened(d, k)
                      /\ db = Tab([cycle EXCEPT ![c] = "COMPLETED"], carry, state, bounds, resv,
                                  receipts, marks)
  OBVIOUS
<1>1. /\ ContinueGuard(c, d)
      /\ cycle' = [cycle EXCEPT ![c] = "COMPLETED", ![d] = "OPEN"]
      /\ carry' = [carry EXCEPT ![d] = k]
      /\ UNCHANGED <<state, bounds, resv, receipts>>
  BY <1>0 DEF ContinueInventoryIntoSuccessorCycle
<1>2. carry'[d] = k
  BY <1>1 DEF TypeOK
<1>3. One(Tables, Closed(c, "COMPLETED"), 1) = db
  BY <1>0, <1>1, CloseReplayed DEF ContinueGuard
<1>4. e.type = "CYCLE_OPENED" /\ e.cycle = d /\ e.carry = k
  BY <1>0 DEF Opened
<1>5. /\ db.ok /\ db.cycle = [cycle EXCEPT ![c] = "COMPLETED"] /\ db.carry = carry
      /\ db.state = state /\ db.receipts = receipts
  BY <1>0 DEF Tab
<1>6. CarryAccepted(db, d, k)
  <2>1. k.from = c /\ k.amount = Inventory(c)
    BY <1>0
  <2>2. /\ c # d /\ Inventory(c) \in Nat \ {0} /\ SameAsset(CycleInfo[c].policy, CycleInfo[d].policy)
        /\ IntentsSettled(c) /\ CarriedFrom(c) = {}
    BY <1>1 DEF ContinueGuard
  <2>3. db.cycle[c] = "COMPLETED"
    BY <1>5 DEF TypeOK
  <2>4. \A x \in Cycles : db.carry[x].from # c
    BY <1>5, <2>2 DEF CarriedFrom
  <2>5. ReplayedInventory(db, c) = Inventory(c)
    BY <1>5, InventoryReplayed
  <2> QED
    BY <1>5, <2>1, <2>2, <2>3, <2>4, <2>5 DEF CarryAccepted, IntentsSettled
<1>7. Accepted(db, e)
  <2>1. CycleInfo[d].policy \in admitted /\ db.cycle[d] = "NONE"
    BY <1>1, <1>5 DEF ContinueGuard, TypeOK
  <2>2. CycleInfo[e.cycle].policy \in admitted /\ db.cycle[e.cycle] = "NONE"
    BY <1>4, <2>1
  <2>3. CarryAccepted(db, e.cycle, e.carry)
    BY <1>4, <1>6
  <2> QED
    BY <1>4, <2>2, <2>3, OpenedEvent
<1>8. PICK after : after = [db EXCEPT !.cycle[e.cycle] = "OPEN", !.carry[e.cycle] = e.carry]
  OBVIOUS
<1>9. after = Tab(cycle', carry', state, bounds, resv, receipts, marks)
  <2>1. cycle' = [[cycle EXCEPT ![c] = "COMPLETED"] EXCEPT ![d] = "OPEN"]
    BY <1>1
  <2> QED
    BY <1>0, <1>1, <1>4, <1>8, <2>1 DEF Tab
<1>10. marks' = marks
  BY <1>1, MarksStay
<1>11. Tables' = after
  BY <1>1, <1>9, <1>10 DEF Tables
<1>12. Applied(db, e, 2) = after
  BY <1>4, <1>8, OpenedEvent
<1>13. One(db, e, 2) = after
  BY <1>5, <1>7, <1>12 DEF One
<1> QED
  BY <1>0, <1>2, <1>3, <1>11, <1>13

\* create_intent(), replayed.
LEMMA CreateReplayed ==
    ASSUME TypeOK, MarksTyped, NEW a \in Actions, CreateIntent(a), MarkedAt(1)
    PROVE One(Tables, Created(a), 1) = Tables'
<1>0. PICK e, db : e = Created(a) /\ db = Tables
  OBVIOUS
<1>1. e.type = "INTENT_CREATED" /\ e.action = a /\ e.bounds = bounds'[a]
  BY <1>0 DEF Created
<1>2. db.ok /\ db.cycle = cycle /\ db.state = state
  BY <1>0 DEF Tables, Tab
<1>3. Accepted(db, e)
  BY <1>1, <1>2, CreatedEvent DEF CreateIntent
<1>4. bounds' = [bounds EXCEPT ![a] = bounds'[a]]
  BY DEF CreateIntent, TypeOK
<1>5. PICK b : b = bounds'[a]
  OBVIOUS
<1>6. PICK after : after = [db EXCEPT !.state[e.action] = "ARMED", !.bounds[e.action] = e.bounds]
  OBVIOUS
<1>7. after = Tab(cycle, carry, [state EXCEPT ![a] = "ARMED"], [bounds EXCEPT ![a] = b],
                  resv, receipts, marks)
  BY <1>0, <1>1, <1>5, <1>6 DEF Tables, Tab
<1>8. marks' = marks
  BY MarksStay DEF CreateIntent
<1>9. Tables' = after
  BY <1>4, <1>5, <1>7, <1>8 DEF Tables, CreateIntent
<1>10. Applied(db, e, 1) = after
  <2>1. e.type = "INTENT_CREATED"
    BY <1>1
  <2> QED
    BY <1>6, <2>1, CreatedEvent
<1> QED
  BY <1>0, <1>2, <1>3, <1>9, <1>10 DEF One
\* Two events, one appended to the other.
LEMMA PairOfEvents ==
    ASSUME NEW e, NEW f
    PROVE LET t == <<e>> \o <<f>> IN Len(t) = 2 /\ t[1] = e /\ t[2] = f
<1>1. <<e>> \in Seq({e, f}) /\ <<f>> \in Seq({e, f})
  OBVIOUS
<1> QED
  BY <1>1

\* A receipt whose reference is none of the receipts'.
Receipt(row) ==
    /\ state[row.action] # "NONE"
    /\ \A r \in receipts : r.ref # row.ref
    /\ receipts' = receipts \cup {row}

\* A receipt, replayed.
LEMMA ReceivedReplayed ==
    ASSUME NEW row, Receipt(row), NEW n
    PROVE One(Tables, Received(row), n) =
            Tab(cycle, carry, state, bounds, resv, receipts', marks)
<1>0. PICK e, db : e = Received(row) /\ db = Tables
  OBVIOUS
<1>1. e.type = "FILL_RECEIPT_APPENDED" /\ e.row = row
  BY <1>0 DEF Received
<1>2. db.ok /\ db.state = state /\ db.receipts = receipts
  BY <1>0 DEF Tables, Tab
<1>3. Accepted(db, e)
  BY <1>1, <1>2, ReceivedEvent DEF Receipt
<1>4. PICK after : after = [db EXCEPT !.receipts = @ \cup {e.row}]
  OBVIOUS
<1>5. after = Tab(cycle, carry, state, bounds, resv, receipts', marks)
  BY <1>0, <1>1, <1>4 DEF Tables, Tab, Receipt
<1>6. Applied(db, e, n) = after
  BY <1>1, <1>4, ReceivedEvent
<1> QED
  BY <1>0, <1>2, <1>3, <1>5, <1>6 DEF One

\* A receipt out of bounds moves its intent as a transition to SAFE_HALT would.
LEMMA ReceiptHalts ==
    ASSUME TypeOK, NEW row \in ReceiptRow, InsertReceipt(row)
    PROVE \/ UNCHANGED <<state, resv>>
          \/ MoveIntent(row.action, "SAFE_HALT") /\ state'[row.action] # state[row.action]
<1>1. row.action \in Actions /\ state[row.action] \in RECEIPT_STATES
  BY DEF InsertReceipt, ReceiptRow
<1>2. CASE ~UNCHANGED <<state, resv>>
  <2>1. /\ state[row.action] # "SAFE_HALT"
        /\ SettleReservation(row.action, "QUARANTINED")
        /\ state' = [state EXCEPT ![row.action] = "SAFE_HALT"]
    BY <1>2 DEF InsertReceipt, ReceiptStateEffect
  <2>2. /\ state[row.action] # "NONE"
        /\ "SAFE_HALT" \in TRANSITIONS[state[row.action]]
    BY <1>1, <2>1 DEF RECEIPT_STATES, TRANSITIONS, Abandoned
  <2>3. TransitionAllowed(row.action, "SAFE_HALT")
    BY <2>2 DEF TransitionAllowed, RELEASING_STATES
  <2>4. ReservationEffect(row.action, "SAFE_HALT")
    BY <2>1 DEF ReservationEffect
  <2> QED
    BY <1>1, <2>1, <2>3, <2>4 DEF MoveIntent, TypeOK
<1> QED
  BY <1>2

\* append_fill_receipt(), replayed: the receipt, and the halt it may cause.
LEMMA ReceiptReplayed ==
    ASSUME TypeOK, MarksTyped, NEW row \in ReceiptRow, AppendFillReceipt(row), MarkedAt(2)
    PROVE ReplayInto(Tables, ReceiptEvents(row)) = Tables'
<1>0. PICK a, e, f, db : /\ a = row.action /\ e = Received(row)
                         /\ f = Moved(a, state[a], "SAFE_HALT")
                         /\ db = Tab(cycle, carry, state, bounds, resv, receipts', marks)
  OBVIOUS
<1>1. /\ InsertReceipt(row) /\ a \in Actions
      /\ UNCHANGED <<cycle, carry, bounds, recon>>
  BY <1>0 DEF AppendFillReceipt, ReceiptRow
<1>2. One(Tables, e, 1) = db
  <2>1. Receipt(row)
    BY <1>1 DEF InsertReceipt, Receipt, RECEIPT_STATES
  <2> QED
    BY <1>0, <2>1, ReceivedReplayed
<1>3. Tables' = Tab(cycle, carry, state', bounds, resv', receipts', marks')
  BY <1>1 DEF Tables
<1>4. CASE UNCHANGED <<state, resv>>
  <2>1. ReceiptEvents(row) = <<e>>
    BY <1>0, <1>4 DEF ReceiptEvents
  <2>2. marks' = marks
    BY <1>4, MarksStay
  <2> QED
    BY <1>0, <1>2, <1>3, <1>4, <2>1, <2>2, ReplayOne
<1>5. CASE MoveIntent(a, "SAFE_HALT") /\ state'[a] # state[a]
  <2>1. PICK t : t = ReceiptEvents(row) /\ Len(t) = 2 /\ t[1] = e /\ t[2] = f
    <3>1. PICK t : t = ReceiptEvents(row)
      OBVIOUS
    <3>2. t = <<e>> \o <<f>>
      BY <1>0, <1>5, <3>1 DEF ReceiptEvents
    <3>3. Len(t) = 2 /\ t[1] = e /\ t[2] = f
      BY <3>2, PairOfEvents
    <3> QED
      BY <3>1, <3>3
  <2>2. marks' = [b \in Actions |-> MarkOf(resv[b], resv'[b], marks[b], 2)]
    BY MarkedMeans
  <2>3. "SAFE_HALT" \in IntentState /\ RowsTyped
    BY TypedRows DEF IntentState
  <2>4. One(db, f, 2) = Tab(cycle, carry, state', bounds, resv', receipts', marks')
    BY <1>0, <1>1, <1>5, <2>2, <2>3, MoveReplayed
  <2> QED
    BY <1>2, <1>3, <2>1, <2>4, ReplayTwo
<1> QED
  BY <1>0, <1>1, <1>4, <1>5, ReceiptHalts

\* transition(), replayed.
LEMMA TransitionReplayed ==
    ASSUME TypeOK, MarksTyped, NEW a \in Actions, NEW to \in IntentState, Transition(a, to),
           MarkedAt(1)
    PROVE One(Tables, Moved(a, state[a], to), 1) = Tables'
<1>1. MoveIntent(a, to) /\ UNCHANGED <<cycle, carry, bounds, receipts, recon>>
  BY DEF Transition
<1>2. PICK db, rc, n : db = Tables /\ rc = receipts /\ n = 1
  OBVIOUS
<1>3. marks' = [b \in Actions |-> MarkOf(resv[b], resv'[b], marks[b], n)]
  BY <1>2, MarkedMeans
<1>4. db = Tab(cycle, carry, state, bounds, resv, rc, marks)
  BY <1>2 DEF Tables
<1>5. One(db, Moved(a, state[a], to), n) = Tab(cycle, carry, state', bounds, resv', rc, marks')
  BY <1>1, <1>3, <1>4, TypedRows, MoveReplayed
<1> QED
  BY <1>1, <1>2, <1>5 DEF Tables

-----------------------------------------------------------------------------
(* The replay of the ledger on its own.  The equality is inductive with the  *)
(* types of the tables, of the numbers beside the reservations, and with a   *)
(* cycle never opened being untouched: opening it writes no carry.           *)

ReplaySound ==
    /\ TypeOK /\ UnopenedUntouched
    /\ MarksTyped
    /\ rebuilt = Tables

LEMMA ReplayStepSound ==
    ASSUME ReplaySound, [ReplayNext]_<<ledgerVars, replayVars>>
    PROVE ReplaySound'
<1>0. TypeOK /\ UnopenedUntouched /\ MarksTyped /\ rebuilt = Tables
  BY DEF ReplaySound
<1>1. [LedgerNext]_ledgerVars
  BY DEF ReplayNext, LedgerNext
<1>2. TypeOK' /\ UnopenedUntouched'
  BY <1>0, <1>1, StepTypeOK, StepUntouched
<1> SUFFICES MarksTyped' /\ rebuilt' = Tables'
  BY <1>2 DEF ReplaySound
<1>3. ASSUME LogNothing, UNCHANGED <<cycle, carry, state, bounds, resv, receipts>>
      PROVE MarksTyped' /\ rebuilt' = Tables'
  BY <1>0, <1>3 DEF LogNothing, replayVars, MarksTyped, Tables
<1>4. ASSUME NEW events, Appends(events), ReplayInto(Tables, events) = Tables'
      PROVE MarksTyped' /\ rebuilt' = Tables'
  BY <1>0, <1>4, MarksType DEF Appends
<1>5. CASE \E p \in Policies : AdmitPolicy(p) /\ LogNothing
  BY <1>3, <1>5 DEF AdmitPolicy
<1>6. CASE \E c \in Cycles : OpenCycle(c) /\ LogOpen(c)
  <2>1. PICK c \in Cycles : OpenCycle(c) /\ Appends(<<Opened(c, NoCarry)>>)
    BY <1>6 DEF LogOpen
  <2> QED
    BY <1>0, <1>4, <2>1, OpenReplayed, ReplayOne DEF Appends
<1>7. CASE \E c \in Cycles : ReadInventory(c) /\ LogNothing
  BY <1>3, <1>7 DEF ReadInventory
<1>8. CASE \E c \in Cycles, status \in CycleStatus : CloseCycle(c, status) /\ LogClose(c, status)
  <2>1. PICK c \in Cycles, status \in CycleStatus :
           CloseCycle(c, status) /\ Appends(<<Closed(c, status)>>)
    BY <1>8 DEF LogClose
  <2>2. One(Tables, Closed(c, status), 1) =
           Tab([cycle EXCEPT ![c] = status], carry, state, bounds, resv, receipts, marks)
    BY <2>1, CloseReplayed DEF CloseCycle
  <2>3. marks' = marks
    BY <1>0, <2>1, MarksStay DEF Appends, CloseCycle
  <2>4. Tables' = One(Tables, Closed(c, status), 1)
    BY <2>1, <2>2, <2>3 DEF Tables, CloseCycle
  <2> QED
    BY <1>4, <2>1, <2>4, ReplayOne
<1>9. CASE \E c, d \in Cycles : ContinueInventoryIntoSuccessorCycle(c, d) /\ LogContinue(c, d)
  <2>1. PICK c \in Cycles, d \in Cycles :
           /\ ContinueInventoryIntoSuccessorCycle(c, d)
           /\ Appends(<<Closed(c, "COMPLETED"), Opened(d, carry'[d])>>)
    BY <1>9 DEF LogContinue
  <2> QED
    <3>1. PICK t, e, f : /\ t = <<Closed(c, "COMPLETED"), Opened(d, carry'[d])>>
                         /\ e = Closed(c, "COMPLETED") /\ f = Opened(d, carry'[d])
      OBVIOUS
    <3>2. Len(t) = 2 /\ t[1] = e /\ t[2] = f
      BY <3>1
    <3>3. ReplayInto(Tables, t) = Tables'
      BY <1>0, <2>1, <3>1, <3>2, ContinueReplayed, ReplayTwo DEF Appends
    <3> QED
      BY <1>4, <2>1, <3>1, <3>3
<1>10. CASE \E a \in Actions : CreateIntent(a) /\ LogCreate(a)
  <2>1. PICK a \in Actions : CreateIntent(a) /\ Appends(<<Created(a)>>)
    BY <1>10 DEF LogCreate
  <2> QED
    BY <1>0, <1>4, <2>1, CreateReplayed, ReplayOne DEF Appends
<1>11. CASE \E a \in Actions, to \in IntentState : Transition(a, to) /\ LogTransition(a, to)
  <2>1. PICK a \in Actions, to \in IntentState :
           Transition(a, to) /\ Appends(<<Moved(a, state[a], to)>>)
    BY <1>11 DEF LogTransition
  <2> QED
    BY <1>0, <1>4, <2>1, TransitionReplayed, ReplayOne DEF Appends
<1>12. CASE \E row \in ReceiptRow : AppendFillReceipt(row) /\ LogReceipt(row)
  <2>1. PICK row \in ReceiptRow : AppendFillReceipt(row) /\ LogReceipt(row)
    BY <1>12
  <2>2. rebuilt' = Tables'
    BY <1>0, <2>1, ReceiptReplayed DEF LogReceipt
  <2> QED
    BY <1>0, <2>1, <2>2, MarksType DEF LogReceipt
<1>13. CASE UNCHANGED <<ledgerVars, replayVars>>
  BY <1>3, <1>13 DEF ledgerVars, LogNothing
<1> QED
  BY <1>5, <1>6, <1>7, <1>8, <1>9, <1>10, <1>11, <1>12, <1>13 DEF ReplayNext, ReplaySound

\* assert_replay_equivalence() never fails on a database the ledger wrote: the log
\* of its calls, replayed on an empty one, is refused nowhere and rebuilds every
\* table, down to the sequence numbers beside the reservations (replay.py).
THEOREM ReplayCorrect == ReplaySpec => []ReplayEqualsTables
<1>1. ReplayInit => ReplaySound
  <2> SUFFICES ASSUME ReplayInit
               PROVE ReplaySound
    OBVIOUS
  <2>1. TypeOK
    BY InitTypeOK DEF ReplayInit
  <2>2. UnopenedUntouched
    BY CycleAssumption
       DEF ReplayInit, LedgerInit, UnopenedUntouched, Untouched, CarriedFrom, NoCarry
  <2>3. MarksTyped
    BY DEF ReplayInit, LogInit, MarksTyped, NoMarks
  <2>4. rebuilt = Tables
    BY DEF ReplayInit, LogInit, LedgerInit, EmptyLedger, Tables, Tab
  <2> QED
    BY <2>1, <2>2, <2>3, <2>4 DEF ReplaySound
<1>2. ReplaySound /\ [ReplayNext]_<<ledgerVars, replayVars>> => ReplaySound'
  BY ReplayStepSound
<1>3. ReplaySound => ReplayEqualsTables
  BY DEF ReplaySound, ReplayEqualsTables, Tables, Tab
<1> QED
  BY <1>1, <1>2, <1>3, PTL DEF ReplaySpec
-----------------------------------------------------------------------------
(* The runtime's calls.  First _advance_to_chain_state, which appends one     *)
(* transition after the other.                                               *)

ChainStates == {"SUBMITTED", "INCLUDED", "CONFIRMED", "RECONCILED"}
Advanceable == {"RESERVED"} \cup EXTERNALLY_AMBIGUOUS_STATES
After(s) == IF s \in DOMAIN NextOnChain THEN NextOnChain[s] ELSE s

OnPath(s, g) ==
    g = [n \in 0..4 |->
            IF n = 0 THEN s
            ELSE IF g[n - 1] \in DOMAIN NextOnChain THEN NextOnChain[g[n - 1]] ELSE g[n - 1]]
Path(s) == CHOOSE g : OnPath(s, g)
LastOn(g, to) == CHOOSE n \in 0..4 : g[n] = to /\ \A k \in 0..(n - 1) : g[k] # to

LEMMA AdvancesMeans ==
    ASSUME NEW a
    PROVE Advances(a) = [n \in 1..LastOn(Path(state[a]), state'[a]) |->
                           Moved(a, Path(state[a])[n - 1], Path(state[a])[n])]
BY DEF Advances, LastOn, Path, OnPath

LEMMA PathValues ==
    ASSUME NEW s
    PROVE Path(s)[0] = s /\ \A n \in 1..4 : Path(s)[n] = After(Path(s)[n - 1])
<1> DEFINE h == [n \in 0..4 |-> IF n = 0 THEN s
                               ELSE IF n = 1 THEN After(s)
                               ELSE IF n = 2 THEN After(After(s))
                               ELSE IF n = 3 THEN After(After(After(s)))
                               ELSE After(After(After(After(s))))]
           r == [n \in 0..4 |->
            IF n = 0 THEN s
            ELSE IF h[n - 1] \in DOMAIN NextOnChain THEN NextOnChain[h[n - 1]] ELSE h[n - 1]]
<1>1. ASSUME NEW n \in 0..4
      PROVE h[n] = r[n]
  <2>1. n = 0 \/ n = 1 \/ n = 2 \/ n = 3 \/ n = 4
    OBVIOUS
  <2>2. /\ h[0] = s /\ h[1] = After(s) /\ h[2] = After(h[1]) /\ h[3] = After(h[2])
        /\ h[4] = After(h[3])
    OBVIOUS
  <2>3. r[n] = IF n = 0 THEN s ELSE After(h[n - 1])
    BY DEF After
  <2> HIDE DEF h, r
  <2> QED
    BY <2>1, <2>2, <2>3
<1>2. h = r
  <2>1. h = [n \in 0..4 |-> h[n]] /\ r = [n \in 0..4 |-> r[n]]
    OBVIOUS
  <2> HIDE DEF h, r
  <2> QED
    BY <1>1, <2>1
<1>3. OnPath(s, h)
  BY <1>2 DEF OnPath
<1>4. OnPath(s, Path(s))
  <2> HIDE DEF h
  <2> QED
    BY <1>3 DEF Path
<1> HIDE DEF h, r
<1> QED
  BY <1>4 DEF OnPath, After

\* On the way to a state the intent takes only legal transitions between chain
\* states, and the last of them brings it there.
LEMMA PathToState ==
    ASSUME NEW s \in Advanceable, NEW to \in {"INCLUDED", "CONFIRMED", "RECONCILED"},
           s = "CONFIRMED" => to # "INCLUDED"
    PROVE LET g == Path(s)
              k == LastOn(g, to)
          IN /\ k \in 0..4 /\ g[0] = s /\ g[k] = to
             /\ \A i \in 1..k : g[i] \in TRANSITIONS[g[i - 1]] \cap ChainStates
             /\ s = to => k = 0
             /\ s # to /\ to \in TRANSITIONS[s] => k = 1
<1>1. PICK g : g = Path(s)
  OBVIOUS
<1>2. /\ g[0] = s /\ g[1] = After(g[0]) /\ g[2] = After(g[1]) /\ g[3] = After(g[2])
      /\ g[4] = After(g[3])
  BY <1>1, PathValues
<1>3. /\ After("SIGNED") = "SUBMITTED" /\ After("SUBMITTED") = "INCLUDED"
      /\ After("RESERVED") = "INCLUDED" /\ After("INCLUDED") = "CONFIRMED"
      /\ After("CONFIRMED") = "RECONCILED" /\ After("RECONCILED") = "RECONCILED"
  BY DEF After, NextOnChain
<1>4. /\ "SUBMITTED" \in TRANSITIONS["SIGNED"] /\ "INCLUDED" \in TRANSITIONS["SUBMITTED"]
      /\ "INCLUDED" \in TRANSITIONS["RESERVED"] /\ "CONFIRMED" \in TRANSITIONS["INCLUDED"]
      /\ "RECONCILED" \in TRANSITIONS["CONFIRMED"]
  BY DEF TRANSITIONS
<1>5. s \in {"RESERVED", "SIGNED", "SUBMITTED", "INCLUDED", "CONFIRMED"}
  BY DEF Advanceable, EXTERNALLY_AMBIGUOUS_STATES
<1>6. s # to /\ to \in TRANSITIONS[s] => After(s) = to
  BY <1>3, <1>5 DEF TRANSITIONS, Abandoned
<1> DEFINE First(n) == n \in 0..4 /\ g[n] = to /\ \A j \in 0..(n - 1) : g[j] # to
<1>7. \E n \in 0..4 : First(n)
  <2>1. g[0] = to \/ g[1] = to \/ g[2] = to \/ g[3] = to \/ g[4] = to
    BY <1>2, <1>3, <1>5
  <2>2. CASE g[0] = to
    BY <2>2
  <2>3. CASE g[0] # to /\ g[1] = to
    BY <2>3
  <2>4. CASE g[0] # to /\ g[1] # to /\ g[2] = to
    BY <2>4
  <2>5. CASE g[0] # to /\ g[1] # to /\ g[2] # to /\ g[3] = to
    BY <2>5
  <2>6. CASE g[0] # to /\ g[1] # to /\ g[2] # to /\ g[3] # to /\ g[4] = to
    BY <2>6
  <2> QED
    BY <2>1, <2>2, <2>3, <2>4, <2>5, <2>6
<1>8. PICK k : k = LastOn(g, to)
  OBVIOUS
<1>9. k \in 0..4 /\ g[k] = to /\ \A j \in 0..(k - 1) : g[j] # to
  BY <1>7, <1>8 DEF LastOn
<1>10. ASSUME NEW i \in 1..k
       PROVE g[i] \in TRANSITIONS[g[i - 1]] \cap ChainStates
  <2>1. i \in 1..4 /\ g[i - 1] # to
    BY <1>9
  <2>2. i = 1 \/ i = 2 \/ i = 3 \/ i = 4
    BY <2>1
  <2>3. g[i] = After(g[i - 1])
    BY <1>2, <2>2
  <2>4. g[i - 1] # "RECONCILED"
    <3>1. CASE g[i - 1] = "RECONCILED"
      <4>1. g[k] = "RECONCILED"
        <5>1. k = 1 \/ k = 2 \/ k = 3 \/ k = 4
          BY <1>9
        <5> QED
          BY <1>2, <1>3, <1>9, <2>2, <3>1, <5>1
      <4> QED
        BY <1>9, <2>1, <3>1, <4>1
    <3> QED
      BY <3>1
  <2>5. g[i - 1] \in Advanceable
    BY <1>2, <1>3, <1>5, <2>2, <2>4 DEF Advanceable, EXTERNALLY_AMBIGUOUS_STATES
  <2> QED
    BY <1>3, <1>4, <2>3, <2>5 DEF Advanceable, EXTERNALLY_AMBIGUOUS_STATES, ChainStates
<1>11. s = to => k = 0
  <2>1. ASSUME s = to, k # 0
        PROVE FALSE
    <3>1. 0 \in 0..(k - 1)
      BY <1>9, <2>1
    <3> QED
      BY <1>2, <1>9, <2>1, <3>1
  <2> QED
    BY <2>1
<1>12. s # to /\ to \in TRANSITIONS[s] => k = 1
  <2>1. ASSUME s # to, to \in TRANSITIONS[s], k # 1
        PROVE FALSE
    <3>1. g[1] = to
      BY <1>2, <1>6, <2>1
    <3>2. k # 0
      BY <1>2, <1>9, <2>1
    <3>3. 1 \in 0..(k - 1)
      BY <1>9, <2>1, <3>2
    <3> QED
      BY <1>9, <3>1, <3>3
  <2> QED
    BY <2>1
<1> QED
  BY <1>1, <1>2, <1>8, <1>9, <1>10, <1>11, <1>12
\* One transition between chain states moves nothing but the intent.
LEMMA ChainMoveReplayed ==
    ASSUME RowsTyped, NEW a \in Actions, NEW s, NEW to \in TRANSITIONS[s] \cap ChainStates,
           NEW st, st[a] = s, NEW n, NEW rc,
           NEW db, db = Tab(cycle, carry, st, bounds, resv, rc, marks)
    PROVE One(db, Moved(a, s, to), n) = Tab(cycle, carry, Put(st, a, to), bounds, resv, rc, marks)
<1>0. PICK e : e = Moved(a, s, to)
  OBVIOUS
<1>1. e.type = "INTENT_TRANSITION" /\ e.action = a /\ e.from = s /\ e.to = to
  BY <1>0 DEF Moved
<1>2. /\ db.ok /\ db.state = st /\ db.resv = resv /\ db.bounds = bounds
  BY DEF Tab
<1>3. /\ to # "RESERVED" /\ to # "FILLED" /\ to # "SAFE_HALT" /\ to \notin RELEASING_STATES
  BY DEF ChainStates, RELEASING_STATES
<1>4. Accepted(db, e)
  BY <1>1, <1>2, <1>3, MovedEvent
<1>5. ReplayedStatus(db, e) = db.resv[a]
  <2>1. /\ e.to # "RESERVED" /\ e.to # "FILLED" /\ e.to # "SAFE_HALT"
        /\ e.to \notin RELEASING_STATES /\ e.action = a
    BY <1>1, <1>3
  <2> QED
    BY <2>1, Zenon DEF ReplayedStatus
<1>6. PICK status : status = resv[a]
  OBVIOUS
<1>7. OnActions(resv) /\ OnActions(marks)
  BY DEF RowsTyped, IntentsTyped, MarksTyped, OnActions
<1>8. WithState(WithReservation(db, a, status, n), a, to) =
        Tab(cycle, carry, Put(st, a, to), bounds, Put(resv, a, status), rc,
            Put(marks, a, MarkOf(resv[a], status, marks[a], n)))
  BY <1>7, WithReservationTab
<1>9. Put(resv, a, status) = resv /\ Put(marks, a, MarkOf(resv[a], status, marks[a], n)) = marks
  BY <1>6 DEF Put, MarkOf, RowsTyped, IntentsTyped, MarksTyped
<1>10. Applied(db, e, n) = WithState(WithReservation(db, a, status, n), a, to)
  BY <1>1, <1>2, <1>5, <1>6, MovedEvent
<1> QED
  BY <1>0, <1>2, <1>4, <1>8, <1>9, <1>10 DEF One

\* The events of an advance of intent a: one for each transition along a path.
Advancing(a, s, m, k, g) ==
    /\ k \in 0..4 /\ Len(s) = m + k
    /\ g[0] = state[a] /\ g[k] = state'[a]
    /\ \A i \in 1..k : /\ g[i] \in TRANSITIONS[g[i - 1]] \cap ChainStates
                       /\ s[m + i] = Moved(a, g[i - 1], g[i])

\* h runs through the tables a replay of the first len events of s leaves behind.
Record(h, s, len) == \A n \in 1..len : h[n] = One(h[n - 1], s[n], n)

\* They are replayed, whatever m events came before them in the call, on tables that
\* have everything but the state of the intent.
LEMMA AdvanceReplayed ==
    ASSUME RowsTyped, NEW a \in Actions, NEW db, NEW s, NEW m \in Nat, NEW k, NEW g,
           Advancing(a, s, m, k, g), state' = Put(state, a, state'[a]),
           NEW h, Record(h, s, m + k),
           NEW rc, h[m] = Tab(cycle, carry, state, bounds, resv, rc, marks)
    PROVE h[m + k] = Tab(cycle, carry, state', bounds, resv, rc, marks)
<1> DEFINE Written(i) == h[m + i] = Tab(cycle, carry, Put(state, a, g[i]), bounds, resv, rc, marks)
<1>0. k \in 0..4 /\ g[0] = state[a] /\ g[k] = state'[a]
  BY DEF Advancing
<1>1. Written(0)
  <2>1. Put(state, a, g[0]) = state
    BY <1>0 DEF Put, RowsTyped, IntentsTyped
  <2> QED
    BY <2>1
<1>2. ASSUME NEW i \in 1..k, Written(i - 1)
      PROVE Written(i)
  <2>0. PICK st, from, to, n, db2 :
           /\ st = Put(state, a, g[i - 1]) /\ from = g[i - 1] /\ to = g[i]
           /\ n = m + i /\ db2 = h[m + (i - 1)]
    OBVIOUS
  <2>1. /\ to \in TRANSITIONS[from] \cap ChainStates /\ s[n] = Moved(a, from, to)
    BY <2>0 DEF Advancing
  <2>2. h[n] = One(db2, Moved(a, from, to), n)
    <3>1. n \in 1..(m + k) /\ n - 1 = m + (i - 1)
      BY <1>0, <2>0
    <3> QED
      BY <2>0, <2>1, <3>1 DEF Record
  <2>3. st[a] = from
    BY <2>0 DEF Put, RowsTyped, IntentsTyped
  <2>4. db2 = Tab(cycle, carry, st, bounds, resv, rc, marks)
    BY <1>2, <2>0
  <2>5. One(db2, Moved(a, from, to), n) =
          Tab(cycle, carry, Put(st, a, to), bounds, resv, rc, marks)
    BY <2>1, <2>3, <2>4, ChainMoveReplayed
  <2>6. Put(st, a, to) = Put(state, a, to)
    BY <2>0 DEF Put
  <2> QED
    BY <2>0, <2>2, <2>5, <2>6
<1>3. Written(k)
  <2> HIDE DEF Written
  <2>1. /\ k >= 1 => Written(1)
        /\ k >= 2 => Written(2)
        /\ k >= 3 => Written(3)
        /\ k >= 4 => Written(4)
    <3>1. k >= 1 => Written(1)
      <4>1. k >= 1 => 1 \in 1..k /\ 1 - 1 = 0
        BY <1>0
      <4> QED
        BY <1>1, <1>2, <4>1
    <3>2. k >= 2 => Written(2)
      <4>1. k >= 2 => 2 \in 1..k /\ 2 - 1 = 1 /\ k >= 1
        BY <1>0
      <4> QED
        BY <3>1, <1>2, <4>1
    <3>3. k >= 3 => Written(3)
      <4>1. k >= 3 => 3 \in 1..k /\ 3 - 1 = 2 /\ k >= 2
        BY <1>0
      <4> QED
        BY <3>2, <1>2, <4>1
    <3>4. k >= 4 => Written(4)
      <4>1. k >= 4 => 4 \in 1..k /\ 4 - 1 = 3 /\ k >= 3
        BY <1>0
      <4> QED
        BY <3>3, <1>2, <4>1
    <3> QED
      BY <3>1, <3>2, <3>3, <3>4
  <2>2. k = 0 \/ k = 1 \/ k = 2 \/ k = 3 \/ k = 4
    BY <1>0
  <2> QED
    BY <1>1, <2>1, <2>2
<1> QED
  BY <1>0, <1>3

\* What an advance leaves in the log is such a path.
LEMMA MoveEventsAdvance ==
    ASSUME RowsTyped, NEW a \in Actions, state[a] \in Advanceable,
           state'[a] \in {"INCLUDED", "CONFIRMED", "RECONCILED"},
           state[a] = "CONFIRMED" => state'[a] # "INCLUDED"
    PROVE \E k, g : /\ Advancing(a, MoveEvents(a), 0, k, g)
                    /\ MoveEvents(a) \in Seq({Moved(a, g[i - 1], g[i]) : i \in 1..k})
<1>0. PICK s, to, g, k : /\ s = state[a] /\ to = state'[a] /\ g = Path(s) /\ k = LastOn(g, to)
  OBVIOUS
<1>1. /\ k \in 0..4 /\ g[0] = s /\ g[k] = to
      /\ \A i \in 1..k : g[i] \in TRANSITIONS[g[i - 1]] \cap ChainStates
      /\ s = to => k = 0
      /\ s # to /\ to \in TRANSITIONS[s] => k = 1
  BY <1>0, PathToState
<1>2. MoveEvents(a) = [i \in 1..k |-> Moved(a, g[i - 1], g[i])]
  <2>1. CASE s = to
    <3>1. MoveEvents(a) = <<>> /\ k = 0
      BY <1>0, <1>1, <2>1 DEF MoveEvents
    <3> QED
      BY <3>1
  <2>2. CASE s # to /\ to \in TRANSITIONS[s]
    <3>1. MoveEvents(a) = <<Moved(a, s, to)>> /\ k = 1
      BY <1>0, <1>1, <2>2 DEF MoveEvents
    <3>2. <<Moved(a, s, to)>> = [i \in 1..1 |-> Moved(a, g[i - 1], g[i])]
      <4>1. g[0] = s /\ g[1] = to
        BY <1>1, <3>1
      <4>2. \A i \in 1..1 : i = 1 /\ i - 1 = 0
        OBVIOUS
      <4> QED
        BY <4>1, <4>2
    <3> QED
      BY <3>1, <3>2
  <2>3. CASE s # to /\ to \notin TRANSITIONS[s]
    BY <1>0, <2>3, AdvancesMeans DEF MoveEvents
  <2> QED
    BY <2>1, <2>2, <2>3
<1> DEFINE M(i) == Moved(a, g[i - 1], g[i])
           E == {M(i) : i \in 1..k}
<1>3. MoveEvents(a) \in Seq(E) /\ Len(MoveEvents(a)) = k /\ \A i \in 1..k : MoveEvents(a)[i] = M(i)
  <2> HIDE DEF M
  <2>1. MoveEvents(a) = [i \in 1..k |-> M(i)]
    BY <1>2 DEF M
  <2>2. k \in Nat
    BY <1>1
  <2>3. \A i \in 1..k : M(i) \in E
    OBVIOUS
  <2> HIDE DEF E
  <2>4. MoveEvents(a) \in [1..k -> E]
    BY <2>1, <2>3
  <2> QED
    BY <2>1, <2>2, <2>4
<1>4. Advancing(a, MoveEvents(a), 0, k, g)
  BY <1>0, <1>1, <1>3 DEF Advancing
<1> QED
  BY <1>3, <1>4
\* A halted intent holds its capital as the replay demands.
LEMMA HaltedIsHalted ==
    ASSUME NEW a \in Actions, state[a] = "SAFE_HALT",
           resv[a] = IF Exposure(a) = 0 THEN "NONE" ELSE "QUARANTINED",
           NEW db, db.state = state, db.resv = resv, db.bounds = bounds
    PROVE HaltedInReplay(db, a)
BY DEF HaltedInReplay, ReplayedExposure, Exposure

\* recover_safe_halt_from_terminal_chain_truth(), replayed: alone, or after the
\* receipt of the settlement, whose number it does not write.
LEMMA RecoveredReplayed ==
    ASSUME RowsTyped, NEW a \in Actions, NEW to, RecoverSafeHalt(a, to), NEW rc,
           \/ /\ to = "RECONCILED" /\ recon'[a] = "SETTLED"
              /\ \E r \in rc : r.action = a
           \/ to = "REJECTED" /\ recon'[a] = "REVERTED",
           NEW n, to = "REJECTED" => n = 1, MarkedAt(1),
           NEW db, db = Tab(cycle, carry, state, bounds, resv, rc, marks)
    PROVE One(db, Recovered(a, to), n) = Tab(cycle, carry, state', bounds, resv', rc, marks')
<1>0. PICK e, status :
         /\ e = Recovered(a, to)
         /\ status = IF resv[a] = "NONE" THEN "NONE"
                     ELSE IF to = "RECONCILED" THEN "ACTIVE" ELSE "RELEASED"
  OBVIOUS
<1>1. e.type = "CHAIN_TRUTH_RECOVERED" /\ e.action = a /\ e.to = to /\ e.verdict = recon'[a]
  BY <1>0 DEF Recovered
<1>2. /\ db.ok /\ db.state = state /\ db.resv = resv /\ db.bounds = bounds /\ db.receipts = rc
  BY DEF Tab
<1>3. HaltedInReplay(db, a)
  BY <1>2, HaltedIsHalted DEF RecoverSafeHalt
<1>4. Accepted(db, e)
  BY <1>1, <1>2, <1>3, RecoveredEvent
<1>5. OnActions(resv) /\ OnActions(marks)
  BY DEF RowsTyped, IntentsTyped, MarksTyped, OnActions
<1>6. WithState(WithReservation(db, a, status, n), a, to) =
        Tab(cycle, carry, Put(state, a, to), bounds, Put(resv, a, status), rc,
            Put(marks, a, MarkOf(resv[a], status, marks[a], n)))
  BY <1>5, WithReservationTab
<1>7. Applied(db, e, n) = WithState(WithReservation(db, a, status, n), a, to)
  BY <1>0, <1>1, <1>2, RecoveredEvent
<1>8. /\ resv[a] = IF Exposure(a) = 0 THEN "NONE" ELSE "QUARANTINED"
      /\ state' = Put(state, a, to)
      /\ resv' = [resv EXCEPT ![a] =
            IF Exposure(a) = 0 THEN @ ELSE IF to = "RECONCILED" THEN "ACTIVE" ELSE "RELEASED"]
  BY DEF RecoverSafeHalt, Put
<1>9. resv' = Put(resv, a, status) /\ resv'[a] = status
  BY <1>0, <1>8 DEF Put, RowsTyped, IntentsTyped
<1>10. marks' = Put(marks, a, MarkOf(resv[a], status, marks[a], n))
  <2>1. marks' = [b \in Actions |-> MarkOf(resv[b], resv'[b], marks[b], 1)]
    BY MarkedMeans
  <2>2. MarkOf(resv[a], status, marks[a], 1) = MarkOf(resv[a], status, marks[a], n)
    BY <1>0, <1>8 DEF MarkOf
  <2>3. \A b \in Actions \ {a} : resv'[b] = resv[b]
    BY <1>8 DEF RowsTyped, IntentsTyped
  <2> QED
    BY <1>9, <2>1, <2>2, <2>3 DEF Put, MarkOf, RowsTyped, MarksTyped
<1> QED
  BY <1>0, <1>2, <1>4, <1>6, <1>7, <1>8, <1>9, <1>10 DEF One

\* resume_quarantined_exact_signed_bytes(), replayed.
LEMMA ResumptionReplayed ==
    ASSUME RowsTyped, NEW a \in Actions, Resumption(a), MarkedAt(1), NEW rc,
           NEW db, db = Tab(cycle, carry, state, bounds, resv, rc, marks)
    PROVE One(db, Resumed(a), 1) = Tab(cycle, carry, state', bounds, resv', rc, marks')
<1>0. PICK e, status, n : /\ e = Resumed(a) /\ n = 1
                          /\ status = IF resv[a] = "NONE" THEN "NONE" ELSE "ACTIVE"
  OBVIOUS
<1>1. e.type = "EXACT_BYTES_RESUMED" /\ e.action = a /\ e.prior = resv[a]
  BY <1>0 DEF Resumed
<1>2. /\ db.ok /\ db.state = state /\ db.resv = resv /\ db.bounds = bounds
  BY DEF Tab
<1>3. HaltedInReplay(db, a)
  BY <1>2, HaltedIsHalted DEF Resumption, ResumeGate
<1>4. Accepted(db, e)
  BY <1>1, <1>2, <1>3, ResumedEvent
<1>5. OnActions(resv) /\ OnActions(marks)
  BY DEF RowsTyped, IntentsTyped, MarksTyped, OnActions
<1>6. WithState(WithReservation(db, a, status, n), a, "SIGNED") =
        Tab(cycle, carry, Put(state, a, "SIGNED"), bounds, Put(resv, a, status), rc,
            Put(marks, a, MarkOf(resv[a], status, marks[a], n)))
  BY <1>5, WithReservationTab
<1>7. Applied(db, e, n) = WithState(WithReservation(db, a, status, n), a, "SIGNED")
  BY <1>0, <1>1, <1>2, ResumedEvent
<1>8. /\ resv[a] = IF Exposure(a) = 0 THEN "NONE" ELSE "QUARANTINED"
      /\ state' = Put(state, a, "SIGNED")
      /\ resv' = [resv EXCEPT ![a] = IF Exposure(a) = 0 THEN @ ELSE "ACTIVE"]
  BY DEF Resumption, ResumeGate, ResumeHold, Put
<1>9. resv' = Put(resv, a, status) /\ resv'[a] = status
  BY <1>0, <1>8 DEF Put, RowsTyped, IntentsTyped
<1>10. marks' = Put(marks, a, MarkOf(resv[a], status, marks[a], n))
  <2>1. marks' = [b \in Actions |-> MarkOf(resv[b], resv'[b], marks[b], n)]
    BY <1>0, MarkedMeans
  <2>2. \A b \in Actions \ {a} : resv'[b] = resv[b]
    BY <1>8 DEF RowsTyped, IntentsTyped
  <2> QED
    BY <1>9, <2>1, <2>2 DEF Put, MarkOf, RowsTyped, MarksTyped
<1> QED
  BY <1>0, <1>2, <1>4, <1>6, <1>7, <1>8, <1>9, <1>10 DEF One

\* A call that moves an intent, or none, and appends the events of that alone.
LEMMA MovesReplayed ==
    ASSUME RowsTyped, NEW a \in Actions, UNCHANGED <<cycle, carry, bounds, receipts>>, MarkedAt(1),
           \/ UNCHANGED <<state, resv>>
           \/ Advanced(a) /\ (state[a] = "CONFIRMED" => state'[a] # "INCLUDED")
           \/ \E to \in Requested : MoveIntent(a, to) /\ UNCHANGED recon
    PROVE ReplayInto(Tables, MoveEvents(a)) = Tables'
<1>0. Tables' = Tab(cycle, carry, state', bounds, resv', receipts, marks')
  BY DEF Tables
<1>1. CASE UNCHANGED <<state, resv>>
  <2>1. MoveEvents(a) = <<>>
    BY <1>1 DEF MoveEvents
  <2>2. marks' = marks
    BY <1>1, MarksStay DEF RowsTyped
  <2> QED
    BY <1>0, <1>1, <2>1, <2>2, ReplayNone DEF Tables
<1>2. CASE Advanced(a) /\ (state[a] = "CONFIRMED" => state'[a] # "INCLUDED")
  <2>1. /\ state[a] \in Advanceable /\ state'[a] \in {"INCLUDED", "CONFIRMED", "RECONCILED"}
        /\ state' = Put(state, a, state'[a]) /\ UNCHANGED resv
    BY <1>2 DEF Advanced, AdvanceFrom, Advanceable, Put, RowsTyped, IntentsTyped
  <2>0. PICK m \in Nat : m = 0
    OBVIOUS
  <2>2. PICK t, db, rc : t = MoveEvents(a) /\ db = Tables /\ rc = receipts
    OBVIOUS
  <2>3. PICK k, g : Advancing(a, t, m, k, g)
    BY <1>2, <2>0, <2>1, <2>2, MoveEventsAdvance
  <2>4. m + k \in Nat /\ m + k = k /\ Len(t) = m + k
    BY <2>0, <2>3 DEF Advancing
  <2>n. PICK n \in Nat : n = m + k /\ Len(t) = n
    BY <2>4
  <2>h. PICK h : RebuiltBy(db, t, n, h)
    BY <2>n, ReplayRecord
  <2>5. /\ h[0] = db
        /\ Record(h, t, m + k)
        /\ ReplayInto(db, t) = h[m + k]
    BY <2>n, <2>h DEF RebuiltBy, Record
  <2>6. h[m] = Tab(cycle, carry, state, bounds, resv, rc, marks)
    BY <2>0, <2>2, <2>5 DEF Tables
  <2>7. h[m + k] = Tab(cycle, carry, state', bounds, resv, rc, marks)
    BY <2>1, <2>3, <2>5, <2>6, AdvanceReplayed
  <2>8. marks' = marks
    BY <2>1, MarksStay DEF RowsTyped
  <2> QED
    BY <1>0, <2>1, <2>2, <2>5, <2>7, <2>8
<1>3. CASE \E to \in Requested : MoveIntent(a, to) /\ UNCHANGED recon
  <2>1. PICK to \in Requested : MoveIntent(a, to) /\ UNCHANGED recon
    BY <1>3
  <2>2. PICK n, db, rc : n = 1 /\ db = Tables /\ rc = receipts
    OBVIOUS
  <2>3. to \in IntentState /\ to # state[a] /\ state'[a] = to /\ to \in TRANSITIONS[state[a]]
    BY <2>1 DEF Requested, IntentState, MoveIntent, TransitionAllowed, TRANSITIONS, Abandoned,
                RowsTyped, IntentsTyped
  <2>4. MoveEvents(a) = <<Moved(a, state[a], to)>>
    BY <2>3 DEF MoveEvents
  <2>5. marks' = [b \in Actions |-> MarkOf(resv[b], resv'[b], marks[b], n)]
    BY <2>2, MarkedMeans
  <2>6. db = Tab(cycle, carry, state, bounds, resv, rc, marks)
    BY <2>2 DEF Tables
  <2>7. One(db, Moved(a, state[a], to), n) = Tab(cycle, carry, state', bounds, resv', rc, marks')
    BY <2>1, <2>3, <2>5, <2>6, MoveReplayed
  <2> QED
    BY <1>0, <2>2, <2>4, <2>7, ReplayOne
<1> QED
  BY <1>1, <1>2, <1>3
\* An event appended before others.
LEMMA EventBefore ==
    ASSUME NEW e, NEW E, NEW s \in Seq(E)
    PROVE LET t == <<e>> \o s
          IN Len(t) = 1 + Len(s) /\ t[1] = e /\ \A i \in 1..Len(s) : t[1 + i] = s[i]
<1>1. <<e>> \in Seq(E \cup {e}) /\ s \in Seq(E \cup {e})
  OBVIOUS
<1> QED
  BY <1>1

\* A settled reconciliation of an intent that is not halted, replayed: the receipt,
\* and every transition on the way to RECONCILED.
LEMMA SettledReplayed ==
    ASSUME RowsTyped, NEW a \in Actions, state[a] \in AdvanceFrom(a),
           state' = Put(state, a, "RECONCILED"),
           UNCHANGED <<cycle, carry, bounds, resv>>, MarkedAt(1), NEW row, Receipt(row)
    PROVE ReplayInto(Tables, <<Received(row)>> \o MoveEvents(a)) = Tables'
<1>0. PICK e, db, rc, s : e = Received(row) /\ db = Tables /\ rc = receipts' /\ s = MoveEvents(a)
  OBVIOUS
<1>1. state'[a] = "RECONCILED" /\ state' = Put(state, a, state'[a]) /\ state[a] \in Advanceable
  BY DEF Put, RowsTyped, IntentsTyped, AdvanceFrom, Advanceable
<1>2. PICK k, g : Advancing(a, s, 0, k, g) /\ s \in Seq({Moved(a, g[i - 1], g[i]) : i \in 1..k})
  BY <1>0, <1>1, MoveEventsAdvance
<1>3. PICK m \in Nat : m = 1
  OBVIOUS
<1>4. PICK t : t = <<e>> \o s
  OBVIOUS
<1>5. Len(s) = k /\ k \in 0..4 /\ \A i \in 1..k : s[0 + i] = s[i]
  BY <1>2 DEF Advancing
<1>6. Len(t) = 1 + Len(s) /\ t[1] = e /\ \A i \in 1..Len(s) : t[1 + i] = s[i]
  BY <1>2, <1>4, EventBefore
<1>7. Advancing(a, t, m, k, g)
  BY <1>2, <1>3, <1>5, <1>6 DEF Advancing
<1>8. PICK len \in Nat : len = m + k /\ Len(t) = len /\ 1 \in 1..len
  BY <1>3, <1>5, <1>6
<1>h. PICK h : RebuiltBy(db, t, len, h)
  BY <1>8, ReplayRecord
<1>9. h[0] = db /\ Record(h, t, len) /\ ReplayInto(db, t) = h[len]
  BY <1>h DEF RebuiltBy, Record
<1>10. h[m] = Tab(cycle, carry, state, bounds, resv, rc, marks)
  <2>1. h[1] = One(h[0], t[1], 1)
    <3>1. 1 - 1 = 0
      OBVIOUS
    <3> QED
      BY <1>8, <1>9, <3>1 DEF Record
  <2> QED
    BY <1>0, <1>3, <1>6, <1>9, <2>1, ReceivedReplayed
<1>11. h[m + k] = Tab(cycle, carry, state', bounds, resv, rc, marks)
  BY <1>1, <1>7, <1>8, <1>9, <1>10, AdvanceReplayed
<1>12. marks' = marks
  BY MarksStay DEF RowsTyped
<1> QED
  BY <1>0, <1>4, <1>8, <1>9, <1>11, <1>12 DEF Tables

\* One of a halted intent: the receipt, and the recovery by terminal chain truth.
LEMMA SettledHaltReplayed ==
    ASSUME RowsTyped, NEW a \in Actions, RecoverSafeHalt(a, "RECONCILED"),
           recon'[a] = "SETTLED", UNCHANGED <<cycle, carry, bounds>>, MarkedAt(1),
           NEW row, Receipt(row), row.action = a
    PROVE ReplayInto(Tables, <<Received(row)>> \o <<Recovered(a, "RECONCILED")>>) = Tables'
<1>0. PICK e, f, to, n, rc, db :
        /\ e = Received(row) /\ to = "RECONCILED" /\ f = Recovered(a, to) /\ n = 2
        /\ rc = receipts' /\ db = Tab(cycle, carry, state, bounds, resv, rc, marks)
  OBVIOUS
<1>1. One(Tables, e, 1) = db
  BY <1>0, ReceivedReplayed
<1>2. \E r \in rc : r.action = a
  BY <1>0 DEF Receipt
<1>3. One(db, f, n) = Tab(cycle, carry, state', bounds, resv', rc, marks')
  BY <1>0, <1>2, RecoveredReplayed
<1>4. PICK t : t = <<e>> \o <<f>>
  OBVIOUS
<1>5. Len(t) = 2 /\ t[1] = e /\ t[2] = f
  BY <1>4, PairOfEvents
<1>6. ReplayInto(Tables, t) = One(db, f, 2)
  BY <1>1, <1>5, ReplayTwo
<1>7. Tables' = Tab(cycle, carry, state', bounds, resv', rc, marks')
  BY <1>0 DEF Tables
<1> QED
  BY <1>0, <1>3, <1>4, <1>6, <1>7
\* What a reconciliation appends after its receipt, if it accounts one.
Outcome(a) ==
    IF state[a] = "SAFE_HALT" /\ state'[a] # "SAFE_HALT"
    THEN <<Recovered(a, state'[a])>> ELSE MoveEvents(a)

LEMMA ReceiptFirst ==
    ASSUME NEW a, NEW row, Receipt(row)
    PROVE ReconcileEvents(a) = <<Received(row)>> \o Outcome(a)
<1>1. receipts' \ receipts = {row}
  BY DEF Receipt
<1>2. (CHOOSE r \in {row} : TRUE) = row
  OBVIOUS
<1> QED
  BY <1>1, <1>2 DEF ReconcileEvents, Outcome

LEMMA NoReceipt ==
    ASSUME NEW a, UNCHANGED receipts
    PROVE ReconcileEvents(a) = <<>> \o Outcome(a)
<1>1. receipts' \ receipts = {}
  OBVIOUS
<1> QED
  BY <1>1 DEF ReconcileEvents, Outcome

LEMMA OneEvent ==
    ASSUME NEW e
    PROVE <<>> \o <<e>> = <<e>>
<1>1. <<>> \in Seq({e}) /\ <<e>> \in Seq({e})
  OBVIOUS
<1> QED
  BY <1>1

\* A reverted or ambiguous reconciliation, or a repeated one, accounts nothing.
LEMMA UnaccountedReplayed ==
    ASSUME RowsTyped, NEW a \in Actions, UNCHANGED <<cycle, carry, bounds, receipts>>, MarkedAt(1),
           \/ UNCHANGED <<state, resv>>
           \/ /\ state[a] # "SAFE_HALT"
              /\ \E to \in {"REJECTED", "SAFE_HALT"} :
                    /\ to \in TRANSITIONS[state[a]] /\ state' = Put(state, a, to)
                    /\ ReservationEffect(a, to)
                    /\ to = "REJECTED" => recon'[a] = "REVERTED"
           \/ \E to \in {"RECONCILED", "REJECTED"} :
                 /\ RecoverSafeHalt(a, to)
                 /\ to = "RECONCILED" => recon'[a] = "SETTLED" /\ ReceiptsOf(a) # {}
                 /\ to = "REJECTED" => recon'[a] = "REVERTED"
    PROVE ReplayInto(Tables, ReconcileEvents(a)) = Tables'
<1>0. PICK n, db, rc : n = 1 /\ db = Tables /\ rc = receipts
  OBVIOUS
<1>1. db = Tab(cycle, carry, state, bounds, resv, rc, marks)
  BY <1>0 DEF Tables
<1>2. Tables' = Tab(cycle, carry, state', bounds, resv', rc, marks')
  BY <1>0 DEF Tables
<1>3. marks' = [b \in Actions |-> MarkOf(resv[b], resv'[b], marks[b], n)]
  BY <1>0, MarkedMeans
<1>4. CASE UNCHANGED <<state, resv>>
  <2>1. ReconcileEvents(a) = <<>>
    BY <1>4, NoReceipt DEF Outcome, MoveEvents
  <2>2. marks' = marks
    BY <1>4, MarksStay DEF RowsTyped
  <2> QED
    BY <1>0, <1>1, <1>2, <1>4, <2>1, <2>2, ReplayNone
<1>5. ASSUME state[a] # "SAFE_HALT", NEW to \in {"REJECTED", "SAFE_HALT"},
             to \in TRANSITIONS[state[a]], state' = Put(state, a, to), ReservationEffect(a, to),
             to = "REJECTED" => recon'[a] = "REVERTED"
      PROVE ReplayInto(Tables, ReconcileEvents(a)) = Tables'
  <2>1. state'[a] = to /\ to \in IntentState
    BY <1>5 DEF Put, RowsTyped, IntentsTyped, IntentState
  <2>2. to # state[a]
    BY <1>5 DEF TRANSITIONS, RowsTyped, IntentsTyped, IntentState
  <2>3. PICK e : e = Moved(a, state[a], to)
    OBVIOUS
  <2>4. ReconcileEvents(a) = <<e>>
    <3>1. Outcome(a) = <<e>>
      BY <1>5, <2>1, <2>2, <2>3 DEF Outcome, MoveEvents
    <3> QED
      BY <3>1, NoReceipt, OneEvent
  <2>5. to \in RELEASING_STATES => ExecutionSurface /\ recon'[a] = "REVERTED"
    BY <1>5, RuntimeAssumption DEF RELEASING_STATES
  <2>6. One(db, e, n) = Tab(cycle, carry, state', bounds, resv', rc, marks')
    BY <1>1, <1>3, <1>5, <2>1, <2>3, <2>5, EdgeReplayed
  <2> QED
    BY <1>0, <1>2, <2>4, <2>6, ReplayOne
<1>6. ASSUME NEW to \in {"RECONCILED", "REJECTED"}, RecoverSafeHalt(a, to),
             to = "RECONCILED" => recon'[a] = "SETTLED" /\ ReceiptsOf(a) # {},
             to = "REJECTED" => recon'[a] = "REVERTED"
      PROVE ReplayInto(Tables, ReconcileEvents(a)) = Tables'
  <2>1. state[a] = "SAFE_HALT" /\ state'[a] = to /\ state'[a] # "SAFE_HALT"
    BY <1>6 DEF RecoverSafeHalt, RowsTyped, IntentsTyped
  <2>2. PICK e : e = Recovered(a, to)
    OBVIOUS
  <2>3. ReconcileEvents(a) = <<e>>
    <3>1. Outcome(a) = <<e>>
      BY <2>1, <2>2 DEF Outcome
    <3> QED
      BY <3>1, NoReceipt, OneEvent
  <2>4. \/ /\ to = "RECONCILED" /\ recon'[a] = "SETTLED"
           /\ \E r \in rc : r.action = a
        \/ to = "REJECTED" /\ recon'[a] = "REVERTED"
    BY <1>0, <1>6 DEF ReceiptsOf
  <2>5. to = "REJECTED" => n = 1
    BY <1>0
  <2>6. One(db, e, n) = Tab(cycle, carry, state', bounds, resv', rc, marks')
    BY <1>1, <1>6, <2>2, <2>4, <2>5, RecoveredReplayed
  <2> QED
    BY <1>0, <1>2, <2>3, <2>6, ReplayOne
<1> QED
  BY <1>4, <1>5, <1>6

\* reconcile_external_action(), replayed.
LEMMA ReconcileReplayed ==
    ASSUME ExecComplete, MarksTyped, NEW a \in Actions, ReconcileExternalAction(a), MarkedAt(1)
    PROVE ReplayInto(Tables, ReconcileEvents(a)) = Tables'
<1>0. /\ RowsTyped /\ ReconTyped /\ UNCHANGED <<cycle, carry, bounds>>
      /\ recon[a] = "NONE" => ReceiptsOf(a) = {}
      /\ recon[a] = "SETTLED" => ReceiptsOf(a) # {}
  BY DEF ReconcileExternalAction, ExecComplete, ExecGood, ExecSound, RowsTyped, ConclusionsTrue,
         ConclusionTrue
<1>1. CASE ReconcileFirst(a) /\ VerdictOf(a) = "CONFIRMED"
  <2>1. SettledEffect(a) /\ recon'[a] = "SETTLED"
    BY <1>0, <1>1 DEF ReconcileFirst, ReconTyped
  <2>2. PICK row : row = Settlement(a, SettledFacts(obs[a]))
    OBVIOUS
  <2>3. row.action = a /\ Receipt(row)
    BY <2>1, <2>2 DEF SettledEffect, Settlement, Receipt, RECEIPT_STATES
  <2>4. PICK e : e = Received(row)
    OBVIOUS
  <2>5. ReconcileEvents(a) = <<e>> \o Outcome(a)
    BY <2>3, <2>4, ReceiptFirst
  <2>6. CASE state[a] = "SAFE_HALT"
    <3>1. RecoverSafeHalt(a, "RECONCILED")
      BY <2>1, <2>6 DEF SettledEffect
    <3>2. state'[a] = "RECONCILED"
      BY <1>0, <3>1 DEF RecoverSafeHalt, RowsTyped, IntentsTyped
    <3>3. PICK f : f = Recovered(a, "RECONCILED")
      OBVIOUS
    <3>4. Outcome(a) = <<f>>
      BY <2>6, <3>2, <3>3 DEF Outcome
    <3>5. ReplayInto(Tables, <<e>> \o <<f>>) = Tables'
      BY <1>0, <2>1, <2>3, <2>4, <3>1, <3>3, SettledHaltReplayed
    <3> QED
      BY <2>5, <3>4, <3>5
  <2>7. CASE state[a] # "SAFE_HALT"
    <3>1. state[a] \in AdvanceFrom(a) /\ state' = Put(state, a, "RECONCILED") /\ UNCHANGED resv
      BY <2>1, <2>7 DEF SettledEffect, Put
    <3>2. Outcome(a) = MoveEvents(a)
      BY <2>7 DEF Outcome
    <3>3. ReplayInto(Tables, <<e>> \o MoveEvents(a)) = Tables'
      BY <1>0, <2>3, <2>4, <3>1, SettledReplayed
    <3> QED
      BY <2>5, <3>2, <3>3
  <2> QED
    BY <2>6, <2>7
<1>2. CASE ReconcileFirst(a) /\ VerdictOf(a) = "REVERTED"
  <2>1. RevertedEffect(a) /\ recon'[a] = "REVERTED" /\ UNCHANGED receipts
    BY <1>0, <1>2 DEF ReconcileFirst, ReconTyped
  <2>2. \/ UNCHANGED <<state, resv>>
        \/ RecoverSafeHalt(a, "REJECTED")
        \/ /\ state[a] # "SAFE_HALT" /\ "REJECTED" \in TRANSITIONS[state[a]]
           /\ state' = Put(state, a, "REJECTED") /\ ReservationEffect(a, "REJECTED")
    BY <2>1 DEF RevertedEffect, Put, ReservationEffect, RELEASING_STATES
  <2> QED
    BY <1>0, <2>1, <2>2, UnaccountedReplayed
<1>3. CASE ReconcileFirst(a) /\ VerdictOf(a) = "AMBIGUOUS"
  <2>1. UNCHANGED receipts
    BY <1>3 DEF ReconcileFirst
  <2>2. \/ UNCHANGED <<state, resv>>
        \/ /\ state[a] # "SAFE_HALT" /\ "SAFE_HALT" \in TRANSITIONS[state[a]]
           /\ state' = Put(state, a, "SAFE_HALT") /\ ReservationEffect(a, "SAFE_HALT")
    BY <1>3 DEF ReconcileFirst, MoveIntent, TransitionAllowed, Put
  <2> QED
    BY <1>0, <2>1, <2>2, UnaccountedReplayed
<1>4. CASE ReconcileAgain(a)
  <2>1. UNCHANGED <<receipts, recon>> /\ recon[a] # "NONE"
    BY <1>4 DEF ReconcileAgain
  <2>2. \/ RecoverSafeHalt(a, "RECONCILED") /\ recon[a] = "SETTLED"
        \/ RecoverSafeHalt(a, "REJECTED") /\ recon[a] = "REVERTED"
    BY <1>0, <1>4, <2>1, AgainIsSame DEF ReconcileAgain, ReconTyped
  <2> QED
    BY <1>0, <2>1, <2>2, UnaccountedReplayed
<1>5. \/ ReconcileAgain(a)
      \/ ReconcileFirst(a) /\ VerdictOf(a) \in {"CONFIRMED", "REVERTED", "AMBIGUOUS"}
  BY DEF ReconcileExternalAction, ReconcileFirst
<1> QED
  BY <1>1, <1>2, <1>3, <1>4, <1>5
-----------------------------------------------------------------------------
(* Every step of the runtime, with what it appends.                          *)

\* A step of the runtime with its log is a step of the runtime.
LEMMA ReplayExecStepIsExecStep ==
    ASSUME [ReplayExecNext]_replayExecVars
    PROVE [ExecNext]_execVars
BY DEF ReplayExecNext, replayExecVars, ExecNext, OtherProcess, Recovery

\* The calls that move an intent, or may.
LEMMA LoggedMovesReplayed ==
    ASSUME ExecComplete, MarksTyped, NEW a \in Actions, MarkedAt(1),
           \/ \E w \in Workers : /\ ReserveAction(w) \/ AdmitExactSignedBytes(w) \/ Submit(w)
                                 /\ a = job[w].action
           \/ RecordChainObservation(a) \/ CompleteSettlement(a) \/ Abandon(a) \/ RecoverStep(a)
    PROVE ReplayInto(Tables, MoveEvents(a)) = Tables'
<1>1. RowsTyped /\ RecoveryTypeOK
  BY DEF ExecComplete, ExecGood, ExecSound, RowsTyped
<1>2. CASE \E w \in Workers : /\ ReserveAction(w) \/ AdmitExactSignedBytes(w)
                              /\ a = job[w].action
  <2>1. \E to \in Requested : MoveIntent(a, to) /\ UNCHANGED recon
    BY <1>2 DEF ReserveAction, AdmitExactSignedBytes, Requested, LedgerRest
  <2>2. UNCHANGED <<cycle, carry, bounds, receipts>>
    BY <1>2 DEF ReserveAction, AdmitExactSignedBytes, LedgerRest
  <2> QED
    BY <1>1, <2>1, <2>2, MovesReplayed
<1>3. CASE \E w \in Workers : Submit(w) /\ a = job[w].action
  <2>1. \/ UNCHANGED <<state, resv>>
        \/ \E to \in Requested : MoveIntent(a, to) /\ UNCHANGED recon
    BY <1>3 DEF Submit, SubmitGate, SubmitPrior, SubmitTransport, RecordSubmissionAttempt,
                Requested, LedgerRest, vars, ledgerVars
  <2>2. UNCHANGED <<cycle, carry, bounds, receipts>>
    BY <1>3 DEF Submit, SubmitGate, SubmitPrior, SubmitTransport, RecordSubmissionAttempt,
                LedgerRest, vars, ledgerVars
  <2> QED
    BY <1>1, <2>1, <2>2, MovesReplayed
<1>4. CASE RecordChainObservation(a)
  <2>1. \/ UNCHANGED <<state, resv>>
        \/ Advanced(a) /\ (state[a] = "CONFIRMED" => state'[a] # "INCLUDED")
        \/ \E to \in Requested : MoveIntent(a, to) /\ UNCHANGED recon
    <3>1. PICK v : ObservationEffect(a, v)
      BY <1>4 DEF RecordChainObservation, RecordReading
    <3>2. UNCHANGED recon
      BY <1>4 DEF RecordChainObservation, LedgerRest
    <3>3. PICK to : to = AdvancedState(a, v)
      OBVIOUS
    <3>4. to \in {"INCLUDED", "CONFIRMED"} /\ (state[a] = "CONFIRMED" => to = "CONFIRMED")
      BY <3>3 DEF AdvancedState
    <3>5. CASE state[a] \in AdvanceFrom(a) /\ state' = [state EXCEPT ![a] = to] /\ UNCHANGED resv
      <4>1. state'[a] = to
        BY <1>1, <3>5 DEF RowsTyped, IntentsTyped
      <4> QED
        BY <3>4, <3>5, <4>1 DEF Advanced
    <3> QED
      BY <3>1, <3>2, <3>3, <3>5 DEF ObservationEffect, Requested
  <2>2. UNCHANGED <<cycle, carry, bounds, receipts>>
    BY <1>4 DEF RecordChainObservation, LedgerRest
  <2> QED
    BY <1>1, <2>1, <2>2, MovesReplayed
<1>5. CASE CompleteSettlement(a) \/ Abandon(a)
  <2>1. \E to \in Requested : MoveIntent(a, to) /\ UNCHANGED recon
    BY <1>5 DEF CompleteSettlement, Abandon, Transition, Requested, LedgerRest
  <2>2. UNCHANGED <<cycle, carry, bounds, receipts>>
    BY <1>5 DEF CompleteSettlement, Abandon, Transition, LedgerRest
  <2> QED
    BY <1>1, <2>1, <2>2, MovesReplayed
<1>6. CASE RecoverStep(a)
  <2>1. plan[a] \in Requested /\ MoveIntent(a, plan[a]) /\ UNCHANGED recon
    BY <1>1, <1>6 DEF RecoverStep, RecoveryTypeOK, PlannedStates, Requested
  <2>2. UNCHANGED <<cycle, carry, bounds, receipts>>
    BY <1>6 DEF RecoverStep
  <2> QED
    BY <1>1, <2>1, <2>2, MovesReplayed
<1> QED
  BY <1>2, <1>3, <1>4, <1>5, <1>6

\* The log, replayed after any step, is the tables after it.
LEMMA ReplayFollows ==
    ASSUME ExecComplete, MarksTyped, rebuilt = Tables, [ReplayExecNext]_replayExecVars
    PROVE rebuilt' = Tables' /\ MarksTyped'
<1>0. JobsTyped
  BY DEF ExecComplete, ExecGood, ExecSound
<1>1. ASSUME UNCHANGED <<cycle, carry, state, bounds, resv, receipts>>, UNCHANGED replayVars
      PROVE rebuilt' = Tables' /\ MarksTyped'
  BY <1>1 DEF replayVars, Tables, MarksTyped
<1>2. ASSUME NEW a \in Actions, LogMoves(a),
             \/ \E w \in Workers : /\ ReserveAction(w) \/ AdmitExactSignedBytes(w) \/ Submit(w)
                                   /\ a = job[w].action
             \/ RecordChainObservation(a) \/ CompleteSettlement(a) \/ Abandon(a) \/ RecoverStep(a)
      PROVE rebuilt' = Tables' /\ MarksTyped'
  <2>1. MarkedAt(1) /\ rebuilt' = ReplayInto(rebuilt, MoveEvents(a))
    BY <1>2 DEF LogMoves, Appends
  <2>2. ReplayInto(Tables, MoveEvents(a)) = Tables'
    BY <1>2, <2>1, LoggedMovesReplayed
  <2> QED
    BY <2>1, <2>2, MarksType
<1>3. ASSUME NEW w \in Workers,
             ReserveAction(w) \/ AdmitExactSignedBytes(w) \/ Submit(w),
             LogMoves(job[w].action)
      PROVE rebuilt' = Tables' /\ MarksTyped'
  <2>1. job[w].action \in Actions
    BY <1>0, <1>3, CallHasAction
       DEF ReserveAction, AdmitExactSignedBytes, Submit, SubmitGate, SubmitPrior,
           SubmitTransport, RecordSubmissionAttempt, Answered, Calls
  <2> QED
    BY <1>2, <1>3, <2>1
<1>4. ASSUME NEW w \in Workers, Resume(w), LogResume(job[w].action)
      PROVE rebuilt' = Tables' /\ MarksTyped'
  <2>1. PICK a \in Actions : a = job[w].action
    BY <1>0, <1>4, CallHasAction DEF Resume, Calls
  <2>2. Resumption(a) /\ UNCHANGED <<cycle, carry, bounds, receipts>>
    BY <1>4, <2>1 DEF Resume, Resumption, LedgerRest
  <2>3. state'[a] # state[a]
    BY <2>2 DEF Resumption, ResumeGate, ExecComplete, ExecGood, ExecSound, IntentsTyped
  <2>4. PICK e : e = Resumed(a)
    OBVIOUS
  <2>5. MarkedAt(1) /\ rebuilt' = ReplayInto(rebuilt, <<e>>)
    BY <1>4, <2>1, <2>3, <2>4 DEF LogResume, Appends
  <2>6. PICK db, rc : db = Tables /\ rc = receipts
    OBVIOUS
  <2>7. db = Tab(cycle, carry, state, bounds, resv, rc, marks) /\ RowsTyped
    BY <2>6 DEF Tables, ExecComplete, ExecGood, ExecSound, RowsTyped
  <2>8. One(db, e, 1) = Tab(cycle, carry, state', bounds, resv', rc, marks')
    BY <2>2, <2>4, <2>5, <2>7, ResumptionReplayed
  <2>9. Tables' = Tab(cycle, carry, state', bounds, resv', rc, marks')
    BY <2>2, <2>6 DEF Tables
  <2> QED
    BY <2>5, <2>6, <2>8, <2>9, ReplayOne, MarksType
<1>5. ASSUME NEW a \in Actions, ReconcileExternalAction(a), LogReconcile(a)
      PROVE rebuilt' = Tables' /\ MarksTyped'
  <2>1. MarkedAt(1) /\ rebuilt' = ReplayInto(rebuilt, ReconcileEvents(a))
    BY <1>5 DEF LogReconcile, Appends
  <2>2. ReplayInto(Tables, ReconcileEvents(a)) = Tables'
    BY <1>5, <2>1, ReconcileReplayed
  <2> QED
    BY <2>1, <2>2, MarksType
<1>6. CASE UNCHANGED replayExecVars
  BY <1>1, <1>6 DEF replayExecVars, execVars, vars, ledgerVars
<1>7. CASE \/ \E w \in Workers, a \in Actions :
                 /\ \/ \E call \in Calls : Begin(w, call, a, FALSE)
                    \/ Begin(w, "submit", a, TRUE)
                 /\ LogNoMove
           \/ \E w \in Workers : (RecordExecutionEnvelope(w) \/ Die(w)) /\ LogNoMove
           \/ \E a \in Actions : (Include(a) \/ Deepen(a) \/ Reorganise(a)) /\ LogNoMove
           \/ \E a \in Actions : (RecordExternalReference(a) \/ RecoverRaise(a)) /\ LogNoMove
           \/ (EngageKillSwitch \/ RecoverRead \/ RecoverReturn \/ Crash) /\ LogNoMove
  BY <1>1, <1>7
     DEF LogNoMove, LogNothing, Begin, RecordExecutionEnvelope, Die, Include, Deepen, Reorganise,
         BecomesOnChain, RecordExternalReference, RecoverRaise, EngageKillSwitch, RecoverRead,
         RecoverReturn, Crash, vars, ledgerVars
<1>8. CASE \E a \in Actions : /\ \/ RecordChainObservation(a) \/ CompleteSettlement(a)
                                 \/ Abandon(a) \/ RecoverStep(a)
                              /\ LogMoves(a)
  BY <1>2, <1>8
<1> QED
  BY <1>3, <1>4, <1>5, <1>6, <1>7, <1>8 DEF ReplayExecNext
-----------------------------------------------------------------------------
(* The execution rows bear each other out.                                    *)

\* A conclusion is written once, by the reconciliation of its action.
LEMMA StepReconciles ==
    ASSUME [ExecNext]_execVars
    PROVE UNCHANGED recon \/ \E a \in Actions : ReconcileExternalAction(a) /\ ReconcileFirst(a)
BY DEF ExecNext, execVars, vars, ledgerVars, Begin, ReserveAction, RecordExecutionEnvelope,
       AdmitExactSignedBytes, Submit, SubmitGate, SubmitPrior, SubmitTransport,
       RecordSubmissionAttempt, Resume, Die, RecordChainObservation, ReconcileExternalAction,
       ReconcileAgain, CompleteSettlement, Abandon, Transition, Include, Deepen, Reorganise,
       BecomesOnChain, EngageKillSwitch, OtherProcess, Recovery, RecoverRead, RecoverStep,
       RecoverRaise, RecoverReturn, Crash, RecordExternalReference, LedgerRest

LEMMA ConclusionStays ==
    ASSUME ReconTyped, [ExecNext]_execVars, NEW b \in Actions, recon[b] # "NONE"
    PROVE recon'[b] = recon[b]
BY StepReconciles DEF ReconTyped, ReconcileFirst

\* A provider on record saw a reverted transaction reverted.
SawReverted(a) == \E r \in obs[a] : r.presence = "INCLUDED" /\ r.facts.status = "REVERTED"

LEMMA RevertedIsSeen ==
    ASSUME ChainSound, NEW a \in Actions, VerdictOf(a) = "REVERTED"
    PROVE SawReverted(a)
<1>1. Included(Latest(obs[a])) # {} /\ ~Settled(Included(Latest(obs[a])))
  BY VerdictMeans DEF VerdictOf
<1>2. PICK r \in Included(Latest(obs[a])) : r.facts.status # "SUCCESS"
  BY <1>1 DEF Settled
<1>3. r \in obs[a] /\ r.presence = "INCLUDED"
  BY <1>2, LatestIsRecorded DEF Included, Latest, ChainSound
<1>4. r.facts \in TxFacts
  <2>1. r \in Reading
    BY <1>3 DEF ChainSound, ChainTyped
  <2>2. r.facts # NoFacts
    BY <1>3 DEF ChainSound, ReadingsTrue
  <2>3. r.facts \in TxFacts \cup {NoFacts}
    BY <2>1 DEF Reading
  <2> QED
    BY <2>2, <2>3
<1> QED
  BY <1>2, <1>3, <1>4, FactsType DEF SawReverted, ReceiptStatus

LEMMA StepReverted ==
    ASSUME ExecComplete, RevertedBound, [ExecNext]_execVars
    PROVE RevertedBound'
<1> SUFFICES ASSUME NEW b \in Actions, recon'[b] = "REVERTED"
             PROVE origin'[b] # "NONE" /\ SawReverted(b)'
  BY DEF RevertedBound, SawReverted
<1>1. ExecSound /\ ChainSound /\ ReconTyped
  BY DEF ExecComplete, ExecGood, ExecSound
<1>2. origin[b] # "NONE" /\ SawReverted(b)
  <2>1. CASE recon[b] = "REVERTED"
    BY <2>1 DEF RevertedBound, SawReverted
  <2>2. CASE recon[b] # "REVERTED"
    <3>1. PICK a \in Actions : ReconcileExternalAction(a) /\ ReconcileFirst(a)
      BY <2>2, StepReconciles
    <3>2. a = b /\ VerdictOf(a) = "REVERTED"
      BY <1>1, <2>2, <3>1 DEF ReconcileFirst, ReconTyped
    <3> QED
      BY <1>1, <3>1, <3>2, RevertedIsSeen DEF ReconcileExternalAction
  <2> QED
    BY <2>1, <2>2
<1>3. origin'[b] # "NONE"
  BY <1>1, <1>2, StepOrigin
<1>4. obs[b] \subseteq obs'[b]
  BY <1>1, StepReading DEF ReadingKept, ChainSound, ChainTyped
<1> QED
  BY <1>2, <1>3, <1>4 DEF SawReverted

\* An envelope is never taken back.
LEMMA StepEnvelope ==
    ASSUME JobsTyped, envelope \in [Actions -> BOOLEAN], [ExecNext]_execVars
    PROVE /\ envelope' \in [Actions -> BOOLEAN]
          /\ \A b \in Actions : envelope[b] => envelope'[b]
<1>1. CASE \E w \in Workers : RecordExecutionEnvelope(w)
  BY <1>1, CallHasAction DEF RecordExecutionEnvelope, Calls
<1>2. CASE UNCHANGED envelope
  BY <1>2
<1> QED
  BY <1>1, <1>2
     DEF ExecNext, execVars, executionVars, Begin, ReserveAction, RuntimeRest,
         AdmitExactSignedBytes, Submit, SubmitGate, SubmitPrior, SubmitTransport,
         RecordSubmissionAttempt, Resume, Die, RecordChainObservation, ReconcileExternalAction,
         CompleteSettlement, Abandon, Include, Deepen, Reorganise, BecomesOnChain,
         EngageKillSwitch, OtherProcess

\* Bytes are admitted for an action that has its envelope.
LEMMA StepSigned ==
    ASSUME ExecSound, [ExecNext]_execVars, NEW b \in Actions, origin'[b] = "SIGNED"
    PROVE origin[b] = "SIGNED" \/ envelope[b]
<1>1. CASE UNCHANGED origin
  BY <1>1
<1>2. CASE \E w \in Workers : AdmitExactSignedBytes(w)
  <2>1. PICK w \in Workers : AdmitExactSignedBytes(w)
    BY <1>2
  <2>2. PICK a \in Actions : a = job[w].action
    BY <2>1, CallHasAction DEF AdmitExactSignedBytes, ExecSound, Calls
  <2>3. envelope[a] /\ origin' = [origin EXCEPT ![a] = "SIGNED"]
    BY <2>1, <2>2 DEF AdmitExactSignedBytes
  <2> QED
    BY <2>3 DEF ExecSound, RecoveryTypeOK
<1>3. CASE \E a \in Actions : RecordExternalReference(a)
  BY <1>3 DEF RecordExternalReference, ExecSound, RecoveryTypeOK
<1> QED
  BY <1>1, <1>2, <1>3
     DEF ExecNext, execVars, vars, Begin, ReserveAction, RecordExecutionEnvelope,
         Submit, SubmitGate, SubmitPrior, SubmitTransport, RecordSubmissionAttempt, Resume, Die,
         RecordChainObservation, ReconcileExternalAction, CompleteSettlement, Abandon, Include,
         Deepen, Reorganise, BecomesOnChain, EngageKillSwitch, OtherProcess, Recovery,
         RecoverRead, RecoverStep, RecoverRaise, RecoverReturn, Crash

\* A recovery by terminal chain truth is of a conclusion on record.
Recoveries == [action: Actions, to: {"RECONCILED", "REJECTED"}]
Terminal(e) ==
    \/ e.to = "RECONCILED" /\ recon[e.action] = "SETTLED"
    \/ e.to = "REJECTED" /\ recon[e.action] = "REVERTED"

LEMMA RecoveryIsTerminal ==
    ASSUME ExecComplete, NEW a \in Actions, ReconcileExternalAction(a),
           state[a] = "SAFE_HALT", state'[a] # "SAFE_HALT"
    PROVE \/ state'[a] = "RECONCILED" /\ recon'[a] = "SETTLED"
          \/ state'[a] = "REJECTED" /\ recon'[a] = "REVERTED"
<1>0. IntentsTyped /\ ReconTyped
  BY DEF ExecComplete, ExecGood, ExecSound
<1>1. CASE ReconcileFirst(a)
  BY <1>0, <1>1
     DEF ReconcileFirst, SettledEffect, RevertedEffect, RecoverSafeHalt, IntentsTyped, ReconTyped
<1>2. CASE ReconcileAgain(a)
  <2>1. \/ RecoverSafeHalt(a, "RECONCILED") /\ recon[a] = "SETTLED"
        \/ RecoverSafeHalt(a, "REJECTED") /\ recon[a] = "REVERTED"
    BY <1>0, <1>2, AgainIsSame DEF ReconcileAgain, ReconTyped
  <2> QED
    BY <1>0, <1>2, <2>1 DEF ReconcileAgain, RecoverSafeHalt, IntentsTyped
<1> QED
  BY <1>1, <1>2 DEF ReconcileExternalAction

LEMMA StepRecoveries ==
    ASSUME ExecComplete, recoveries \subseteq Recoveries, \A e \in recoveries : Terminal(e),
           [ReplayExecNext]_replayExecVars
    PROVE recoveries' \subseteq Recoveries /\ \A e \in recoveries' : Terminal(e)'
<1>1. ASSUME NEW e \in recoveries
      PROVE Terminal(e)'
  <2>1. e \in Recoveries /\ Terminal(e) /\ ReconTyped
    BY DEF ExecComplete, ExecGood, ExecSound
  <2>2. e.action \in Actions /\ recon[e.action] # "NONE"
    BY <2>1 DEF Recoveries, Terminal
  <2>3. recon'[e.action] = recon[e.action]
    BY <2>1, <2>2, ConclusionStays, ReplayExecStepIsExecStep
  <2> QED
    BY <2>1, <2>3 DEF Terminal
<1>2. CASE UNCHANGED recoveries
  BY <1>1, <1>2
<1>3. ASSUME NEW a \in Actions, ReconcileExternalAction(a), LogReconcile(a)
      PROVE recoveries' \subseteq Recoveries /\ \A e \in recoveries' : Terminal(e)'
  <2>1. CASE state[a] = "SAFE_HALT" /\ state'[a] # "SAFE_HALT"
    <3>1. PICK e : e = [action |-> a, to |-> state'[a]]
      OBVIOUS
    <3>2. recoveries' = recoveries \cup {e}
      BY <1>3, <2>1, <3>1 DEF LogReconcile
    <3>3. e \in Recoveries /\ Terminal(e)'
      BY <1>3, <2>1, <3>1, RecoveryIsTerminal DEF Recoveries, Terminal
    <3> QED
      BY <1>1, <3>2, <3>3
  <2>2. CASE ~(state[a] = "SAFE_HALT" /\ state'[a] # "SAFE_HALT")
    BY <1>1, <1>3, <2>2 DEF LogReconcile
  <2> QED
    BY <2>1, <2>2
<1> QED
  BY <1>2, <1>3 DEF ReplayExecNext, replayExecVars, LogMoves, LogResume, LogNoMove

-----------------------------------------------------------------------------
(* The tables of the runtime and its log never diverge.                       *)

ReplayExecSound ==
    /\ ExecComplete /\ MarksTyped /\ rebuilt = Tables
    /\ RevertedBound /\ envelope \in [Actions -> BOOLEAN] /\ SignedBound
    /\ recoveries \subseteq Recoveries /\ \A e \in recoveries : Terminal(e)

LEMMA InitReplayExec == ReplayExecInit => ReplayExecSound
<1> SUFFICES ASSUME ReplayExecInit
             PROVE ReplayExecSound
  OBVIOUS
<1>1. ExecComplete
  BY InitComplete DEF ReplayExecInit
<1>2. MarksTyped
  BY DEF ReplayExecInit, MarksTyped, NoMarks
<1>3. rebuilt = Tables
  BY DEF ReplayExecInit, ExecInit, RuntimeInit, EmptyLedger, Tables, Tab
<1>4. /\ RevertedBound /\ envelope \in [Actions -> BOOLEAN] /\ SignedBound
      /\ recoveries \subseteq Recoveries /\ \A e \in recoveries : Terminal(e)
  BY DEF ReplayExecInit, ExecInit, RuntimeInit, RevertedBound, SignedBound
<1> QED
  BY <1>1, <1>2, <1>3, <1>4 DEF ReplayExecSound

LEMMA StepReplayExec ==
    ASSUME ReplayExecSound, [ReplayExecNext]_replayExecVars
    PROVE ReplayExecSound'
<1>1. [ExecNext]_execVars /\ ExecSound /\ JobsTyped
  BY ReplayExecStepIsExecStep DEF ReplayExecSound, ExecComplete, ExecGood, ExecSound
<1>2. ExecComplete'
  BY <1>1, StepComplete DEF ReplayExecSound
<1>3. rebuilt' = Tables' /\ MarksTyped'
  BY ReplayFollows DEF ReplayExecSound
<1>4. RevertedBound'
  BY <1>1, StepReverted DEF ReplayExecSound
<1>5. (envelope \in [Actions -> BOOLEAN])' /\ \A b \in Actions : envelope[b] => envelope'[b]
  BY <1>1, StepEnvelope DEF ReplayExecSound
<1>6. SignedBound'
  BY <1>1, <1>5, StepSigned DEF ReplayExecSound, SignedBound
<1>7. recoveries' \subseteq Recoveries /\ \A e \in recoveries' : Terminal(e)'
  BY StepRecoveries DEF ReplayExecSound
<1> QED
  BY <1>2, <1>3, <1>4, <1>5, <1>6, <1>7 DEF ReplayExecSound

LEMMA SoundReplays ==
    ASSUME ReplayExecSound
    PROVE ExecutionReplays
<1>1. ReplayEqualsTables
  BY DEF ReplayExecSound, ReplayEqualsTables, Tables, Tab
<1>2. \A a \in Actions : recon[a] = "SETTLED" => ReceiptsOf(a) # {}
  BY DEF ReplayExecSound, ExecComplete, ConclusionsTrue, ConclusionTrue
<1>3. RecoveriesBound
  BY <1>2 DEF ReplayExecSound, RecoveriesBound, Recoveries, Terminal
<1>4. SettlementBound
  BY <1>2 DEF ReplayExecSound, ExecComplete, AccountedSettled, SettlementBound, HasSettledReceipt
<1> QED
  BY <1>1, <1>3, <1>4 DEF ReplayExecSound, ExecutionReplays

\* assert_execution_replay_equivalence (execution_replay.py) never fails on a database
\* the runtime wrote: for any actions, callers and chain, in any order of submissions,
\* crashes, recoveries, resumptions and reconciliations, the log replays to the tables
\* and every execution row is borne out by the rows and events it stands on.
THEOREM ExecutionReplayCorrect == ReplayExecSpec => []ExecutionReplays
<1>1. ReplayExecInit => ReplayExecSound
  BY InitReplayExec
<1>2. ReplayExecSound /\ [ReplayExecNext]_replayExecVars => ReplayExecSound'
  BY StepReplayExec
<1>3. ReplayExecSound => ExecutionReplays
  BY SoundReplays
<1> QED
  BY <1>1, <1>2, <1>3, PTL DEF ReplayExecSpec

=============================================================================
