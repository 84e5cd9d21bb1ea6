---------------------------- MODULE LedgerReplay ----------------------------
(***************************************************************************)
(* The event log of the ledger and its replay (qntyspot/ledger/replay.py). *)
(* Every call of the ledger appends, in its own transaction, the events    *)
(* from which replay_into rebuilds the tables on an empty database, and    *)
(* assert_replay_equivalence demands that both come out the same.          *)
(*                                                                         *)
(* Replaying a log is replaying what precedes its last events and then     *)
(* those, so the module keeps, instead of the log, what replaying it has   *)
(* rebuilt so far.  (The policies are admitted before the first event and  *)
(* the set of reverted actions is that of the whole database: at the time  *)
(* of an event neither is larger than when it is replayed.)                *)
(***************************************************************************)
EXTENDS SpotLedger, Sequences

VARIABLES
    marks,              \* reserved_seq and settled_seq of each reservation
    rebuilt             \* what replaying the log so far gives

replayVars == <<marks, rebuilt>>

\* A sequence number is kept as the place of its event among those of one call;
\* 0 is NULL.
NoMarks == [reserved |-> 0, settled |-> 0]

-----------------------------------------------------------------------------
(* Events. *)

Opened(c, k) == [type |-> "CYCLE_OPENED", cycle |-> c, carry |-> k]
Closed(c, status) == [type |-> "CYCLE_CLOSED", cycle |-> c, status |-> status]
Created(a) == [type |-> "INTENT_CREATED", action |-> a, bounds |-> bounds'[a]]
Moved(a, from, to) == [type |-> "INTENT_TRANSITION", action |-> a, from |-> from, to |-> to]
Received(row) == [type |-> "FILL_RECEIPT_APPENDED", row |-> row]
Resumed(a) == [type |-> "EXACT_BYTES_RESUMED", action |-> a, prior |-> resv[a]]
Recovered(a, to) ==
    [type |-> "CHAIN_TRUTH_RECOVERED", action |-> a, to |-> to, verdict |-> recon'[a]]

-----------------------------------------------------------------------------
(* replay_into, over the tables it has rebuilt so far. *)

EmptyLedger ==
    [ok |-> TRUE,
     cycle |-> [c \in Cycles |-> "NONE"], carry |-> [c \in Cycles |-> NoCarry],
     state |-> [a \in Actions |-> "NONE"], bounds |-> [a \in Actions |-> NoBounds],
     resv |-> [a \in Actions |-> "NONE"], receipts |-> {},
     marks |-> [a \in Actions |-> NoMarks]]

\* ReplayDivergenceError, or a row the target's own schema refuses.
Diverged == [ok |-> FALSE]

ReplayedExposure(db, a) == IF ActionInfo[a].side = "BUY" THEN db.bounds[a].maxInput ELSE 0

ReplayedFilled(db, c, side) ==
    {r \in db.receipts : /\ CycleOf(r.action) = c
                         /\ db.state[r.action] = "FILLED"
                         /\ ActionInfo[r.action].side = side}

\* _replayed_cycle_inventory_atomic
ReplayedInventory(db, c) ==
    LET carriedBy(d) == db.carry[d].amount
    IN db.carry[c].amount
         + TotalOut(ReplayedFilled(db, c, "BUY")) - TotalIn(ReplayedFilled(db, c, "SELL"))
         - MapThenSumSet(carriedBy, {d \in Cycles : db.carry[d].from = c})

\* An opening with a carry is replayed only from a completed source whose intents
\* have all ended, once, and for what the source is found to hold.
CarryAccepted(db, c, k) ==
    /\ k.from # c /\ k.amount > 0
    /\ db.cycle[k.from] = "COMPLETED"
    /\ SameAsset(CycleInfo[k.from].policy, CycleInfo[c].policy)
    /\ \A a \in Actions : CycleOf(a) = k.from /\ db.state[a] # "NONE" =>
          db.state[a] \in TERMINAL_STATES \ {"SAFE_HALT"}
    /\ \A d \in Cycles : db.carry[d].from # k.from
    /\ ReplayedInventory(db, k.from) = k.amount

\* A halted intent holds its capital in quarantine, or held none.
HaltedInReplay(db, a) ==
    /\ db.state[a] = "SAFE_HALT"
    /\ db.resv[a] = IF ReplayedExposure(db, a) = 0 THEN "NONE" ELSE "QUARANTINED"

\* What the replay demands of an event.  The caps are not asked again.
Accepted(db, e) ==
    CASE e.type = "CYCLE_OPENED" ->
            /\ CycleInfo[e.cycle].policy \in admitted
            /\ db.cycle[e.cycle] = "NONE"
            /\ e.carry # NoCarry => CarryAccepted(db, e.cycle, e.carry)
      [] e.type = "CYCLE_CLOSED" -> db.cycle[e.cycle] = "OPEN"
      [] e.type = "INTENT_CREATED" ->
            db.cycle[CycleOf(e.action)] # "NONE" /\ db.state[e.action] = "NONE"
      [] e.type = "INTENT_TRANSITION" ->
            /\ db.state[e.action] = e.from
            /\ e.to \in TRANSITIONS[e.from]
            /\ e.to = "RESERVED" /\ ReplayedExposure(db, e.action) > 0 => db.resv[e.action] = "NONE"
            /\ e.to \in RELEASING_STATES /\ e.from \in EXTERNALLY_AMBIGUOUS_STATES =>
                 ExecutionSurface /\ recon'[e.action] = "REVERTED"
      [] e.type = "FILL_RECEIPT_APPENDED" ->
            db.state[e.row.action] # "NONE" /\ \A r \in db.receipts : r.ref # e.row.ref
      [] e.type = "EXACT_BYTES_RESUMED" ->
            HaltedInReplay(db, e.action) /\ e.prior = db.resv[e.action]
      [] e.type = "CHAIN_TRUTH_RECOVERED" ->
            /\ HaltedInReplay(db, e.action)
            /\ \/ /\ e.to = "RECONCILED" /\ e.verdict = "SETTLED"
                  /\ \E r \in db.receipts : r.action = e.action
               \/ e.to = "REJECTED" /\ e.verdict = "REVERTED" /\ recon'[e.action] = "REVERTED"

\* The status a transition leaves the reservation in.
ReplayedStatus(db, e) ==
    LET held == db.resv[e.action] = "ACTIVE"
    IN CASE e.to = "RESERVED" /\ ReplayedExposure(db, e.action) > 0 -> "ACTIVE"
         [] e.to = "FILLED" /\ held -> "COMMITTED"
         [] e.to \in RELEASING_STATES /\ held -> "RELEASED"
         [] e.to = "SAFE_HALT" /\ held -> "QUARANTINED"
         [] OTHER -> db.resv[e.action]

\* The reservation columns after an event that leaves it with a status.
WithReservation(db, a, status, n) ==
    IF status = db.resv[a] THEN db
    ELSE [db EXCEPT !.resv[a] = status,
                    !.marks[a] = IF status = "ACTIVE" /\ db.resv[a] = "NONE"
                                 THEN [reserved |-> n, settled |-> 0]
                                 ELSE [@ EXCEPT !.settled = IF status = "ACTIVE" THEN 0 ELSE n]]

Applied(db, e, n) ==
    CASE e.type = "CYCLE_OPENED" ->
            [db EXCEPT !.cycle[e.cycle] = "OPEN", !.carry[e.cycle] = e.carry]
      [] e.type = "CYCLE_CLOSED" -> [db EXCEPT !.cycle[e.cycle] = e.status]
      [] e.type = "INTENT_CREATED" ->
            [db EXCEPT !.state[e.action] = "ARMED", !.bounds[e.action] = e.bounds]
      [] e.type = "INTENT_TRANSITION" ->
            [WithReservation(db, e.action, ReplayedStatus(db, e), n) EXCEPT !.state[e.action] = e.to]
      [] e.type = "FILL_RECEIPT_APPENDED" -> [db EXCEPT !.receipts = @ \cup {e.row}]
      [] e.type = "EXACT_BYTES_RESUMED" ->
            [WithReservation(db, e.action, IF db.resv[e.action] = "NONE" THEN "NONE" ELSE "ACTIVE", n)
                EXCEPT !.state[e.action] = "SIGNED"]
      [] e.type = "CHAIN_TRUTH_RECOVERED" ->
            LET freed == IF e.to = "RECONCILED" THEN "ACTIVE" ELSE "RELEASED"
            IN [WithReservation(db, e.action, IF db.resv[e.action] = "NONE" THEN "NONE" ELSE freed, n)
                   EXCEPT !.state[e.action] = e.to]

\* Replaying the events of one call, one after the other.
ReplayInto(db, events) ==
    LET after[n \in 0..Len(events)] ==
            IF n = 0 THEN db
            ELSE IF after[n - 1].ok /\ Accepted(after[n - 1], events[n])
                 THEN Applied(after[n - 1], events[n], n)
                 ELSE Diverged
    IN after[Len(events)]

-----------------------------------------------------------------------------
(* The calls of the ledger, with what they append to the log. *)

\* The sequence numbers a call writes beside the status of a reservation: that of
\* its n-th event, which it is about to append; NULL when the capital is active
\* again.
MarkedAt(n) ==
    marks' = [a \in Actions |->
        CASE resv'[a] = resv[a] -> marks[a]
          [] resv'[a] = "ACTIVE" /\ resv[a] = "NONE" -> [reserved |-> n, settled |-> 0]
          [] resv'[a] = "ACTIVE" /\ resv[a] \notin {"NONE", "ACTIVE"} -> [marks[a] EXCEPT !.settled = 0]
          [] OTHER -> [marks[a] EXCEPT !.settled = n]]

Appends(events) ==
    /\ rebuilt' = ReplayInto(rebuilt, events)
    /\ MarkedAt(1)

LogNothing == UNCHANGED replayVars

LogOpen(c) == Appends(<<Opened(c, NoCarry)>>)
LogClose(c, status) == Appends(<<Closed(c, status)>>)
LogContinue(c, d) == Appends(<<Closed(c, "COMPLETED"), Opened(d, carry'[d])>>)
LogCreate(a) == Appends(<<Created(a)>>)
LogTransition(a, to) == Appends(<<Moved(a, state[a], to)>>)

\* A receipt out of bounds halts its intent: the number beside the reservation is
\* the second event's, taken after the receipt's was appended.
ReceiptEvents(row) ==
    LET a == row.action
    IN <<Received(row)>> \o IF state'[a] = state[a] THEN <<>> ELSE <<Moved(a, state[a], "SAFE_HALT")>>

\* The mutant settles the reservation under the receipt's own number.
LogReceipt_OneNumber(row) ==
    /\ rebuilt' = ReplayInto(rebuilt, ReceiptEvents(row))
    /\ MarkedAt(1)

LogReceipt(row) ==
    /\ rebuilt' = ReplayInto(rebuilt, ReceiptEvents(row))
    /\ MarkedAt(2)

LogInit ==
    /\ marks = [a \in Actions |-> NoMarks]
    /\ rebuilt = EmptyLedger

ReplayInit == LedgerInit /\ LogInit

ReplayNext ==
    \/ \E p \in Policies : AdmitPolicy(p) /\ LogNothing
    \/ \E c \in Cycles : \/ OpenCycle(c) /\ LogOpen(c)
                         \/ ReadInventory(c) /\ LogNothing
    \/ \E c \in Cycles, status \in CycleStatus : CloseCycle(c, status) /\ LogClose(c, status)
    \/ \E c, d \in Cycles : ContinueInventoryIntoSuccessorCycle(c, d) /\ LogContinue(c, d)
    \/ \E a \in Actions : CreateIntent(a) /\ LogCreate(a)
    \/ \E a \in Actions, to \in IntentState : Transition(a, to) /\ LogTransition(a, to)
    \/ \E row \in ReceiptRow : AppendFillReceipt(row) /\ LogReceipt(row)

ReplaySpec == ReplayInit /\ [][ReplayNext]_<<ledgerVars, replayVars>>

-----------------------------------------------------------------------------
(* Properties. *)

\* assert_replay_equivalence, at every commit: no log the ledger can write is
\* refused by the replay, and what it rebuilds is what the tables hold, down to
\* the sequence numbers beside each reservation.
ReplayEqualsTables ==
    rebuilt = [ok |-> TRUE, cycle |-> cycle, carry |-> carry, state |-> state, bounds |-> bounds,
               resv |-> resv, receipts |-> receipts, marks |-> marks]
=============================================================================
