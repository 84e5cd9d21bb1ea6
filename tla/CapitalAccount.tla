---------------------------- MODULE CapitalAccount ----------------------------
(***************************************************************************)
(* What the ledger promises of capital, without its tables: each order     *)
(* belongs to an account with a limit; it is given a size once; it takes   *)
(* its size from the account at most once and only when it fits beside     *)
(* everything the account's orders hold, have spent or may have spent; and *)
(* only what is held can be spent, frozen or given back.  Frozen capital   *)
(* stays frozen.                                                           *)
(***************************************************************************)
EXTENDS Naturals, FiniteSetsExt

CONSTANTS
    Orders,
    AccountOf(_),       \* the account of an order
    LimitOf(_)          \* the most an account's orders may hold or have spent

VARIABLES
    size,               \* each order's amount, 0 until it is asked for
    hold                \* what the order has done with it

accountVars == <<size, hold>>

Taken(o) == IF hold[o] \in {"HELD", "SPENT", "FROZEN"} THEN size[o] ELSE 0
TakenFrom(account) == MapThenSumSet(Taken, {o \in Orders : AccountOf(o) = account})

Ask(o) ==
    /\ size[o] = 0
    /\ size'[o] \in Nat \ {0}
    /\ size' = [size EXCEPT ![o] = size'[o]]
    /\ UNCHANGED hold

Become(o, from, to) ==
    /\ hold[o] = from
    /\ hold' = [hold EXCEPT ![o] = to]
    /\ UNCHANGED size

Hold(o) ==
    /\ TakenFrom(AccountOf(o)) + size[o] <= LimitOf(AccountOf(o))
    /\ Become(o, "FREE", "HELD")

Spend(o) == Become(o, "HELD", "SPENT")
Freeze(o) == Become(o, "HELD", "FROZEN")
GiveBack(o) == Become(o, "HELD", "RETURNED")

AccountInit ==
    /\ size = [o \in Orders |-> 0]
    /\ hold = [o \in Orders |-> "FREE"]

AccountNext == \E o \in Orders : Ask(o) \/ Hold(o) \/ Spend(o) \/ Freeze(o) \/ GiveBack(o)

AccountSpec == AccountInit /\ [][AccountNext]_accountVars
=============================================================================
