------------------------------- MODULE RowLocks -------------------------------
(***************************************************************************)
(* The row locks of the transactions that share orders, wallets and        *)
(* holdings: executeTrade, CancelOrder, Deposit, Withdraw and the UPDATE   *)
(* of ExpireStaleOrders.  Exchange lets each transaction take effect in    *)
(* one step; here a transaction takes its locks one by one, waits for      *)
(* those that are taken, and gives them all up when it ends.               *)
(*                                                                         *)
(* Foreign keys also lock the rows they refer to, in a mode that conflicts *)
(* only with the locks the same transaction holds already.                 *)
(***************************************************************************)
EXTENDS Integers, Sequences, FiniteSets

CONSTANTS
    Users, OrderIds,
    Owner,        \* Owner[o]: the user who placed order o
    BuyOrders,    \* the orders that buy; the others sell
    Engines,      \* matching goroutines: one per running API process
    Sessions,     \* HTTP handlers in CancelOrder, Deposit or Withdraw
    Jobs,         \* runs of ExpireStaleOrders
    Nobody

Actors == Engines \cup Sessions \cup Jobs

ASSUME LockConstants ==
    /\ Owner \in [OrderIds -> Users]
    /\ OrderIds \subseteq Nat /\ IsFiniteSet(OrderIds)
    /\ BuyOrders \subseteq OrderIds
    /\ Nobody \notin Actors
    /\ Engines \cap Sessions = {}
    /\ Engines \cap Jobs = {}
    /\ Sessions \cap Jobs = {}

OrderRow(o)   == <<"order", o>>
WalletRow(u)  == <<"wallet", u>>
HoldingRow(u) == <<"holding", u>>

Rows == {OrderRow(o) : o \in OrderIds} \cup {WalletRow(u) : u \in Users}
        \cup {HoldingRow(u) : u \in Users}

VARIABLES
    active,  \* the actors with a transaction open
    plan,    \* plan[a]: the rows its transaction has still to lock, in order
    holder   \* holder[r]: the actor whose transaction holds the lock on row r

locking == <<active, plan, holder>>

LockInit ==
    /\ active = {}
    /\ plan = [a \in Actors |-> <<>>]
    /\ holder = [r \in Rows |-> Nobody]

-------------------------------------------------------------------------------
(* The lower order id first, then the buyer's wallet, the seller's wallet, the *)
(* buyer's holding and the seller's holding.                                   *)
TradePlan(b, s) ==
    (IF b > s THEN <<OrderRow(s), OrderRow(b)>> ELSE <<OrderRow(b), OrderRow(s)>>)
    \o <<WalletRow(Owner[b]), WalletRow(Owner[s]), HoldingRow(Owner[b]), HoldingRow(Owner[s])>>

Begin(a, rows) ==
    /\ a \notin active
    /\ active' = active \cup {a}
    /\ plan' = [plan EXCEPT ![a] = rows]
    /\ UNCHANGED holder

ExecuteTrade(e, b, s) == Owner[b] # Owner[s] /\ Begin(e, TradePlan(b, s))

\* Mutant of CancelOrder: the order's owner's wallet is locked first.
CancelOrderWalletFirst(a, o) == Begin(a, <<WalletRow(Owner[o]), OrderRow(o)>>)

CancelOrder(a, o) == Begin(a, <<OrderRow(o)>>)

(* Deposit and Withdraw *)
ChangeBalance(a, u) == Begin(a, <<WalletRow(u)>>)

(* One UPDATE over several rows locks them in the order of its scan, which is *)
(* the order of the heap: an update moves a row, so any order can occur.      *)
ScanOrders(S) == {s \in [1..Cardinality(S) -> S] : \A o \in S : \E i \in DOMAIN s : s[i] = o}

ExpireStaleOrders(j, S) ==
    \E s \in ScanOrders(S) : Begin(j, [i \in DOMAIN s |-> OrderRow(s[i])])

Lock(a) ==
    /\ a \in active
    /\ plan[a] # <<>>
    /\ holder[Head(plan[a])] = Nobody
    /\ holder' = [holder EXCEPT ![Head(plan[a])] = a]
    /\ plan' = [plan EXCEPT ![a] = Tail(@)]
    /\ UNCHANGED active

Release(a) ==
    /\ active' = active \ {a}
    /\ plan' = [plan EXCEPT ![a] = <<>>]
    /\ holder' = [r \in Rows |-> IF holder[r] = a THEN Nobody ELSE holder[r]]

Commit(a) ==
    /\ a \in active
    /\ plan[a] = <<>>
    /\ Release(a)

\* Mutant of Rollback: an early return without the rollback.
RollbackForgotten(a) ==
    /\ a \in active
    /\ \E r \in Rows : holder[r] = a
    /\ active' = active \ {a}
    /\ plan' = [plan EXCEPT ![a] = <<>>]
    /\ UNCHANGED holder

(* A check under the locks held so far fails (the order is closed, the balance *)
(* too small, a row is missing): the transaction is rolled back.               *)
Rollback(a) ==
    /\ a \in active
    /\ \E r \in Rows : holder[r] = a
    /\ Release(a)

WaitsFor(a, b) == /\ a \in active /\ plan[a] # <<>>
                  /\ a # b
                  /\ holder[Head(plan[a])] = b

(* The transactions of S wait for each other in circles. *)
Circular(S) == /\ \A a \in S : \E b \in S : WaitsFor(a, b)
               /\ \A b \in S : \E a \in S : WaitsFor(a, b)

(* PostgreSQL's deadlock detector picks one transaction of a circle and aborts *)
(* it: its caller gets an error.                                               *)
DeadlockAbort(a) ==
    /\ \E S \in SUBSET active : a \in S /\ Circular(S)
    /\ Release(a)

LockNext ==
    \/ \E e \in Engines, b \in BuyOrders, s \in OrderIds \ BuyOrders : ExecuteTrade(e, b, s)
    \/ \E a \in Sessions, o \in OrderIds : CancelOrder(a, o)
    \/ \E a \in Sessions, u \in Users : ChangeBalance(a, u)
    \/ \E j \in Jobs, S \in (SUBSET OrderIds) \ {{}} : ExpireStaleOrders(j, S)
    \/ \E a \in Actors : Lock(a) \/ Commit(a) \/ Rollback(a) \/ DeadlockAbort(a)

LockSpec == LockInit /\ [][LockNext]_locking

(* PostgreSQL hands a lock that is free to a transaction waiting for it, and     *)
(* among several that keep asking none waits for ever; it breaks deadlocks; a   *)
(* transaction that has its locks goes on.                                      *)
FairLockSpec ==
    /\ LockSpec
    /\ \A a \in Actors : SF_locking(Lock(a)) /\ WF_locking(Commit(a))
    /\ WF_locking(\E a \in Actors : DeadlockAbort(a))

-------------------------------------------------------------------------------
(* Properties *)

(* Plans and locks are about rows, and are held by actors. *)
LockTypes ==
    /\ active \subseteq Actors
    /\ plan \in [Actors -> Seq(Rows)]
    /\ holder \in [Rows -> Actors \cup {Nobody}]

(* No lock outlives the transaction that took it: every early return of         *)
(* executeTrade rolls back.                                                     *)
LocksHaveOwners == \A r \in Rows : holder[r] \in active \cup {Nobody}

(* Transactions that wait for each other in a circle include two that lock      *)
(* several rows, engines or expiry jobs: no handler of CancelOrder, Deposit or   *)
(* Withdraw is ever a reason for a deadlock.                                     *)
DeadlocksNeedTwo ==
    \A S \in (SUBSET Actors) \ {{}} : Circular(S) =>
        \E a, b \in S \cap (Engines \cup Jobs) : a # b

(* README: order rows are locked "in ascending ID order to prevent deadlocks".  *)
(* There is no set of transactions each of which waits for another one of it.   *)
NoDeadlock ==
    \A S \in (SUBSET Actors) \ {{}} : \E a \in S : \A b \in S : ~WaitsFor(a, b)

(* A transaction that was begun ends, be it by the deadlock detector. *)
TransactionsEnd == \A a \in Actors : a \in active ~> a \notin active
===============================================================================
