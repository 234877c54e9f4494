---------------------------- MODULE Reconciliation ----------------------------
(***************************************************************************)
(* Wallets, wallet transactions and portfolios as deposits, withdrawals    *)
(* and trades write them, and the two nightly jobs that check the books,   *)
(* ReconcileWallets and VerifyTradeSettlements.  Neither job uses a        *)
(* transaction: each query sees what has committed by then.                *)
(*                                                                         *)
(* Here wallet_transactions keeps its rows, which Exchange sums up, and a  *)
(* trade is the one step of its commit.  A deposit or withdrawal may have  *)
(* digits beyond the last one stored: it is counted in 1/Scale units.      *)
(***************************************************************************)
EXTENDS OrderBook, Sums, FiniteSetsExt, Bags

CONSTANTS
    Users,
    Amounts,      \* what users deposit and withdraw, in 1/Scale units
    TradeInputs,  \* the trades the engine may execute
    InitBalance,
    InitHolding,
    Precision,    \* 2^64: a big.Float of 64 bits is off by up to 1/Precision of the number
    MaxRecords,   \* bound: rows of wallet_transactions
    Faults        \* {"db"}: a query of a job may fail

Holding == [quantity : Nat, average : Nat]

ASSUME ReconciliationConstants ==
    /\ Amounts \subseteq Nat \ {0}
    /\ TradeInputs \subseteq [buyer : Users, seller : Users, buyOrder : Nat, sellOrder : Nat,
                              price : Nat \ {0}, quantity : Nat \ {0}]
    /\ \A t \in TradeInputs : t.buyer # t.seller
    /\ InitBalance \in [Users -> Nat]
    /\ InitHolding \in [Users -> Holding]
    /\ Precision \in Nat \ {0}
    /\ MaxRecords \in Nat

VARIABLES
    balance,    \* wallets.balance
    holding,    \* portfolios
    records,    \* wallet_transactions, a bag; the order is 0 for what is not a trade
    trades,     \* the trades table
    reconcile,  \* ReconcileWallets: pc, balances fetched, wallets to do, wallets reported
    verify,     \* VerifyTradeSettlements: pc, sides to do, reported; history: whose query failed
    drift,      \* history: by how many units rounding may have moved a balance off its records
    paid        \* history: lowest and highest price paid since the holding was last empty

tables == <<balance, holding, records, trades>>
history == <<drift, paid>>
vars == <<tables, reconcile, verify, history>>

Record(u, type, amount, order) ==
    [user |-> u, type |-> type, amount |-> amount, order |-> order]

NoReconcile == [pc |-> "idle", fetched |-> InitBalance, todo |-> {}, reported |-> {}]

NoVerify == [pc |-> "idle", todo |-> {}, reported |-> {}, failed |-> {}]

Init ==
    /\ balance = InitBalance
    /\ holding = InitHolding
    /\ records = EmptyBag
    /\ trades = {}
    /\ reconcile = NoReconcile
    /\ verify = NoVerify
    /\ drift = [u \in Users |-> 0]
    /\ paid = [u \in Users |-> [low |-> InitHolding[u].average, high |-> InitHolding[u].average]]

-------------------------------------------------------------------------------
(* Numbers of 64 bits, as the wallet service and the jobs use them.  Each parse  *)
(* and each operation rounds to the nearest such number and adds up to           *)
(* n/Precision to the error of its result n.  Errors are counted exactly, in     *)
(* 1/Unit of a unit of money: an n in 1/Scale units is n * Precision of these,   *)
(* and one rounding of it is off by up to n.  The engine works with 128 bits,    *)
(* exactly but for ties.                                                         *)

Unit == Scale * Precision

(* formatAmount of a number computed as x with this error: the units within half *)
(* a unit of a number within the error of x.                                     *)
formatAmount(x, error) ==
    {u \in ((x - error) \div Unit)..((x + error) \div Unit + 1) :
        /\ 2 * (x - error - u * Unit) <= Unit
        /\ 2 * (u * Unit - x - error) <= Unit}

(* The print of a number n that has been parsed and nothing else. *)
Parsed(n) == formatAmount(n * Precision, n)

(* How many units apart the outcomes are. *)
Spread(outcomes) == Cardinality(outcomes) - 1

-------------------------------------------------------------------------------
(* What commits *)

Write(rows) ==
    /\ BagCardinality(records) + Cardinality(rows) <= MaxRecords
    /\ records' = records (+) SetToBag(rows)

(* The wallet of u gets one of these balances, a row one of these amounts. *)
Book(u, type, balances, amounts) ==
    /\ \E b \in balances \cap Nat : balance' = [balance EXCEPT ![u] = b]
    /\ \E a \in amounts : Write({Record(u, type, a, 0)})
    /\ drift' = [drift EXCEPT ![u] = @ + Spread(balances) + Spread(amounts)]
    /\ UNCHANGED <<holding, trades, reconcile, verify, paid>>

(* The balance and the amount are parsed, which together is off by up to their sum, *)
(* and added, which adds as much.                                                   *)
Deposit(u, amount) ==
    LET new == balance[u] * Scale + amount
    IN  Book(u, "DEPOSIT", formatAmount(new * Precision, 2 * new), Parsed(amount))

\* Mutant of Withdraw: what is recorded has not been rounded like the balance.
WithdrawFloored(u, amount) ==
    /\ amount <= balance[u] * Scale
    /\ Book(u, "WITHDRAWAL", {balance[u] - amount \div Scale}, Parsed(amount))

(* Two numbers are parsed and subtracted.  An amount beyond the balance gets   *)
(* through when both come out as one number, which is then what is recorded.   *)
Withdraw(u, amount) ==
    LET old == balance[u] * Scale
        error == old + amount + (old - amount)
    IN  IF amount < old
        THEN Book(u, "WITHDRAWAL", formatAmount((old - amount) * Precision, error), Parsed(amount))
        ELSE /\ (amount - old) * Precision <= old + amount
             /\ Book(u, "WITHDRAWAL", {0}, Parsed(old))

\* Mutant of TradeRecords: the seller's credit is not recorded.
TradeRecordsOneSided(t, amount) == {Record(t.buyer, "WITHDRAWAL", amount, t.buyOrder)}

(* The two wallet transactions of a trade. *)
TradeRecords(t, amount) ==
    {Record(t.buyer, "WITHDRAWAL", amount, t.buyOrder),
     Record(t.seller, "DEPOSIT", amount, t.sellOrder)}

\* Mutant of UpsertBuyerHolding: the new average is the mean of the two prices.
UpsertBuyerHoldingUnweighted(h, quantity, price) ==
    [quantity |-> h.quantity + quantity, average |-> (h.average + price) \div 2]

(* The average price is weighted by quantities and rounded half up by the column. *)
UpsertBuyerHolding(h, quantity, price) ==
    LET total == h.quantity + quantity
        value == h.quantity * h.average + quantity * price
    IN  [quantity |-> total, average |-> (2 * value + total) \div (2 * total)]

ReduceSellerHolding(h, quantity) == [h EXCEPT !.quantity = @ - quantity]

(* The range of prices paid, which starts anew with an empty holding. *)
PaidWith(u, price) ==
    IF holding[u].quantity = 0 THEN [low |-> price, high |-> price]
    ELSE [low |-> Min({paid[u].low, price}), high |-> Max({paid[u].high, price})]

(* executeTrade commits: trade, balances, wallet transactions and holdings in one *)
(* step.  A negative balance rolls it back, and so does a negative holding.       *)
ExecuteTrade(t) ==
    LET cost == t.price * t.quantity
        debits == fmt8f(balance[t.buyer] * Scale - cost)
        credits == fmt8f(balance[t.seller] * Scale + cost)
    IN  /\ t \notin trades
        /\ cost <= balance[t.buyer] * Scale
        /\ t.quantity <= holding[t.seller].quantity
        /\ trades' = trades \cup {t}
        /\ \E b \in debits, s \in credits :
              balance' = [balance EXCEPT ![t.buyer] = b, ![t.seller] = s]
        /\ \E amount \in fmt8f(cost) : Write(TradeRecords(t, amount))
        /\ holding' = [holding EXCEPT
                          ![t.buyer] = UpsertBuyerHolding(@, t.quantity, t.price),
                          ![t.seller] = ReduceSellerHolding(@, t.quantity)]
        /\ drift' = [drift EXCEPT ![t.buyer] = @ + Spread(debits) + Spread(fmt8f(cost)),
                                  ![t.seller] = @ + Spread(credits) + Spread(fmt8f(cost))]
        /\ paid' = [paid EXCEPT ![t.buyer] = PaidWith(t.buyer, t.price)]
        /\ UNCHANGED <<reconcile, verify>>

-------------------------------------------------------------------------------
(* ReconcileWallets *)

(* One SELECT reads all balances.  Cron starts the jobs an hour apart, but an admin *)
(* may start either at any time.                                                    *)
ReconcileFetch ==
    /\ reconcile.pc = "idle"
    /\ reconcile' = [pc |-> "sum", fetched |-> balance, todo |-> Users, reported |-> {}]
    /\ UNCHANGED <<tables, verify, history>>

(* The rows of u of these types, and the amount each content of a row adds up to. *)
AmountsOf(rows, u, types) ==
    [rec \in {r \in BagToSet(rows) : r.user = u /\ r.type \in types} |-> rec.amount * rows[rec]]

RecordSum(u) == Total(AmountsOf(records, u, {"DEPOSIT"})) - Total(AmountsOf(records, u, {"WITHDRAWAL"}))

(* The opening balances stand for the records of the time before. *)
Expected(u) == InitBalance[u] + RecordSum(u)

(* Whether the job may find x and y more than 0.00000001 apart.  Both are parsed *)
(* and subtracted, and the limit is parsed too, so that one unit apart can go    *)
(* either way, and more can if the numbers are beyond 64 bits.                   *)
Mismatch(x, y) ==
    LET apart == Max({x, y}) - Min({x, y})
        error == 2 * Max({x, y, apart}) + 1
    IN  {differ \in BOOLEAN : IF differ THEN apart > 0
                              ELSE apart * Precision <= Precision + error}

(* Then one SELECT per wallet sums its transactions; one that fails is skipped. *)
ReconcileWallet(u) ==
    /\ reconcile.pc = "sum"
    /\ u \in reconcile.todo
    /\ \/ \E differ \in Mismatch(reconcile.fetched[u], Expected(u)) :
             reconcile' = [reconcile EXCEPT !.todo = @ \ {u},
                              !.reported = IF differ THEN @ \cup {u} ELSE @]
       \/ "db" \in Faults /\ reconcile' = [reconcile EXCEPT !.todo = @ \ {u}]
    /\ UNCHANGED <<tables, verify, history>>

ReconcileEnd ==
    /\ reconcile.pc = "sum"
    /\ reconcile.todo = {}
    /\ reconcile' = NoReconcile
    /\ UNCHANGED <<tables, verify, history>>

-------------------------------------------------------------------------------
(* VerifyTradeSettlements *)

(* One SELECT reads all trades. *)
VerifyFetch ==
    /\ verify.pc = "idle"
    /\ verify' = [pc |-> "check", todo |-> trades \X {"buyer", "seller"}, reported |-> {},
                  failed |-> {}]
    /\ UNCHANGED <<tables, reconcile, history>>

(* The description of order p contains "order #<o>": it does so too when the *)
(* digits of o begin those of p.                                             *)
Describes(p, o) == \E k \in 0..3 : p \div (10^k) = o

(* A wallet transaction of this user, type and amount that names the order. *)
Settled(u, type, amount, order) ==
    \E rec \in BagToSet(records) : /\ rec.user = u /\ rec.type = type
                                   /\ rec.amount = amount
                                   /\ Describes(rec.order, order)

SideSettled(t, side, amount) ==
    IF side = "buyer" THEN Settled(t.buyer, "WITHDRAWAL", amount, t.buyOrder)
    ELSE Settled(t.seller, "DEPOSIT", amount, t.sellOrder)

(* The cost is computed anew with 64 bits: two numbers are parsed and multiplied. *)
costStr(t) ==
    LET cost == t.price * t.quantity IN formatAmount(cost * Precision, 3 * cost)

(* A query that fails counts as a mismatch. *)
VerifySide(t, side) ==
    /\ verify.pc = "check"
    /\ <<t, side>> \in verify.todo
    /\ side = "seller" => <<t, "buyer">> \notin verify.todo
    /\ \E amount \in costStr(t), failed \in {FALSE} \cup {"db" \in Faults} :
          verify' = [verify EXCEPT !.todo = @ \ {<<t, side>>},
                        !.reported = IF failed \/ ~SideSettled(t, side, amount)
                                     THEN @ \cup {<<t, side>>} ELSE @,
                        !.failed = IF failed THEN @ \cup {<<t, side>>} ELSE @]
    /\ UNCHANGED <<tables, reconcile, history>>

VerifyEnd ==
    /\ verify.pc = "check"
    /\ verify.todo = {}
    /\ verify' = NoVerify
    /\ UNCHANGED <<tables, reconcile, history>>

Next ==
    \/ \E u \in Users, amount \in Amounts : Deposit(u, amount) \/ Withdraw(u, amount)
    \/ \E t \in TradeInputs : ExecuteTrade(t)
    \/ ReconcileFetch
    \/ \E u \in Users : ReconcileWallet(u)
    \/ ReconcileEnd
    \/ VerifyFetch
    \/ \E t \in TradeInputs, side \in {"buyer", "seller"} : VerifySide(t, side)
    \/ VerifyEnd

Spec == Init /\ [][Next]_vars

-------------------------------------------------------------------------------
(* Properties *)

(* A side of a trade that the job reports as "Missing/mismatched" is one whose  *)
(* own query failed, or one whose cost lies so close to half of the last digit  *)
(* that the three roundings of the job's 64 bits, each up to 2^-64 of the cost, *)
(* may print it differently: never one that committed while the job ran, and    *)
(* never one whose order number begins like that of another.                    *)
SettlementsVerified ==
    \A s \in verify.reported \ verify.failed : Spread(costStr(s[1])) > 0

(* A wallet that ReconcileWallets reports has changed between the job's two     *)
(* queries, unless rounding has moved its balance before.  No other alert means *)
(* that a balance and its transactions disagree.                                *)
ReportedWalletsMoved ==
    [][\A u \in reconcile'.reported \ reconcile.reported :
          balance[u] # reconcile.fetched[u] \/ drift[u] > 0]_vars

(* However deposits, withdrawals and trades of a wallet follow each other, its  *)
(* balance is what its transactions add up to, give or take the units by which  *)
(* the prints of the two may have differed: one for a number so near to half of *)
(* the last digit that an error of 64 bits reaches it, more only for balances   *)
(* beyond 2^62 units.  Whole amounts below that never drift.                    *)
BooksAgree ==
    \A u \in Users : /\ balance[u] - Expected(u) <= drift[u]
                     /\ Expected(u) - balance[u] <= drift[u]

(* The average price of a holding lies between the lowest and the highest price *)
(* paid since the holding was last empty: what was held before it was sold out  *)
(* leaves no trace, although the row and its old average stay in the table.     *)
AverageWithinPaid ==
    \A u \in Users : holding[u].quantity > 0 =>
        holding[u].average \in paid[u].low..paid[u].high
===============================================================================
