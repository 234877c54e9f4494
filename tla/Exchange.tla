------------------------------- MODULE Exchange -------------------------------
(***************************************************************************)
(* The core of the platform: the order service (PlaceOrder, CancelOrder),  *)
(* the wallet service's Deposit and Withdraw, the order-expiry job and the *)
(* matching engine, all acting on the same PostgreSQL tables, and the      *)
(* bounded Go channel between the order handlers and the engine.           *)
(*                                                                         *)
(* Granularity.  Each SQL transaction takes effect in one step, the step   *)
(* of its commit: every row it reads and then writes is read FOR UPDATE,   *)
(* so nothing it has read can change before it commits.  Every read made   *)
(* outside a transaction (idempotency lookup, balance and holding checks,  *)
(* the engine's re-fetches and its scan of the book) is a step of its own, *)
(* and may be stale by the time its result is used.                        *)
(***************************************************************************)
EXTENDS OrderBook, Sequences

CONSTANTS
    Users,           \* traders
    WalletOwners,    \* the traders whose wallet row exists (Register may fail to make it)
    ActiveAssets,    \* the assets whose status is ACTIVE
    Assets,
    OrderIds,        \* the ids orders.id hands out, in ascending order
    Requests,        \* the PlaceOrder calls clients make
    Inputs,          \* the order inputs a client may send
    Keys,            \* idempotency keys
    EmptyKey,        \* the empty string as a key: not looked up, but stored
    NoKey,           \* no key given (NULL in the column)
    Amounts,         \* the amounts clients deposit and withdraw
    MaxNumeric,      \* the largest value a NUMERIC(20,8) column holds
    Ticks,           \* how far the clock may move from one transaction to the next
    QueueCap,        \* capacity of matchQueue
    InitBalance,     \* opening balances
    InitPortfolios,  \* opening holdings
    Faults,          \* which faults happen: "crash", "db"
    NoOrder,         \* result of a call that has not returned an order
    NoInput          \* input of a call not made yet

ASSUME ConstantsAssumption ==
    /\ WalletOwners \subseteq Users
    /\ ActiveAssets \subseteq Assets
    /\ OrderIds \subseteq Nat
    /\ EmptyKey \in Keys
    /\ NoKey \notin Keys
    /\ Inputs \subseteq [user : Users, asset : Assets, side : Sides, price : Nat,
                         quantity : Nat, key : Keys \cup {NoKey}]
    /\ Amounts \subseteq Nat \ {0}
    /\ MaxNumeric \in Nat
    /\ Ticks \subseteq Nat
    /\ QueueCap \in Nat
    /\ InitBalance \in [WalletOwners -> 0..MaxNumeric]
    /\ DOMAIN InitPortfolios \subseteq Users \X Assets
    /\ InitPortfolios \in [DOMAIN InitPortfolios -> 0..MaxNumeric]
    /\ NoOrder \notin OrderIds
    /\ NoInput \notin Inputs

VARIABLES
    orders,      \* orders table: a function from the ids inserted so far to rows
    trades,      \* trades table, in insertion order
    balance,     \* wallets.balance per owner
    ledger,      \* signed sum of the COMPLETED wallet_transactions per owner
    portfolios,  \* portfolios table: a function from <<user, asset>> to quantity
    queue,       \* matchQueue, the buffered channel of placed orders
    engine,      \* the matching goroutine: pc, incoming and candidate ids
    pc,          \* pc[r]: where PlaceOrder call r is
    input,       \* input[r]: its argument
    began,       \* began[r]: NOW() of its insert transaction
    result,      \* result[r]: the order it returned
    clock,       \* database time
    dropped,     \* history: ids whose enqueue found the channel full
    abandoned    \* history: ids whose matching was given up on an error or a crash

tables == <<orders, trades, balance, ledger, portfolios>>
calls  == <<pc, input, began, result, clock>>
vars   == <<tables, queue, engine, calls, dropped, abandoned>>

Row == [user : Users, asset : Assets, side : Sides, price : Nat \ {0},
        quantity : Nat \ {0}, filled : Nat, status : Statuses,
        key : Keys \cup {NoKey}, createdAt : Nat]

Trade == [buyOrder : OrderIds, sellOrder : OrderIds, price : Nat \ {0},
          quantity : Nat \ {0}]

CallPCs == {"idle", "check", "begin", "insert", "duplicate", "enqueue",
            "returned", "rejected", "failed"}

EnginePCs == {"idle", "fetch", "find", "execute", "recheck", "refetch"}

Idle == [pc |-> "idle", incoming |-> NoOrder, candidate |-> NoOrder]

Placed == DOMAIN orders

Open(o) == isOpen(orders[o].status)

Init ==
    /\ orders = [o \in {} |-> NoOrder]
    /\ trades = <<>>
    /\ balance = InitBalance
    /\ ledger = InitBalance
    /\ portfolios = InitPortfolios
    /\ queue = <<>>
    /\ engine = Idle
    /\ pc = [r \in Requests |-> "idle"]
    /\ input = [r \in Requests |-> NoInput]
    /\ began = [r \in Requests |-> 0]
    /\ result = [r \in Requests |-> NoOrder]
    /\ clock = 0
    /\ dropped = {}
    /\ abandoned = {}

-------------------------------------------------------------------------------
(* OrderService.PlaceOrder *)

Return(r, o) == /\ result' = [result EXCEPT ![r] = o]
                /\ pc' = [pc EXCEPT ![r] = "returned"]

(* GetByIdempotencyKey: the rows of this user with this key. *)
WithKey(u, k) == {o \in Placed : orders[o].user = u /\ orders[o].key = k}

(* PlaceOrder starts: the idempotency lookup, for a key that is given and not empty. *)
PlaceLookup(r, in) ==
    /\ pc[r] = "idle"
    /\ input' = [input EXCEPT ![r] = in]
    /\ LET existing == IF in.key \in {NoKey, EmptyKey} THEN {} ELSE WithKey(in.user, in.key)
       IN  \/ \E o \in existing : Return(r, o)
           \/ /\ existing = {}
              /\ pc' = [pc EXCEPT ![r] = "check"]
              /\ UNCHANGED result
    /\ UNCHANGED <<tables, queue, engine, began, clock, dropped, abandoned>>

\* Mutant of Acceptable: a SELL is accepted from a user with no holding row.
AcceptableNoHolding(in) ==
    /\ in.price > 0 /\ in.quantity > 0
    /\ in.asset \in ActiveAssets
    /\ in.side = "BUY" => /\ in.user \in WalletOwners
                          /\ in.price * in.quantity <= balance[in.user] * Scale

(* parsePosDecimal, the asset's status, checkWalletBalance and checkAssetHolding. *)
Acceptable(in) ==
    /\ in.price > 0 /\ in.quantity > 0
    /\ in.asset \in ActiveAssets
    /\ in.side = "BUY" => /\ in.user \in WalletOwners
                          /\ in.price * in.quantity <= balance[in.user] * Scale
    /\ in.side = "SELL" => /\ <<in.user, in.asset>> \in DOMAIN portfolios
                           /\ in.quantity <= portfolios[<<in.user, in.asset>>]

(* A cost that is the whole balance may come out above it: the product and the *)
(* balance are rounded to binary separately.                                    *)
AtLimit(in) ==
    /\ Inexact
    /\ in.side = "BUY"
    /\ in.user \in WalletOwners
    /\ in.price * in.quantity = balance[in.user] * Scale

(* Nothing is reserved: the check only decides whether the call goes on. *)
PlaceCheck(r) ==
    /\ pc[r] = "check"
    /\ \/ Acceptable(input[r]) /\ pc' = [pc EXCEPT ![r] = "begin"]
       \/ /\ ~Acceptable(input[r]) \/ AtLimit(input[r])
          /\ pc' = [pc EXCEPT ![r] = "rejected"]
    /\ UNCHANGED <<tables, queue, engine, input, began, result, clock, dropped, abandoned>>

(* runTx begins: NOW() in the INSERT is the start time of the transaction.   *)
(* Two transactions may start within one tick of the clock.                  *)
PlaceBegin(r) ==
    /\ pc[r] = "begin"
    /\ \E t \in Ticks : clock' = clock + t
    /\ began' = [began EXCEPT ![r] = clock']
    /\ pc' = [pc EXCEPT ![r] = "insert"]
    /\ UNCHANGED <<tables, queue, engine, input, result, dropped, abandoned>>

NextId(o) == /\ o \in OrderIds \ Placed
             /\ \A i \in OrderIds \ Placed : o <= i

NewRow(r) == [user |-> input[r].user, asset |-> input[r].asset, side |-> input[r].side,
              price |-> input[r].price, quantity |-> input[r].quantity, filled |-> 0,
              status |-> "PENDING", key |-> input[r].key, createdAt |-> began[r]]

InsertRow(o, row) == orders' = [i \in Placed \cup {o} |-> IF i = o THEN row ELSE orders[i]]

\* Mutant of KeyTaken: there is no unique index, the lookup alone guards the key.
KeyTakenNever(in) == FALSE

(* The partial unique index (user_id, idempotency_key) WHERE the key is not NULL. *)
KeyTaken(in) == in.key # NoKey /\ WithKey(in.user, in.key) # {}

(* The insert commits.  With "db" faults the commit's answer may be lost: the *)
(* row is there, the caller gets an error and the order is never enqueued.    *)
PlaceInsert(r) ==
    /\ pc[r] = "insert"
    /\ ~KeyTaken(input[r])
    /\ \E o \in OrderIds :
          /\ NextId(o)
          /\ InsertRow(o, NewRow(r))
          /\ \/ /\ pc' = [pc EXCEPT ![r] = "enqueue"]
                /\ result' = [result EXCEPT ![r] = o]
                /\ UNCHANGED abandoned
             \/ /\ "db" \in Faults
                /\ pc' = [pc EXCEPT ![r] = "failed"]
                /\ abandoned' = abandoned \cup {o}
                /\ UNCHANGED result
    /\ UNCHANGED <<trades, balance, ledger, portfolios, queue, engine, input, began, clock, dropped>>

(* The insert hits the unique index: ErrDuplicateIdempotencyKey. *)
PlaceConflict(r) ==
    /\ pc[r] = "insert"
    /\ KeyTaken(input[r])
    /\ pc' = [pc EXCEPT ![r] = "duplicate"]
    /\ UNCHANGED <<tables, queue, engine, input, began, result, clock, dropped, abandoned>>

(* The second lookup, after the conflict, returns the row that won. *)
PlaceDuplicate(r) ==
    /\ pc[r] = "duplicate"
    /\ LET existing == WithKey(input[r].user, input[r].key)
       IN  \/ \E o \in existing : Return(r, o)
           \/ /\ existing = {}
              /\ pc' = [pc EXCEPT ![r] = "failed"]
              /\ UNCHANGED result
    /\ UNCHANGED <<tables, queue, engine, input, began, clock, dropped, abandoned>>

\* Mutant of PlaceEnqueue: only a BUY is sent, a SELL waits in the book for buyers.
PlaceEnqueueBuys(r) ==
    /\ pc[r] = "enqueue"
    /\ pc' = [pc EXCEPT ![r] = "returned"]
    /\ queue' = IF Len(queue) < QueueCap /\ input[r].side = "BUY"
                THEN Append(queue, result[r]) ELSE queue
    /\ dropped' = IF Len(queue) >= QueueCap THEN dropped \cup {result[r]} ELSE dropped
    /\ UNCHANGED <<tables, engine, input, began, result, clock, abandoned>>

(* The non-blocking send: a full channel takes the default branch, which logs. *)
PlaceEnqueue(r) ==
    /\ pc[r] = "enqueue"
    /\ pc' = [pc EXCEPT ![r] = "returned"]
    /\ \/ /\ Len(queue) < QueueCap
          /\ queue' = Append(queue, result[r])
          /\ UNCHANGED dropped
       \/ /\ Len(queue) >= QueueCap
          /\ dropped' = dropped \cup {result[r]}
          /\ UNCHANGED queue
    /\ UNCHANGED <<tables, engine, input, began, result, clock, abandoned>>

(* A query of the call fails before its insert commits: the call returns an error. *)
PlaceFail(r) ==
    /\ "db" \in Faults
    /\ pc[r] \in {"check", "begin", "insert", "duplicate"}
    /\ pc' = [pc EXCEPT ![r] = "failed"]
    /\ UNCHANGED <<tables, queue, engine, input, began, result, clock, dropped, abandoned>>

PlaceOrder(r) ==
    \/ \E in \in Inputs : PlaceLookup(r, in)
    \/ PlaceCheck(r)
    \/ PlaceBegin(r)
    \/ PlaceInsert(r)
    \/ PlaceConflict(r)
    \/ PlaceDuplicate(r)
    \/ PlaceEnqueue(r)
    \/ PlaceFail(r)

-------------------------------------------------------------------------------
(* CancelOrder, the expiry job, and the wallet service *)

\* Mutant of CancelOrder: the status is not checked under the row lock.
CancelOrderUnchecked(u, o) ==
    /\ o \in Placed
    /\ orders[o].user = u
    /\ orders[o].status # "CANCELLED"
    /\ orders' = [orders EXCEPT ![o].status = "CANCELLED"]
    /\ UNCHANGED <<trades, balance, ledger, portfolios, queue, engine, calls, dropped, abandoned>>

CancelOrder(u, o) ==
    /\ o \in Placed
    /\ orders[o].user = u
    /\ Open(o)
    /\ orders' = [orders EXCEPT ![o].status = "CANCELLED"]
    /\ UNCHANGED <<trades, balance, ledger, portfolios, queue, engine, calls, dropped, abandoned>>

(* One UPDATE over all open orders created before the cutoff, NOW() - 24 hours. *)
ExpireStaleOrders(cutoff) ==
    /\ \E o \in Placed : Open(o) /\ orders[o].createdAt < cutoff
    /\ orders' = [o \in Placed |->
                     IF Open(o) /\ orders[o].createdAt < cutoff
                     THEN [orders[o] EXCEPT !.status = "CANCELLED"]
                     ELSE orders[o]]
    /\ UNCHANGED <<trades, balance, ledger, portfolios, queue, engine, calls, dropped, abandoned>>

(* A wallet row and its wallet_transactions rows change together. *)
Deposit(u, amount) ==
    /\ u \in WalletOwners
    /\ balance[u] + amount <= MaxNumeric
    /\ balance' = [balance EXCEPT ![u] = @ + amount]
    /\ ledger' = [ledger EXCEPT ![u] = @ + amount]
    /\ UNCHANGED <<orders, trades, portfolios, queue, engine, calls, dropped, abandoned>>

Withdraw(u, amount) ==
    /\ u \in WalletOwners
    /\ amount <= balance[u]
    /\ balance' = [balance EXCEPT ![u] = @ - amount]
    /\ ledger' = [ledger EXCEPT ![u] = @ - amount]
    /\ UNCHANGED <<orders, trades, portfolios, queue, engine, calls, dropped, abandoned>>

-------------------------------------------------------------------------------
(* Engine.Run, processOrder, findBestCandidate and executeTrade *)

EngineAt(p) == engine.pc = p

EngineGoto(p) == engine' = [engine EXCEPT !.pc = p]

(* processOrder returns nil: the goroutine is back in Run's select. *)
EngineDone == engine' = Idle /\ UNCHANGED abandoned

(* processOrder returns an error: Run logs it and goes on to the next order. *)
EngineAbort == engine' = Idle /\ abandoned' = abandoned \cup {engine.incoming}

EngineReceive ==
    /\ EngineAt("idle")
    /\ queue # <<>>
    /\ engine' = [pc |-> "fetch", incoming |-> Head(queue), candidate |-> NoOrder]
    /\ queue' = Tail(queue)
    /\ UNCHANGED <<tables, calls, dropped, abandoned>>

(* The top of the loop: re-fetch the incoming order. *)
EngineFetch ==
    /\ EngineAt("fetch")
    /\ LET o == orders[engine.incoming]
       IN  IF o.status \in {"FILLED", "CANCELLED"} \/ remaining(o) <= 0
           THEN EngineDone
           ELSE EngineGoto("find") /\ UNCHANGED abandoned
    /\ UNCHANGED <<tables, queue, calls, dropped>>

Eligible == {c \in Placed : eligible(orders[engine.incoming], orders[c])}

\* Mutant of Best: any order that crosses is taken, the ORDER BY is missing.
BestUnordered(S) == S

(* The first row in the ORDER BY; rows that tie on both keys come in any order. *)
Best(S) == {c \in S : \A d \in S : ~ranksBefore(orders[d], orders[c])}

\* Mutant of EngineFind: the search stops at the best-ranked order of the book,
\* which may be one of the trader's own, instead of skipping those.
EngineFindFirst ==
    /\ EngineAt("find")
    /\ LET in == orders[engine.incoming]
           Book == {c \in Placed : /\ orders[c].asset = in.asset /\ Open(c)
                                   /\ orders[c].side = oppositeSide(in.side)}
       IN  \/ Best(Book) \cap Eligible = {} /\ EngineDone
           \/ \E c \in Best(Book) \cap Eligible :
                 engine' = [engine EXCEPT !.pc = "execute", !.candidate = c]
              /\ UNCHANGED abandoned
    /\ UNCHANGED <<tables, queue, calls, dropped>>

(* Reads the whole book outside any transaction. *)
EngineFind ==
    /\ EngineAt("find")
    /\ \/ Eligible = {} /\ EngineDone
       \/ \E c \in Best(Eligible) :
             engine' = [engine EXCEPT !.pc = "execute", !.candidate = c]
          /\ UNCHANGED abandoned
    /\ UNCHANGED <<tables, queue, calls, dropped>>

BuyId  == IF orders[engine.incoming].side = "BUY" THEN engine.incoming ELSE engine.candidate
SellId == IF orders[engine.incoming].side = "BUY" THEN engine.candidate ELSE engine.incoming

tradePrice == orders[engine.candidate].price
fillQty    == minBig(remaining(orders[BuyId]), remaining(orders[SellId]))
tradeCost  == fillQty * tradePrice     \* in 1/Scale units, not rounded
buyer      == orders[BuyId].user
seller     == orders[SellId].user
asset      == orders[BuyId].asset

(* What executeTrade finds under the row locks lets the trade go ahead. *)
Matchable ==
    /\ Open(BuyId) /\ Open(SellId)
    /\ orders[SellId].price <= orders[BuyId].price
    /\ fillQty > 0

(* Rolled back with matched = false: the loop looks at the incoming order again. *)
ExecuteUnmatched ==
    /\ EngineAt("execute")
    /\ ~Matchable
    /\ EngineGoto("recheck")
    /\ UNCHANGED <<tables, queue, calls, dropped, abandoned>>

(* UpdateFill *)
filledRows(o) ==
    {[orders[o] EXCEPT !.filled = @ + fillQty, !.status = st] :
        st \in newStatus(orders[o].filled, fillQty, orders[o].quantity)}

\* Mutant of settledHoldings: the seller's holding is not reduced.
settledHoldingsBuyerOnly ==
    LET b == <<buyer, asset>>
    IN  [k \in DOMAIN portfolios \cup {b} |->
            IF k # b THEN portfolios[k]
            ELSE IF b \in DOMAIN portfolios THEN portfolios[b] + fillQty
            ELSE fillQty]

(* UpsertBuyerHolding, then ReduceSellerHolding: the UPDATE of a missing row *)
(* changes nothing and reports no error.                                     *)
settledHoldings ==
    LET b == <<buyer, asset>>
        s == <<seller, asset>>
        upserted == [k \in DOMAIN portfolios \cup {b} |->
                        IF k # b THEN portfolios[k]
                        ELSE IF b \in DOMAIN portfolios THEN portfolios[b] + fillQty
                        ELSE fillQty]
    IN  [k \in DOMAIN upserted |-> IF k = s THEN upserted[k] - fillQty ELSE upserted[k]]

\* Mutant of Settles: the buyer's balance is not looked at under the row lock.
SettlesUnfunded(b, s, amount) ==
    /\ buyer \in WalletOwners
    /\ seller \in WalletOwners
    /\ s <= MaxNumeric /\ amount <= MaxNumeric
    /\ \A k \in DOMAIN settledHoldings : settledHoldings[k] \in 0..MaxNumeric

(* Both wallets exist, the buyer can pay, and no CHECK or NUMERIC bound of the *)
(* rows written (balances b and s, the amount, the two holdings) is violated.  *)
Settles(b, s, amount) ==
    /\ buyer \in WalletOwners
    /\ tradeCost <= balance[buyer] * Scale
    /\ seller \in WalletOwners
    /\ s <= MaxNumeric /\ amount <= MaxNumeric
    /\ \A k \in DOMAIN settledHoldings : settledHoldings[k] \in 0..MaxNumeric

\* Mutant of WriteTrade: the seller's order is not filled.
WriteTradeOneSided(b, s, amount) ==
    /\ trades' = Append(trades, [buyOrder |-> BuyId, sellOrder |-> SellId,
                                 price |-> tradePrice, quantity |-> fillQty])
    /\ \E x \in filledRows(BuyId) : orders' = [orders EXCEPT ![BuyId] = x]
    /\ balance' = [balance EXCEPT ![buyer] = b, ![seller] = s]
    /\ ledger' = [ledger EXCEPT ![buyer] = @ - amount, ![seller] = @ + amount]
    /\ portfolios' = settledHoldings

\* Mutant of WriteTrade: the buyer's new balance is not stored.
WriteTradeNoDebit(b, s, amount) ==
    /\ trades' = Append(trades, [buyOrder |-> BuyId, sellOrder |-> SellId,
                                 price |-> tradePrice, quantity |-> fillQty])
    /\ \E x \in filledRows(BuyId), y \in filledRows(SellId) :
          orders' = [orders EXCEPT ![BuyId] = x, ![SellId] = y]
    /\ balance' = [balance EXCEPT ![seller] = s]
    /\ ledger' = [ledger EXCEPT ![buyer] = @ - amount, ![seller] = @ + amount]
    /\ portfolios' = settledHoldings

(* The transaction's writes: the trade, both fills, both balances, both wallet *)
(* transactions and both holdings.                                             *)
WriteTrade(b, s, amount) ==
    /\ trades' = Append(trades, [buyOrder |-> BuyId, sellOrder |-> SellId,
                                 price |-> tradePrice, quantity |-> fillQty])
    /\ \E x \in filledRows(BuyId), y \in filledRows(SellId) :
          orders' = [orders EXCEPT ![BuyId] = x, ![SellId] = y]
    /\ balance' = [balance EXCEPT ![buyer] = b, ![seller] = s]
    /\ ledger' = [ledger EXCEPT ![buyer] = @ - amount, ![seller] = @ + amount]
    /\ portfolios' = settledHoldings

(* New balances and the recorded amount, each rounded on its own from the exact cost. *)
BuyerBalances  == fmt8f(balance[buyer] * Scale - tradeCost)
SellerBalances == fmt8f(balance[seller] * Scale + tradeCost)
AmountStrings  == fmt8f(tradeCost)

ExecuteCommit ==
    /\ EngineAt("execute")
    /\ Matchable
    /\ buyer \in WalletOwners /\ seller \in WalletOwners
    /\ \E b \in BuyerBalances, s \in SellerBalances, amount \in AmountStrings :
          /\ Settles(b, s, amount)
          /\ WriteTrade(b, s, amount)
    /\ EngineGoto("refetch")
    /\ UNCHANGED <<queue, calls, dropped, abandoned>>

(* Insufficient balance at execution time (a cost equal to the balance may     *)
(* come out above it), a missing wallet, or a violated CHECK: the transaction  *)
(* is rolled back and processOrder returns the error.                          *)
ExecuteError ==
    /\ EngineAt("execute")
    /\ Matchable
    /\ \/ buyer \notin WalletOwners
       \/ seller \notin WalletOwners
       \/ /\ buyer \in WalletOwners /\ seller \in WalletOwners
          /\ \/ \E b \in BuyerBalances, s \in SellerBalances, amount \in AmountStrings :
                   ~Settles(b, s, amount)
             \/ Inexact /\ tradeCost = balance[buyer] * Scale
    /\ EngineAbort
    /\ UNCHANGED <<tables, queue, calls, dropped>>

\* Mutant of EngineRecheck: the same candidate is tried again.
EngineRecheckStale ==
    /\ EngineAt("recheck")
    /\ IF Open(engine.incoming)
       THEN EngineGoto("execute") /\ UNCHANGED abandoned
       ELSE EngineDone
    /\ UNCHANGED <<tables, queue, calls, dropped>>

(* After matched = false: go on if the incoming order is still open. *)
EngineRecheck ==
    /\ EngineAt("recheck")
    /\ IF Open(engine.incoming)
       THEN EngineGoto("fetch") /\ UNCHANGED abandoned
       ELSE EngineDone
    /\ UNCHANGED <<tables, queue, calls, dropped>>

(* After a fill: return if the incoming order is FILLED, else loop. *)
EngineRefetch ==
    /\ EngineAt("refetch")
    /\ IF orders[engine.incoming].status = "FILLED"
       THEN EngineDone
       ELSE EngineGoto("fetch") /\ UNCHANGED abandoned
    /\ UNCHANGED <<tables, queue, calls, dropped>>

(* A query fails, or a commit's answer is lost (the writes are there: "refetch"). *)
EngineFail ==
    /\ "db" \in Faults
    /\ ~EngineAt("idle")
    /\ EngineAbort
    /\ UNCHANGED <<tables, queue, calls, dropped>>

EngineStep ==
    \/ EngineReceive
    \/ EngineFetch
    \/ EngineFind
    \/ ExecuteUnmatched
    \/ ExecuteCommit
    \/ ExecuteError
    \/ EngineRecheck
    \/ EngineRefetch

InQueue(o) == \E i \in DOMAIN queue : queue[i] = o

(* Placed, and the engine's work on it is not finished. *)
Pending(o) ==
    \/ InQueue(o)
    \/ engine.incoming = o
    \/ \E r \in Requests : pc[r] = "enqueue" /\ result[r] = o

(* The process stops and starts again: only the tables survive.  What was on  *)
(* its way to the engine is not put back, since main makes a new empty channel *)
(* and nothing reads open orders from the table.                               *)
Crash ==
    /\ "crash" \in Faults
    /\ abandoned' = abandoned \cup {o \in Placed : Pending(o)}
    /\ queue' = <<>>
    /\ engine' = Idle
    /\ pc' = [r \in Requests |-> IF pc[r] \in {"idle", "returned", "rejected", "failed"}
                                 THEN pc[r] ELSE "failed"]
    /\ result' = [r \in Requests |-> IF pc[r] = "enqueue" THEN NoOrder ELSE result[r]]
    /\ UNCHANGED <<tables, input, began, clock, dropped>>

-------------------------------------------------------------------------------
Next ==
    \/ \E r \in Requests : PlaceOrder(r)
    \/ \E u \in Users, o \in OrderIds : CancelOrder(u, o)
    \/ \E cutoff \in 1..(clock + 1) : ExpireStaleOrders(cutoff)
    \/ \E u \in Users, amount \in Amounts : Deposit(u, amount)
    \/ \E u \in Users, amount \in Amounts : Withdraw(u, amount)
    \/ EngineStep
    \/ EngineFail
    \/ Crash

Spec == Init /\ [][Next]_vars

(* A call that has started, once its lookup is made. *)
PlaceStep(r) == \/ PlaceCheck(r) \/ PlaceBegin(r) \/ PlaceInsert(r)
                \/ PlaceConflict(r) \/ PlaceDuplicate(r) \/ PlaceEnqueue(r)

(* The Go scheduler runs every runnable goroutine: the engine's, and that of *)
(* each HTTP handler.  Clients and the clock owe nothing.                    *)
FairSpec == /\ Spec
            /\ WF_vars(EngineStep)
            /\ \A r \in Requests : WF_vars(PlaceStep(r))

-------------------------------------------------------------------------------
(* Properties *)

(* Every table, channel and local variable holds values of its kind; balances *)
(* and holdings stay within what their columns can hold.                      *)
TypeOK ==
    /\ Placed \subseteq OrderIds
    /\ orders \in [Placed -> Row]
    /\ trades \in Seq(Trade)
    /\ balance \in [WalletOwners -> 0..MaxNumeric]
    /\ ledger \in [WalletOwners -> Int]
    /\ DOMAIN portfolios \subseteq Users \X Assets
    /\ portfolios \in [DOMAIN portfolios -> 0..MaxNumeric]
    /\ queue \in Seq(OrderIds)
    /\ engine \in [pc : EnginePCs, incoming : OrderIds \cup {NoOrder},
                   candidate : OrderIds \cup {NoOrder}]
    /\ pc \in [Requests -> CallPCs]
    /\ input \in [Requests -> Inputs \cup {NoInput}]
    /\ began \in [Requests -> Nat]
    /\ result \in [Requests -> OrderIds \cup {NoOrder}]
    /\ clock \in Nat
    /\ dropped \subseteq OrderIds
    /\ abandoned \subseteq OrderIds

(* The status column agrees with the filled quantity, whatever the order in     *)
(* which the engine, CancelOrder and the expiry job touch a row: PENDING is     *)
(* unfilled, PARTIALLY_FILLED is not, only a complete order is FILLED, and with *)
(* whole numbers a complete order is FILLED and can no longer be cancelled.     *)
StatusMatchesFill ==
    \A o \in Placed :
        LET row == orders[o]
        IN  /\ row.status = "PENDING" => row.filled = 0
            /\ row.status = "PARTIALLY_FILLED" => row.filled > 0
            /\ row.status = "FILLED" => row.filled = row.quantity
            /\ row.filled = row.quantity => row.status = "FILLED" \/ Inexact
            /\ row.filled <= row.quantity

(* Every trade joins a BUY and a SELL of one asset, of two different traders,   *)
(* at a price neither of them has refused, although executeTrade fixes the      *)
(* price before it locks the rows.                                              *)
TradesRespectLimits ==
    \A i \in DOMAIN trades :
        LET t == trades[i]
        IN  /\ {t.buyOrder, t.sellOrder} \subseteq Placed
            /\ orders[t.buyOrder].side = "BUY" /\ orders[t.sellOrder].side = "SELL"
            /\ orders[t.buyOrder].asset = orders[t.sellOrder].asset
            /\ orders[t.buyOrder].user # orders[t.sellOrder].user
            /\ orders[t.sellOrder].price <= t.price
            /\ t.price <= orders[t.buyOrder].price

(* Two open orders that could trade with each other.  (eligible is symmetric up *)
(* to the openness of the first.)                                               *)
Crossing(x, y) ==
    /\ Open(x) /\ eligible(orders[x], orders[y])
    /\ remaining(orders[x]) > 0 /\ remaining(orders[y]) > 0

(* The book is never left crossed silently: of two open orders that cross, one *)
(* is still on its way through the channel or the engine, or has been dropped  *)
(* by a full channel, an error or a crash.  The engine has no other way to     *)
(* overlook a match, whatever is inserted or cancelled while it works.         *)
NoMissedMatch ==
    \A x, y \in Placed :
        Crossing(x, y) => \E o \in {x, y} : Pending(o) \/ o \in dropped \cup abandoned

(* When a trade is about to be executed, an order that ranks before the chosen  *)
(* candidate was inserted after the engine read the book: it is still on its    *)
(* way to the engine, or was dropped or abandoned on that way.                  *)
CandidateIsBest ==
    EngineAt("execute") =>
        \A y \in Eligible : ranksBefore(orders[y], orders[engine.candidate]) =>
            Pending(y) \/ y \in dropped \cup abandoned

(* Calls of one user with one idempotency key that return an order return the  *)
(* same order, and no two rows carry the key, although the lookup and the       *)
(* insert are not one transaction.                                              *)
Idempotent ==
    /\ \A o, p \in Placed :
          /\ orders[o].user = orders[p].user
          /\ orders[o].key = orders[p].key
          /\ orders[o].key # NoKey
          => o = p
    /\ \A r, s \in Requests :
          /\ pc[r] = "returned" /\ pc[s] = "returned"
          /\ input[r].user = input[s].user
          /\ input[r].key = input[s].key
          /\ input[r].key # NoKey
          => result[r] = result[s]

(* Whoever has a SELL order has a holding row, so the UPDATE in                 *)
(* ReduceSellerHolding, which ignores a missing row, never sells from nothing.  *)
SellersHoldRows ==
    \A o \in Placed : orders[o].side = "SELL" =>
        <<orders[o].user, orders[o].asset>> \in DOMAIN portfolios

(* A balance and the sum of its wallet transactions, rounded separately in each *)
(* trade, differ by at most one unit per trade.                                 *)
LedgerDrift ==
    \A u \in WalletOwners : /\ balance[u] - ledger[u] <= Len(trades)
                            /\ ledger[u] - balance[u] <= Len(trades)

(* No step deletes an order, changes what was ordered, reduces what was filled, *)
(* or touches an order that is FILLED or CANCELLED.                             *)
RowsOnlyAdvance ==
    [][\A o \in Placed :
          /\ o \in DOMAIN orders'
          /\ orders'[o] = [orders[o] EXCEPT !.filled = orders'[o].filled,
                                            !.status = orders'[o].status]
          /\ orders[o].filled <= orders'[o].filled
          /\ ~Open(o) => orders'[o] = orders[o]]_vars

(* docs/architecture.md: "For each incoming order".  An order that reached the  *)
(* channel, or the handler about to send it, does not stay on its way for ever: *)
(* the engine's loop ends whatever is cancelled or placed while it works, and   *)
(* the next order is received.  With whole numbers only: see MCExchange.        *)
PlacedOrdersAreProcessed == \A o \in OrderIds : Pending(o) ~> ~Pending(o)
===============================================================================
