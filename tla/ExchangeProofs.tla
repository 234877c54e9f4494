---------------------------- MODULE ExchangeProofs ----------------------------
(***************************************************************************)
(* Theorems about Exchange, for every set of traders, assets, calls and    *)
(* inputs, every channel capacity and every combination of faults.         *)
(***************************************************************************)
EXTENDS ExchangeLedger, ExchangeAccounting, SumLemmas, SequenceTheorems, TLAPS

(* What a call knows at each point: its input, that its checks passed, and, *)
(* once it has an order, that the order is in the table.                    *)
CallInv ==
    \A r \in Requests :
        /\ pc[r] # "idle" => input[r] \in Inputs
        /\ pc[r] \in {"begin", "insert"} =>
              /\ input[r].price > 0 /\ input[r].quantity > 0
              /\ input[r].side = "SELL" =>
                    <<input[r].user, input[r].asset>> \in DOMAIN portfolios
        /\ pc[r] \in {"enqueue", "returned"} => result[r] \in Placed

QueueInv == \A i \in 1..Len(queue) : queue[i] \in Placed

(* What the engine knows: the candidate matches the incoming order in all the *)
(* columns that never change.                                                 *)
EngineInv ==
    /\ engine.pc = "idle" => engine.incoming = NoOrder
    /\ engine.pc # "idle" => engine.incoming \in Placed
    /\ engine.pc = "execute" =>
          LET in == orders[engine.incoming]
              c  == orders[engine.candidate]
          IN  /\ engine.candidate \in Placed
              /\ c.asset = in.asset
              /\ c.side = oppositeSide(in.side)
              /\ c.user # in.user
              /\ crosses(in.side, in.price, c.price)

(* The inductive invariant behind the theorems. *)
IInv == /\ TypeOK
        /\ CallInv
        /\ QueueInv
        /\ EngineInv
        /\ StatusMatchesFill
        /\ SellersHoldRows

-------------------------------------------------------------------------------
(* Rounding *)

(* The rounded value of a non-negative number is within half a unit of it. *)
LEMMA RoundedIsNear ==
    ASSUME NEW n \in Nat, NEW u \in fmt8f(n)
    PROVE  /\ u \in Nat
           /\ 2 * (n - u * Scale) <= Scale
           /\ 2 * (u * Scale - n) <= Scale
<1>1. n \div Scale \in Nat
  BY ScaleAssumption
<1>2. u = n \div Scale \/ u = n \div Scale + 1
  BY DEF fmt8f
<1> QED
  BY <1>1, <1>2 DEF fmt8f

(* Multiplication by Scale is monotone on the integers. *)
LEMMA ScaleMonotone ==
    ASSUME NEW a \in Int, NEW b \in Int, a <= b
    PROVE  /\ a * Scale \in Int
           /\ b * Scale \in Int
           /\ a * Scale <= b * Scale
<1>1. PICK d \in Nat : b = a + d
  BY b - a \in Nat, b = a + (b - a)
<1>2. b * Scale = a * Scale + d * Scale
  BY <1>1, ScaleAssumption
<1>3. d * Scale \in Nat
  BY ScaleAssumption
<1> QED
  BY <1>2, <1>3, ScaleAssumption

(* An integer whose multiple by Scale is at most Scale is at most one. *)
LEMMA ScaleCancel ==
    ASSUME NEW d \in Int, d * Scale <= Scale
    PROVE  d <= 1
<1> SUFFICES ASSUME 2 <= d PROVE FALSE
  OBVIOUS
<1>1. 2 * Scale <= d * Scale
  BY ScaleMonotone
<1> QED
  BY <1>1, ScaleAssumption

LEMMA CreditIsNat ==
    ASSUME NEW bal \in Nat, NEW cost \in Nat
    PROVE  bal * Scale + cost \in Nat
BY ScaleAssumption

(* A debit that the balance covers leaves between nothing and the balance. *)
LEMMA DebitBounds ==
    ASSUME NEW bal \in Nat, NEW cost \in Nat, cost <= bal * Scale,
           NEW b \in fmt8f(bal * Scale - cost)
    PROVE  b \in 0..bal
<1>1. bal * Scale - cost \in Nat
  BY ScaleAssumption
<1>2. b \in Nat /\ 2 * (b * Scale - (bal * Scale - cost)) <= Scale
  BY <1>1, RoundedIsNear
<1>3. 2 * ((b - bal) * Scale) <= Scale
  <2>1. (b - bal) * Scale = b * Scale - bal * Scale
    BY <1>2, ScaleAssumption
  <2> QED
    BY <1>2, <2>1, ScaleAssumption
<1> SUFFICES ASSUME bal < b PROVE FALSE
  BY <1>2
<1>4. 1 * Scale <= (b - bal) * Scale
  BY <1>2, ScaleMonotone
<1> QED
  BY <1>2, <1>3, <1>4, ScaleAssumption

-------------------------------------------------------------------------------
(* The inductive invariant, action by action *)

LEMMA InitIInv == Init => IInv
<1> SUFFICES ASSUME Init PROVE IInv
  OBVIOUS
<1> USE ConstantsAssumption DEF Init
<1>1. TypeOK
  <2>1. orders \in [Placed -> Row] /\ Placed = {}
    BY DEF Placed
  <2> QED
    BY <2>1 DEF TypeOK, CallPCs, EnginePCs, Idle
<1>2. CallInv
  BY DEF CallInv
<1>3. QueueInv
  BY DEF QueueInv
<1>4. EngineInv
  BY DEF EngineInv, Idle
<1>5. StatusMatchesFill /\ SellersHoldRows
  BY DEF StatusMatchesFill, SellersHoldRows, Placed
<1> QED
  BY <1>1, <1>2, <1>3, <1>4, <1>5 DEF IInv

(* Rows stay what they are and calls keep their place: what an action that only *)
(* moves the engine needs.                                                      *)
LEMMA EngineOnly ==
    ASSUME IInv, UNCHANGED <<tables, calls>>, EngineInv', QueueInv',
           queue' \in Seq(OrderIds), dropped' \subseteq OrderIds, abandoned' \subseteq OrderIds,
           engine' \in [pc : EnginePCs, incoming : OrderIds \cup {NoOrder},
                        candidate : OrderIds \cup {NoOrder}]
    PROVE  IInv'
BY DEF IInv, TypeOK, CallInv, StatusMatchesFill, SellersHoldRows, tables, calls, Placed, WithKey

(* What an action that moves calls and the channel, but no table, needs. *)
LEMMA CallsOnly ==
    ASSUME IInv, UNCHANGED <<tables, engine, dropped, abandoned, queue>>, CallInv',
           pc' \in [Requests -> CallPCs],
           input' \in [Requests -> Inputs \cup {NoInput}],
           began' \in [Requests -> Nat],
           result' \in [Requests -> OrderIds \cup {NoOrder}],
           clock' \in Nat
    PROVE  IInv'
BY DEF IInv, TypeOK, QueueInv, EngineInv, StatusMatchesFill, SellersHoldRows, tables, Placed

LEMMA PlaceLookupInv ==
    ASSUME IInv, NEW r \in Requests, NEW in \in Inputs, PlaceLookup(r, in)
    PROVE  IInv'
<1> USE DEF IInv
<1>1. UNCHANGED <<tables, engine, dropped, abandoned, queue>>
  BY DEF PlaceLookup
<1>2. CASE \E o \in Placed : Return(r, o)
  <2>1. PICK o \in Placed : Return(r, o)
    BY <1>2
  <2>2. o \in OrderIds
    BY DEF TypeOK
  <2>3. /\ pc' \in [Requests -> CallPCs]
        /\ input' \in [Requests -> Inputs \cup {NoInput}]
        /\ began' \in [Requests -> Nat]
        /\ result' \in [Requests -> OrderIds \cup {NoOrder}]
        /\ clock' \in Nat
    BY <2>1, <2>2 DEF PlaceLookup, Return, TypeOK, CallPCs
  <2>4. CallInv'
    BY <2>1 DEF PlaceLookup, Return, TypeOK, CallInv, tables, Placed
  <2> QED
    BY <1>1, <2>3, <2>4, CallsOnly
<1>3. CASE pc' = [pc EXCEPT ![r] = "check"] /\ UNCHANGED result
  <2>3. /\ pc' \in [Requests -> CallPCs]
        /\ input' \in [Requests -> Inputs \cup {NoInput}]
        /\ began' \in [Requests -> Nat]
        /\ result' \in [Requests -> OrderIds \cup {NoOrder}]
        /\ clock' \in Nat
    BY <1>3 DEF PlaceLookup, TypeOK, CallPCs
  <2>4. CallInv'
    BY <1>3 DEF PlaceLookup, TypeOK, CallInv, tables, Placed
  <2> QED
    BY <1>1, <2>3, <2>4, CallsOnly
<1> QED
  BY <1>2, <1>3 DEF PlaceLookup, WithKey

LEMMA PlaceCheckInv ==
    ASSUME IInv, NEW r \in Requests, PlaceCheck(r)
    PROVE  IInv'
<1> USE DEF IInv
<1>1. UNCHANGED <<tables, engine, dropped, abandoned, queue>>
  BY DEF PlaceCheck
<1>2. /\ pc' \in [Requests -> CallPCs]
      /\ input' \in [Requests -> Inputs \cup {NoInput}]
      /\ began' \in [Requests -> Nat]
      /\ result' \in [Requests -> OrderIds \cup {NoOrder}]
      /\ clock' \in Nat
  BY DEF PlaceCheck, TypeOK, CallPCs
<1>3. CallInv'
  BY DEF PlaceCheck, Acceptable, TypeOK, CallInv, tables, Placed
<1> QED
  BY <1>1, <1>2, <1>3, CallsOnly

LEMMA PlaceBeginInv ==
    ASSUME IInv, NEW r \in Requests, PlaceBegin(r)
    PROVE  IInv'
<1> USE DEF IInv
<1>1. UNCHANGED <<tables, engine, dropped, abandoned, queue>>
  BY DEF PlaceBegin
<1>2. clock' \in Nat
  BY ConstantsAssumption DEF PlaceBegin, TypeOK
<1>3. /\ pc' \in [Requests -> CallPCs]
      /\ input' \in [Requests -> Inputs \cup {NoInput}]
      /\ began' \in [Requests -> Nat]
      /\ result' \in [Requests -> OrderIds \cup {NoOrder}]
  BY <1>2 DEF PlaceBegin, TypeOK, CallPCs
<1>4. CallInv'
  BY DEF PlaceBegin, TypeOK, CallInv, tables, Placed
<1> QED
  BY <1>1, <1>2, <1>3, <1>4, CallsOnly

LEMMA PlaceQuietInv ==
    ASSUME IInv, NEW r \in Requests, PlaceConflict(r) \/ PlaceFail(r)
    PROVE  IInv'
<1> USE DEF IInv
<1>1. UNCHANGED <<tables, engine, dropped, abandoned, queue>>
  BY DEF PlaceConflict, PlaceFail
<1>2. /\ pc' \in [Requests -> CallPCs]
      /\ input' \in [Requests -> Inputs \cup {NoInput}]
      /\ began' \in [Requests -> Nat]
      /\ result' \in [Requests -> OrderIds \cup {NoOrder}]
      /\ clock' \in Nat
  BY DEF PlaceConflict, PlaceFail, TypeOK, CallPCs
<1>3. CallInv'
  BY DEF PlaceConflict, PlaceFail, TypeOK, CallInv, tables, Placed
<1> QED
  BY <1>1, <1>2, <1>3, CallsOnly

LEMMA PlaceDuplicateInv ==
    ASSUME IInv, NEW r \in Requests, PlaceDuplicate(r)
    PROVE  IInv'
<1> USE DEF IInv
<1>1. UNCHANGED <<tables, engine, dropped, abandoned, queue>>
  BY DEF PlaceDuplicate
<1>2. \/ \E o \in OrderIds : o \in Placed /\ Return(r, o)
      \/ pc' = [pc EXCEPT ![r] = "failed"] /\ UNCHANGED result
  BY DEF PlaceDuplicate, WithKey, TypeOK
<1>3. /\ pc' \in [Requests -> CallPCs]
      /\ input' \in [Requests -> Inputs \cup {NoInput}]
      /\ began' \in [Requests -> Nat]
      /\ result' \in [Requests -> OrderIds \cup {NoOrder}]
      /\ clock' \in Nat
  <2>1. CASE \E o \in OrderIds : o \in Placed /\ Return(r, o)
    <3>1. PICK o \in OrderIds : Return(r, o)
      BY <2>1
    <3> QED
      BY <3>1 DEF PlaceDuplicate, Return, TypeOK, CallPCs
  <2>2. CASE pc' = [pc EXCEPT ![r] = "failed"] /\ UNCHANGED result
    BY <2>2 DEF PlaceDuplicate, TypeOK, CallPCs
  <2> QED
    BY <1>2, <2>1, <2>2
<1>4. CallInv'
  BY <1>2 DEF PlaceDuplicate, Return, TypeOK, CallInv, tables, Placed
<1> QED
  BY <1>1, <1>3, <1>4, CallsOnly

LEMMA PlaceEnqueueInv ==
    ASSUME IInv, NEW r \in Requests, PlaceEnqueue(r)
    PROVE  IInv'
<1> USE DEF IInv
<1>1. result[r] \in Placed /\ result[r] \in OrderIds
  BY DEF PlaceEnqueue, CallInv, TypeOK
<1>2. pc' \in [Requests -> CallPCs]
  BY DEF PlaceEnqueue, TypeOK, CallPCs
<1>3. CallInv'
  BY <1>1 DEF PlaceEnqueue, TypeOK, CallInv, tables, Placed
<1>4. queue' \in Seq(OrderIds) /\ QueueInv' /\ dropped' \subseteq OrderIds
  <2>1. CASE queue' = Append(queue, result[r]) /\ UNCHANGED dropped
    BY <1>1, <2>1 DEF PlaceEnqueue, TypeOK, QueueInv, tables, Placed
  <2>2. CASE dropped' = dropped \cup {result[r]} /\ UNCHANGED queue
    BY <1>1, <2>2 DEF PlaceEnqueue, TypeOK, QueueInv, tables, Placed
  <2> QED
    BY <2>1, <2>2 DEF PlaceEnqueue
<1> QED
  BY <1>2, <1>3, <1>4
  DEF PlaceEnqueue, TypeOK, EngineInv, StatusMatchesFill, SellersHoldRows, tables, Placed

(* A new row is well formed, and leaves every other row alone. *)
LEMMA NewRowIsRow ==
    ASSUME IInv, NEW r \in Requests, pc[r] = "insert"
    PROVE  NewRow(r) \in Row
<1>1. input[r] \in Inputs /\ input[r].price > 0 /\ input[r].quantity > 0
  BY DEF IInv, CallInv
<1>2. input[r] \in [user : Users, asset : Assets, side : Sides, price : Nat,
                    quantity : Nat, key : Keys \cup {NoKey}]
  BY <1>1, ConstantsAssumption
<1>3. began[r] \in Nat
  BY DEF IInv, TypeOK
<1> QED
  BY <1>1, <1>2, <1>3 DEF NewRow, Row, Statuses, OpenStatuses

LEMMA PlaceInsertInv ==
    ASSUME IInv, NEW r \in Requests, PlaceInsert(r)
    PROVE  IInv'
<1> USE DEF IInv
<1>1. PICK n \in OrderIds :
         /\ NextId(n)
         /\ InsertRow(n, NewRow(r))
         /\ \/ /\ pc' = [pc EXCEPT ![r] = "enqueue"]
               /\ result' = [result EXCEPT ![r] = n]
               /\ UNCHANGED abandoned
            \/ /\ pc' = [pc EXCEPT ![r] = "failed"]
               /\ abandoned' = abandoned \cup {n}
               /\ UNCHANGED result
  BY DEF PlaceInsert
<1>2. n \notin Placed
  BY <1>1 DEF NextId
<1>3. NewRow(r) \in Row
  BY NewRowIsRow DEF PlaceInsert
<1>4. /\ Placed' = Placed \cup {n}
      /\ orders'[n] = NewRow(r)
      /\ \A o \in Placed : orders'[o] = orders[o]
      /\ orders' \in [Placed' -> Row]
      /\ Placed' \subseteq OrderIds
  BY <1>1, <1>2, <1>3 DEF InsertRow, Placed, TypeOK
<1>5. UNCHANGED <<trades, balance, ledger, portfolios, queue, engine, input, began, clock, dropped>>
  BY DEF PlaceInsert
<1>6. TypeOK'
  <2>1. pc' \in [Requests -> CallPCs]
    BY <1>1 DEF TypeOK, CallPCs
  <2>2. result \in [Requests -> OrderIds \cup {NoOrder}] /\ abandoned \subseteq OrderIds
    BY DEF TypeOK
  <2>3. result' \in [Requests -> OrderIds \cup {NoOrder}]
    BY <1>1, <2>2
  <2>4. abandoned' \subseteq OrderIds
    BY <1>1, <2>2
  <2> QED
    BY <1>4, <1>5, <2>1, <2>3, <2>4 DEF TypeOK
<1>7. CallInv'
  <2>1. CASE pc' = [pc EXCEPT ![r] = "enqueue"] /\ result' = [result EXCEPT ![r] = n]
    BY <1>4, <1>5, <2>1 DEF CallInv, TypeOK, PlaceInsert
  <2>2. CASE pc' = [pc EXCEPT ![r] = "failed"] /\ UNCHANGED result
    BY <1>4, <1>5, <2>2 DEF CallInv, TypeOK, PlaceInsert
  <2> QED
    BY <1>1, <2>1, <2>2
<1>8. QueueInv'
  BY <1>4, <1>5 DEF QueueInv
<1>9. EngineInv'
  BY <1>4, <1>5 DEF EngineInv
<1>10. StatusMatchesFill'
  <2>1. /\ NewRow(r).status = "PENDING" /\ NewRow(r).filled = 0
        /\ NewRow(r).quantity \in Nat \ {0}
    BY <1>3 DEF NewRow, Row
  <2> QED
    BY <1>4, <2>1 DEF StatusMatchesFill
<1>11. SellersHoldRows'
  <2>1. NewRow(r).side = "SELL" =>
           <<NewRow(r).user, NewRow(r).asset>> \in DOMAIN portfolios
    BY DEF NewRow, PlaceInsert, CallInv
  <2> QED
    BY <1>4, <1>5, <2>1 DEF SellersHoldRows
<1> QED
  BY <1>6, <1>7, <1>8, <1>9, <1>10, <1>11

(* The columns of a row that no update changes. *)
SameOrder(new, old) ==
    /\ new.user = old.user /\ new.asset = old.asset /\ new.side = old.side
    /\ new.price = old.price /\ new.quantity = old.quantity
    /\ new.key = old.key /\ new.createdAt = old.createdAt

(* What an action that updates rows, and moves neither the calls nor the      *)
(* channel, has to show.                                                      *)
LEMMA UpdateOnly ==
    ASSUME IInv, UNCHANGED <<queue, calls, dropped, abandoned>>,
           \/ engine' = engine
           \/ engine' = [engine EXCEPT !.pc = "refetch"] /\ ~EngineAt("idle"),
           Placed' = Placed, orders' \in [Placed -> Row],
           \A o \in Placed : SameOrder(orders'[o], orders[o]),
           StatusMatchesFill',
           trades' \in Seq(Trade),
           balance' \in [WalletOwners -> 0..MaxNumeric],
           ledger' \in [WalletOwners -> Int],
           DOMAIN portfolios \subseteq DOMAIN portfolios',
           DOMAIN portfolios' \subseteq Users \X Assets,
           portfolios' \in [DOMAIN portfolios' -> 0..MaxNumeric]
    PROVE  IInv'
<1> USE DEF IInv
<1>1. engine' \in [pc : EnginePCs, incoming : OrderIds \cup {NoOrder},
                   candidate : OrderIds \cup {NoOrder}]
  BY DEF TypeOK, EnginePCs
<1>2. TypeOK'
  BY <1>1 DEF TypeOK, calls
<1>3. CallInv'
  BY DEF CallInv, calls
<1>4. QueueInv'
  BY DEF QueueInv
<1>5. EngineInv'
  <2>1. CASE engine' = engine
    BY <2>1 DEF EngineInv, SameOrder
  <2>2. CASE engine' = [engine EXCEPT !.pc = "refetch"] /\ ~EngineAt("idle")
    BY <2>2 DEF EngineInv, EngineAt, TypeOK
  <2> QED
    BY <2>1, <2>2
<1>6. SellersHoldRows'
  BY DEF SellersHoldRows, SameOrder
<1> QED
  BY <1>2, <1>3, <1>4, <1>5, <1>6

(* The part of StatusMatchesFill that is about one row. *)
FillOK(row) ==
    /\ row.status = "PENDING" => row.filled = 0
    /\ row.status = "PARTIALLY_FILLED" => row.filled > 0
    /\ row.status = "FILLED" => row.filled = row.quantity
    /\ row.filled = row.quantity => row.status = "FILLED" \/ Inexact
    /\ row.filled <= row.quantity

LEMMA StatusByRow ==
    /\ StatusMatchesFill <=> \A o \in Placed : FillOK(orders[o])
    /\ StatusMatchesFill' <=> \A o \in Placed' : FillOK(orders'[o])
BY DEF StatusMatchesFill, FillOK

(* Cancelling an open row. *)
LEMMA CancelRow ==
    ASSUME NEW row \in Row, isOpen(row.status), FillOK(row)
    PROVE  LET new == [row EXCEPT !.status = "CANCELLED"]
           IN  new \in Row /\ FillOK(new) /\ SameOrder(new, row)
BY DEF Row, isOpen, OpenStatuses, Statuses, FillOK, SameOrder

LEMMA CancelOrderInv ==
    ASSUME IInv, NEW u \in Users, NEW o \in OrderIds, CancelOrder(u, o)
    PROVE  IInv'
<1> DEFINE new == [orders[o] EXCEPT !.status = "CANCELLED"]
<1>1. o \in Placed /\ isOpen(orders[o].status)
  BY DEF CancelOrder, Open
<1>2. \A i \in Placed : orders[i] \in Row /\ FillOK(orders[i])
  BY StatusByRow DEF IInv, TypeOK
<1>3. new \in Row /\ FillOK(new) /\ SameOrder(new, orders[o])
  BY <1>1, <1>2, CancelRow
<1> HIDE DEF new
<1>4. orders' = [orders EXCEPT ![o] = new] /\ orders \in [Placed -> Row]
  BY DEF CancelOrder, new, IInv, TypeOK
<1>5. Placed' = Placed /\ orders' \in [Placed -> Row]
  BY <1>1, <1>3, <1>4 DEF Placed
<1>6. \A i \in Placed : SameOrder(orders'[i], orders[i])
  BY <1>1, <1>3, <1>4 DEF SameOrder
<1>7. StatusMatchesFill'
  BY <1>1, <1>2, <1>3, <1>4, <1>5, StatusByRow
<1>8. /\ UNCHANGED <<queue, calls, dropped, abandoned>>
      /\ engine' = engine /\ trades' = trades /\ balance' = balance
      /\ ledger' = ledger /\ portfolios' = portfolios
  BY DEF CancelOrder
<1>9. /\ trades \in Seq(Trade)
      /\ balance \in [WalletOwners -> 0..MaxNumeric]
      /\ ledger \in [WalletOwners -> Int]
      /\ DOMAIN portfolios \subseteq Users \X Assets
      /\ portfolios \in [DOMAIN portfolios -> 0..MaxNumeric]
  BY DEF IInv, TypeOK
<1> QED
  BY <1>5, <1>6, <1>7, <1>8, <1>9, UpdateOnly

LEMMA ExpireStaleOrdersInv ==
    ASSUME IInv, NEW cutoff \in Int, ExpireStaleOrders(cutoff)
    PROVE  IInv'
<1> DEFINE new(o) == [orders[o] EXCEPT !.status = "CANCELLED"]
<1>1. \A o \in Placed : orders[o] \in Row /\ FillOK(orders[o])
  BY StatusByRow DEF IInv, TypeOK
<1>2. \A o \in Placed : isOpen(orders[o].status) =>
         new(o) \in Row /\ FillOK(new(o)) /\ SameOrder(new(o), orders[o])
  BY <1>1, CancelRow
<1> HIDE DEF new
<1>3. orders' = [o \in Placed |-> IF isOpen(orders[o].status) /\ orders[o].createdAt < cutoff
                                 THEN new(o) ELSE orders[o]]
  BY DEF ExpireStaleOrders, Open, new
<1>4. Placed' = Placed /\ orders' \in [Placed -> Row]
  BY <1>1, <1>2, <1>3 DEF Placed
<1>5. \A i \in Placed : SameOrder(orders'[i], orders[i])
  BY <1>2, <1>3 DEF SameOrder
<1>6. StatusMatchesFill'
  BY <1>1, <1>2, <1>3, <1>4, StatusByRow
<1>7. /\ UNCHANGED <<queue, calls, dropped, abandoned>>
      /\ engine' = engine /\ trades' = trades /\ balance' = balance
      /\ ledger' = ledger /\ portfolios' = portfolios
  BY DEF ExpireStaleOrders
<1>8. /\ trades \in Seq(Trade)
      /\ balance \in [WalletOwners -> 0..MaxNumeric]
      /\ ledger \in [WalletOwners -> Int]
      /\ DOMAIN portfolios \subseteq Users \X Assets
      /\ portfolios \in [DOMAIN portfolios -> 0..MaxNumeric]
  BY DEF IInv, TypeOK
<1> QED
  BY <1>4, <1>5, <1>6, <1>7, <1>8, UpdateOnly

LEMMA WalletInv ==
    ASSUME IInv, NEW u \in Users, NEW amount \in Amounts,
           Deposit(u, amount) \/ Withdraw(u, amount)
    PROVE  IInv'
<1>1. u \in WalletOwners /\ amount \in Nat /\ MaxNumeric \in Nat
  BY ConstantsAssumption DEF Deposit, Withdraw
<1>2. /\ orders \in [Placed -> Row]
      /\ trades \in Seq(Trade)
      /\ balance \in [WalletOwners -> 0..MaxNumeric]
      /\ ledger \in [WalletOwners -> Int]
      /\ DOMAIN portfolios \subseteq Users \X Assets
      /\ portfolios \in [DOMAIN portfolios -> 0..MaxNumeric]
      /\ StatusMatchesFill
  BY DEF IInv, TypeOK
<1>3. balance' \in [WalletOwners -> 0..MaxNumeric]
  <2>1. balance[u] \in 0..MaxNumeric
    BY <1>1, <1>2
  <2>2. CASE Deposit(u, amount)
    BY <1>1, <1>2, <2>1, <2>2 DEF Deposit
  <2>3. CASE Withdraw(u, amount)
    BY <1>1, <1>2, <2>1, <2>3 DEF Withdraw
  <2> QED
    BY <2>2, <2>3
<1>4. ledger' \in [WalletOwners -> Int]
  BY <1>1, <1>2 DEF Deposit, Withdraw
<1>5. /\ UNCHANGED <<queue, calls, dropped, abandoned>>
      /\ engine' = engine /\ orders' = orders /\ trades' = trades /\ portfolios' = portfolios
  BY DEF Deposit, Withdraw
<1>6. Placed' = Placed /\ StatusMatchesFill' /\ \A o \in Placed : SameOrder(orders'[o], orders[o])
  BY <1>2, <1>5 DEF Placed, StatusMatchesFill, SameOrder
<1> QED
  BY <1>2, <1>3, <1>4, <1>5, <1>6, UpdateOnly

EngineType == [pc : EnginePCs, incoming : OrderIds \cup {NoOrder},
               candidate : OrderIds \cup {NoOrder}]

LEMMA EngineReceiveInv ==
    ASSUME IInv, EngineReceive
    PROVE  IInv'
<1>1. queue \in Seq(OrderIds) /\ queue # <<>>
  BY DEF IInv, TypeOK, EngineReceive
<1>2. Head(queue) \in OrderIds /\ Tail(queue) \in Seq(OrderIds)
  BY <1>1
<1>3. Head(queue) \in Placed /\ \A i \in 1..Len(Tail(queue)) : Tail(queue)[i] \in Placed
  BY <1>1 DEF IInv, QueueInv
<1>4. engine' \in EngineType
  BY <1>2 DEF EngineReceive, EngineType, EnginePCs
<1>5. UNCHANGED <<tables, calls>> /\ Placed' = Placed
  BY DEF EngineReceive, tables, Placed
<1>6. EngineInv' /\ QueueInv'
  BY <1>3, <1>5 DEF EngineReceive, EngineInv, QueueInv
<1>7. queue' \in Seq(OrderIds) /\ dropped' \subseteq OrderIds /\ abandoned' \subseteq OrderIds
  BY <1>2 DEF EngineReceive, IInv, TypeOK
<1> QED
  BY <1>4, <1>5, <1>6, <1>7, EngineOnly DEF EngineType

(* The steps of the loop that leave the tables and the channel alone, and      *)
(* either go to a point where only the incoming order matters, or return.      *)
LEMMA EngineLoopInv ==
    ASSUME IInv, ~EngineAt("idle"), UNCHANGED <<tables, calls, queue, dropped>>,
           \/ /\ \E p \in EnginePCs \ {"idle", "execute"} : EngineGoto(p)
              /\ UNCHANGED abandoned
           \/ EngineDone
           \/ EngineAbort
    PROVE  IInv'
<1>1. engine \in EngineType /\ queue \in Seq(OrderIds) /\ dropped \subseteq OrderIds
      /\ abandoned \subseteq OrderIds /\ QueueInv
  BY DEF IInv, TypeOK, EngineType
<1>2. engine.incoming \in Placed /\ engine.incoming \in OrderIds
  BY DEF IInv, EngineInv, EngineAt, TypeOK
<1>3. engine' \in EngineType
  BY <1>1 DEF EngineType, EngineGoto, EngineDone, EngineAbort, Idle, EnginePCs
<1>4. abandoned' \subseteq OrderIds
  BY <1>1, <1>2 DEF EngineDone, EngineAbort
<1>5. Placed' = Placed
  BY DEF tables, Placed
<1>6. EngineInv'
  <2>1. CASE \E p \in EnginePCs \ {"idle", "execute"} : EngineGoto(p)
    BY <1>1, <1>2, <1>5, <2>1 DEF EngineGoto, EngineInv, EngineType
  <2>2. CASE engine' = Idle
    BY <2>2 DEF Idle, EngineInv
  <2> QED
    BY <2>1, <2>2 DEF EngineDone, EngineAbort
<1>7. QueueInv' /\ queue' \in Seq(OrderIds) /\ dropped' \subseteq OrderIds
  BY <1>1, <1>5 DEF QueueInv
<1>8. UNCHANGED <<tables, calls>>
  OBVIOUS
<1> QED
  BY <1>3, <1>4, <1>6, <1>7, <1>8, EngineOnly DEF EngineType

LEMMA EngineFindInv ==
    ASSUME IInv, EngineFind
    PROVE  IInv'
<1>1. CASE EngineDone
  BY <1>1, EngineLoopInv DEF EngineFind, EngineAt
<1>2. CASE \E c \in Best(Eligible) :
              /\ engine' = [engine EXCEPT !.pc = "execute", !.candidate = c]
              /\ UNCHANGED abandoned
  <2>1. PICK c \in Best(Eligible) :
           /\ engine' = [engine EXCEPT !.pc = "execute", !.candidate = c]
           /\ UNCHANGED abandoned
    BY <1>2
  <2>2. c \in Placed /\ eligible(orders[engine.incoming], orders[c])
    BY DEF Best, Eligible
  <2>3. engine \in EngineType /\ Placed \subseteq OrderIds /\ engine.incoming \in Placed
    BY DEF IInv, TypeOK, EngineType, EngineInv, EngineFind, EngineAt
  <2>4. engine' \in EngineType
    BY <2>1, <2>2, <2>3 DEF EngineType, EnginePCs
  <2>5. UNCHANGED <<tables, calls>> /\ Placed' = Placed /\ orders' = orders
    BY DEF EngineFind, tables, Placed
  <2>6. EngineInv'
    BY <2>1, <2>2, <2>3, <2>5 DEF EngineInv, EngineType, eligible
  <2>7. QueueInv' /\ queue' \in Seq(OrderIds) /\ dropped' \subseteq OrderIds
        /\ abandoned' \subseteq OrderIds
    BY <2>1, <2>5 DEF IInv, TypeOK, QueueInv, EngineFind
  <2> QED
    BY <2>4, <2>5, <2>6, <2>7, EngineOnly DEF EngineType
<1> QED
  BY <1>1, <1>2 DEF EngineFind

LEMMA EngineMoveInv ==
    ASSUME IInv,
           \/ EngineFetch \/ ExecuteUnmatched \/ ExecuteError
           \/ EngineRecheck \/ EngineRefetch \/ EngineFail
    PROVE  IInv'
<1>1. ~EngineAt("idle")
  BY DEF EngineFetch, ExecuteUnmatched, ExecuteError, EngineRecheck, EngineRefetch,
         EngineFail, EngineAt
<1>2. UNCHANGED <<tables, calls, queue, dropped>>
  BY DEF EngineFetch, ExecuteUnmatched, ExecuteError, EngineRecheck, EngineRefetch, EngineFail
<1>3. \/ /\ \E p \in EnginePCs \ {"idle", "execute"} : EngineGoto(p)
         /\ UNCHANGED abandoned
      \/ EngineDone
      \/ EngineAbort
  BY DEF EngineFetch, ExecuteUnmatched, ExecuteError, EngineRecheck, EngineRefetch,
         EngineFail, EnginePCs
<1> QED
  BY <1>1, <1>2, <1>3, EngineLoopInv

LEMMA CrashInv ==
    ASSUME IInv, Crash
    PROVE  IInv'
<1> USE DEF IInv
<1>1. pc' \in [Requests -> CallPCs] /\ result' \in [Requests -> OrderIds \cup {NoOrder}]
  BY DEF Crash, TypeOK, CallPCs
<1>2. engine' \in EngineType /\ queue' \in Seq(OrderIds) /\ abandoned' \subseteq OrderIds
  BY DEF Crash, EngineType, Idle, EnginePCs, TypeOK
<1>3. UNCHANGED <<orders, trades, balance, ledger, portfolios, input, began, clock, dropped>>
      /\ Placed' = Placed
  BY DEF Crash, tables, Placed
<1>4. TypeOK'
  BY <1>1, <1>2, <1>3 DEF TypeOK, EngineType
<1>5. CallInv'
  BY <1>3 DEF Crash, CallInv, TypeOK
<1>6. QueueInv' /\ EngineInv'
  BY DEF Crash, QueueInv, EngineInv, Idle
<1>7. StatusMatchesFill' /\ SellersHoldRows'
  BY <1>3 DEF StatusMatchesFill, SellersHoldRows
<1> QED
  BY <1>4, <1>5, <1>6, <1>7

-------------------------------------------------------------------------------
(* executeTrade *)

(* The two orders of a trade: what the engine knew when it chose them still     *)
(* holds under the locks.                                                       *)
LEMMA TradeFacts ==
    ASSUME IInv, EngineAt("execute")
    PROVE  /\ BuyId \in Placed /\ SellId \in Placed /\ BuyId # SellId
           /\ {BuyId, SellId} = {engine.incoming, engine.candidate}
           /\ orders[BuyId] \in Row /\ orders[SellId] \in Row
           /\ orders[BuyId].side = "BUY" /\ orders[SellId].side = "SELL"
           /\ orders[SellId].asset = asset
           /\ buyer # seller
           /\ orders[SellId].price <= tradePrice /\ tradePrice <= orders[BuyId].price
           /\ tradePrice \in Nat \ {0}
<1>1. /\ engine.incoming \in Placed /\ engine.candidate \in Placed
      /\ orders[engine.incoming] \in Row /\ orders[engine.candidate] \in Row
  BY DEF IInv, EngineInv, TypeOK, EngineAt
<1>2. /\ orders[engine.candidate].asset = orders[engine.incoming].asset
      /\ orders[engine.candidate].side = oppositeSide(orders[engine.incoming].side)
      /\ orders[engine.candidate].user # orders[engine.incoming].user
      /\ crosses(orders[engine.incoming].side, orders[engine.incoming].price,
                 orders[engine.candidate].price)
  BY DEF IInv, EngineInv, EngineAt
<1>3. /\ orders[engine.incoming].side \in {"BUY", "SELL"}
      /\ orders[engine.incoming].price \in Nat
      /\ orders[engine.candidate].price \in Nat \ {0}
  BY <1>1 DEF Row, Sides
<1> QED
  BY <1>1, <1>2, <1>3 DEF BuyId, SellId, asset, buyer, seller, tradePrice, oppositeSide, crosses

(* Filling a row by no more than what remains of it. *)
LEMMA FillRow ==
    ASSUME NEW row \in Row, FillOK(row), NEW q \in Nat \ {0}, q <= remaining(row),
           isOpen(row.status), NEW st \in newStatus(row.filled, q, row.quantity)
    PROVE  LET new == [row EXCEPT !.filled = @ + q, !.status = st]
           IN  /\ new \in Row /\ FillOK(new) /\ SameOrder(new, row)
               /\ new.filled > row.filled
<1> DEFINE new == [row EXCEPT !.filled = @ + q, !.status = st]
<1>1. row.filled \in Nat /\ row.quantity \in Nat /\ row.filled + q <= row.quantity
  BY DEF Row, remaining
<1>2. /\ st \in {"FILLED", "PARTIALLY_FILLED"}
      /\ st = "FILLED" => row.filled + q = row.quantity
      /\ row.filled + q = row.quantity => st = "FILLED" \/ Inexact
  BY <1>1 DEF newStatus
<1>3. new \in Row /\ SameOrder(new, row)
  <2>1. st \in Statuses /\ row.filled + q \in Nat
    BY <1>1, <1>2 DEF Statuses, OpenStatuses
  <2>2. new \in Row
    BY <2>1 DEF Row
  <2>3. SameOrder(new, row)
    BY DEF Row, SameOrder
  <2> QED
    BY <2>2, <2>3
<1>4. new.filled = row.filled + q /\ new.status = st /\ new.quantity = row.quantity
  BY DEF Row
<1>5. FillOK(new)
  BY <1>1, <1>2, <1>4 DEF FillOK
<1> QED
  BY <1>1, <1>3, <1>4, <1>5

(* The quantity of a trade, and the two rows it writes. *)
LEMMA FillFacts ==
    ASSUME IInv, EngineAt("execute"), Matchable
    PROVE  /\ fillQty \in Nat \ {0}
           /\ tradeCost \in Nat
           /\ \A o \in {BuyId, SellId} : \A x \in filledRows(o) :
                 /\ x \in Row /\ FillOK(x)
                 /\ SameOrder(x, orders[o])
                 /\ x.filled > orders[o].filled
<1>1. \A o \in {BuyId, SellId} : o \in Placed /\ orders[o] \in Row /\ FillOK(orders[o])
                                 /\ isOpen(orders[o].status)
  BY TradeFacts, StatusByRow DEF Matchable, Open, IInv
<1>2. remaining(orders[BuyId]) \in Int /\ remaining(orders[SellId]) \in Int
  BY <1>1 DEF Row, remaining
<1>3. fillQty \in Nat \ {0} /\ \A o \in {BuyId, SellId} : fillQty <= remaining(orders[o])
  BY <1>2 DEF Matchable, fillQty, minBig
<1>4. tradeCost \in Nat
  BY <1>3, TradeFacts DEF tradeCost
<1>5. ASSUME NEW o \in {BuyId, SellId}, NEW x \in filledRows(o)
      PROVE  x \in Row /\ FillOK(x) /\ SameOrder(x, orders[o]) /\ x.filled > orders[o].filled
  <2>1. PICK st \in newStatus(orders[o].filled, fillQty, orders[o].quantity) :
           x = [orders[o] EXCEPT !.filled = @ + fillQty, !.status = st]
    BY DEF filledRows
  <2> QED
    BY <1>1, <1>3, <2>1, FillRow
<1> QED
  BY <1>3, <1>4, <1>5

(* What a committed trade does to each table. *)
LEMMA CommitFacts ==
    ASSUME IInv, ExecuteCommit
    PROVE  /\ Placed' = Placed /\ orders' \in [Placed -> Row]
           /\ \A o \in Placed \ {BuyId, SellId} : orders'[o] = orders[o]
           /\ \A o \in {BuyId, SellId} : orders'[o] \in filledRows(o)
<1>1. /\ BuyId \in Placed /\ SellId \in Placed /\ BuyId # SellId
  BY TradeFacts DEF ExecuteCommit
<1>2. PICK x \in filledRows(BuyId), y \in filledRows(SellId) :
         orders' = [orders EXCEPT ![BuyId] = x, ![SellId] = y]
  BY DEF ExecuteCommit, WriteTrade
<1>3. x \in Row /\ y \in Row
  BY FillFacts DEF ExecuteCommit
<1>4. orders \in [Placed -> Row]
  BY DEF IInv, TypeOK
<1> QED
  BY <1>1, <1>2, <1>3, <1>4 DEF Placed

LEMMA SettledHoldingsType ==
    ASSUME IInv, EngineAt("execute"), Matchable,
           \A k \in DOMAIN settledHoldings : settledHoldings[k] \in 0..MaxNumeric
    PROVE  /\ DOMAIN portfolios \subseteq DOMAIN settledHoldings
           /\ DOMAIN settledHoldings \subseteq Users \X Assets
           /\ settledHoldings \in [DOMAIN settledHoldings -> 0..MaxNumeric]
<1> DEFINE dom == DOMAIN portfolios \cup {<<buyer, asset>>}
<1>1. DOMAIN settledHoldings = dom /\ settledHoldings = [k \in dom |-> settledHoldings[k]]
  BY DEF settledHoldings
<1>2. buyer \in Users /\ asset \in Assets
  BY TradeFacts DEF buyer, asset, Row
<1>3. DOMAIN portfolios \subseteq Users \X Assets
  BY DEF IInv, TypeOK
<1> QED
  BY <1>1, <1>2, <1>3

LEMMA ExecuteCommitInv ==
    ASSUME IInv, ExecuteCommit
    PROVE  IInv'
<1>1. PICK b \in BuyerBalances, s \in SellerBalances, amount \in AmountStrings :
         Settles(b, s, amount) /\ WriteTrade(b, s, amount)
  BY DEF ExecuteCommit
<1>2. EngineAt("execute") /\ Matchable /\ buyer \in WalletOwners /\ seller \in WalletOwners
  BY DEF ExecuteCommit
<1>3. /\ balance \in [WalletOwners -> 0..MaxNumeric] /\ ledger \in [WalletOwners -> Int]
      /\ trades \in Seq(Trade) /\ Placed \subseteq OrderIds /\ MaxNumeric \in Nat
      /\ balance[buyer] \in Nat /\ balance[seller] \in Nat
  BY <1>2, ConstantsAssumption DEF IInv, TypeOK
<1>4. tradeCost \in Nat /\ fillQty \in Nat \ {0}
  BY <1>2, FillFacts
<1>5. b \in 0..balance[buyer]
  BY <1>1, <1>3, <1>4, DebitBounds DEF Settles, BuyerBalances
<1>6. s \in Nat /\ s <= MaxNumeric
  <2>1. balance[seller] * Scale + tradeCost \in Nat
    BY <1>3, <1>4, CreditIsNat
  <2> QED
    BY <1>1, <2>1, RoundedIsNear DEF Settles, SellerBalances
<1>7. amount \in Nat
  BY <1>1, <1>4, RoundedIsNear DEF AmountStrings
<1>8. balance' \in [WalletOwners -> 0..MaxNumeric]
  <2>1. b \in 0..MaxNumeric /\ s \in 0..MaxNumeric
    BY <1>2, <1>3, <1>5, <1>6
  <2>2. balance' = [balance EXCEPT ![buyer] = b, ![seller] = s]
    BY <1>1 DEF WriteTrade
  <2> QED
    BY <1>3, <2>1, <2>2
<1>9. ledger' \in [WalletOwners -> Int]
  BY <1>1, <1>2, <1>3, <1>7 DEF WriteTrade
<1>10. trades' \in Seq(Trade)
  <2>1. [buyOrder |-> BuyId, sellOrder |-> SellId, price |-> tradePrice, quantity |-> fillQty]
          \in Trade
    BY <1>2, <1>3, <1>4, TradeFacts DEF Trade
  <2> QED
    BY <1>1, <1>3, <2>1 DEF WriteTrade
<1>11. /\ DOMAIN portfolios \subseteq DOMAIN portfolios'
       /\ DOMAIN portfolios' \subseteq Users \X Assets
       /\ portfolios' \in [DOMAIN portfolios' -> 0..MaxNumeric]
  BY <1>1, <1>2, SettledHoldingsType DEF Settles, WriteTrade
<1>12. Placed' = Placed /\ orders' \in [Placed -> Row]
  BY CommitFacts
<1>13. \A o \in Placed : SameOrder(orders'[o], orders[o])
  BY <1>2, CommitFacts, FillFacts DEF SameOrder
<1>14. StatusMatchesFill'
  <2>1. \A o \in Placed : FillOK(orders[o])
    BY StatusByRow DEF IInv
  <2>2. \A o \in Placed' : FillOK(orders'[o])
    BY <1>2, <2>1, CommitFacts, FillFacts
  <2> QED
    BY <2>2, StatusByRow
<1>15. UNCHANGED <<queue, calls, dropped, abandoned>>
  BY DEF ExecuteCommit
<1>16. engine' = [engine EXCEPT !.pc = "refetch"] /\ ~EngineAt("idle")
  BY <1>2 DEF ExecuteCommit, EngineGoto, EngineAt
<1> QED
  BY <1>8, <1>9, <1>10, <1>11, <1>12, <1>13, <1>14, <1>15, <1>16, UpdateOnly

LEMMA NextIInv == IInv /\ [Next]_vars => IInv'
<1> SUFFICES ASSUME IInv, [Next]_vars PROVE IInv'
  OBVIOUS
<1>1. CASE \E r \in Requests : PlaceOrder(r)
  BY <1>1, PlaceLookupInv, PlaceCheckInv, PlaceBeginInv, PlaceInsertInv, PlaceQuietInv,
     PlaceDuplicateInv, PlaceEnqueueInv DEF PlaceOrder
<1>2. CASE \E u \in Users, o \in OrderIds : CancelOrder(u, o)
  BY <1>2, CancelOrderInv
<1>3. CASE \E cutoff \in 1..(clock + 1) : ExpireStaleOrders(cutoff)
  BY <1>3, ExpireStaleOrdersInv
<1>4. CASE \E u \in Users, amount \in Amounts : Deposit(u, amount) \/ Withdraw(u, amount)
  BY <1>4, WalletInv
<1>5. CASE EngineStep
  BY <1>5, EngineReceiveInv, EngineFindInv, EngineMoveInv, ExecuteCommitInv DEF EngineStep
<1>6. CASE EngineFail
  BY <1>6, EngineMoveInv
<1>7. CASE Crash
  BY <1>7, CrashInv
<1>8. CASE UNCHANGED vars
  BY <1>8 DEF vars, tables, calls, IInv, TypeOK, CallInv, QueueInv, EngineInv,
              StatusMatchesFill, SellersHoldRows, Placed
<1> QED
  BY <1>1, <1>2, <1>3, <1>4, <1>5, <1>6, <1>7, <1>8 DEF Next

(* The inductive invariant holds in every reachable state. *)
THEOREM IInvHolds == Spec => []IInv
BY InitIInv, NextIInv, PTL DEF Spec

(* Every table, channel and local variable keeps its type: in particular no     *)
(* balance and no holding ever leaves what its column can hold.                 *)
THEOREM TypeCorrect == Spec => []TypeOK
<1>1. IInv => TypeOK
  BY DEF IInv
<1> QED
  BY <1>1, IInvHolds, PTL

(* The status column agrees with the filled quantity under every interleaving   *)
(* of trades, cancellations and expiry.                                         *)
THEOREM StatusCorrect == Spec => []StatusMatchesFill
<1>1. IInv => StatusMatchesFill
  BY DEF IInv
<1> QED
  BY <1>1, IInvHolds, PTL

(* Every seller has a holding row: ReduceSellerHolding never misses. *)
THEOREM SellersCorrect == Spec => []SellersHoldRows
<1>1. IInv => SellersHoldRows
  BY DEF IInv
<1> QED
  BY <1>1, IInvHolds, PTL

-------------------------------------------------------------------------------
(* Rows only advance *)

(* What one step may do to a row that is already in the table. *)
RowAdvances(o) ==
    /\ o \in Placed'
    /\ SameOrder(orders'[o], orders[o])
    /\ orders[o].filled <= orders'[o].filled
    /\ ~Open(o) => orders'[o] = orders[o]

LEMMA RowsStep ==
    ASSUME IInv, [Next]_vars
    PROVE  \A o \in Placed : RowAdvances(o)
<1>1. \A o \in Placed : orders[o] \in Row /\ orders[o].filled \in Nat
  BY DEF IInv, TypeOK, Row
<1>2. ASSUME UNCHANGED orders PROVE \A o \in Placed : RowAdvances(o)
  BY <1>1, <1>2 DEF RowAdvances, SameOrder, Placed
<1>3. CASE \E r \in Requests : PlaceInsert(r)
  <2>1. PICK r \in Requests, n \in OrderIds : NextId(n) /\ InsertRow(n, NewRow(r))
    BY <1>3 DEF PlaceInsert
  <2>2. \A o \in Placed : o \in Placed' /\ orders'[o] = orders[o]
    BY <2>1 DEF NextId, InsertRow, Placed
  <2> QED
    BY <1>1, <2>2 DEF RowAdvances, SameOrder
<1>4. CASE \E u \in Users, o \in OrderIds : CancelOrder(u, o)
  <2>1. PICK c \in Placed : /\ Open(c)
                            /\ orders' = [orders EXCEPT ![c].status = "CANCELLED"]
    BY <1>4 DEF CancelOrder
  <2>2. \A o \in Placed : o # c => orders'[o] = orders[o]
    BY <2>1 DEF Placed
  <2>3. orders'[c] = [orders[c] EXCEPT !.status = "CANCELLED"] /\ Placed' = Placed
    BY <2>1 DEF Placed
  <2>4. RowAdvances(c)
    BY <1>1, <2>1, <2>3 DEF RowAdvances, SameOrder, Row
  <2>5. \A o \in Placed : o # c => RowAdvances(o)
    BY <1>1, <2>2, <2>3 DEF RowAdvances, SameOrder
  <2> QED
    BY <2>4, <2>5
<1>5. CASE \E cutoff \in 1..(clock + 1) : ExpireStaleOrders(cutoff)
  <2>1. Placed' = Placed
    BY <1>5 DEF ExpireStaleOrders, Placed
  <2> SUFFICES ASSUME NEW o \in Placed PROVE RowAdvances(o)
    OBVIOUS
  <2>2. \/ orders'[o] = orders[o]
        \/ Open(o) /\ orders'[o] = [orders[o] EXCEPT !.status = "CANCELLED"]
    BY <1>5 DEF ExpireStaleOrders
  <2> QED
    BY <1>1, <2>1, <2>2 DEF RowAdvances, SameOrder, Row
<1>6. CASE ExecuteCommit
  <2>1. \A o \in {BuyId, SellId} : /\ Open(o) /\ orders'[o] \in Row
                                   /\ SameOrder(orders'[o], orders[o])
                                   /\ orders'[o].filled > orders[o].filled
    BY <1>6, CommitFacts, FillFacts DEF ExecuteCommit, Matchable
  <2>2. Placed' = Placed /\ \A o \in Placed \ {BuyId, SellId} : orders'[o] = orders[o]
    BY <1>6, CommitFacts
  <2>3. \A o \in {BuyId, SellId} : o \in Placed => RowAdvances(o)
    BY <1>1, <2>1, <2>2 DEF RowAdvances, Row
  <2> QED
    BY <1>1, <2>2, <2>3 DEF RowAdvances, SameOrder
<1>7. \/ UNCHANGED orders
      \/ \E r \in Requests : PlaceInsert(r)
      \/ \E u \in Users, o \in OrderIds : CancelOrder(u, o)
      \/ \E cutoff \in 1..(clock + 1) : ExpireStaleOrders(cutoff)
      \/ ExecuteCommit
  BY DEF Next, vars, tables, PlaceOrder, PlaceLookup, PlaceCheck, PlaceBegin, PlaceConflict,
         PlaceDuplicate, PlaceEnqueue, PlaceFail, Deposit, Withdraw, EngineStep, EngineReceive,
         EngineFetch, EngineFind, ExecuteUnmatched, ExecuteError, EngineRecheck,
         EngineRefetch, EngineFail, Crash
<1> QED
  BY <1>2, <1>3, <1>4, <1>5, <1>6, <1>7

(* Two rows that agree on the columns no update changes are equal up to the     *)
(* other two.                                                                   *)
LEMMA SameOrderExcept ==
    ASSUME NEW new \in Row, NEW old \in Row, SameOrder(new, old)
    PROVE  new = [old EXCEPT !.filled = new.filled, !.status = new.status]
BY DEF Row, SameOrder

(* No step deletes an order, changes what was ordered, takes back a fill or     *)
(* touches a FILLED or CANCELLED order.                                         *)
THEOREM RowsCorrect == Spec => RowsOnlyAdvance
<1>1. ASSUME IInv, [Next]_vars
      PROVE  [\A o \in Placed :
                 /\ o \in DOMAIN orders'
                 /\ orders'[o] = [orders[o] EXCEPT !.filled = orders'[o].filled,
                                                   !.status = orders'[o].status]
                 /\ orders[o].filled <= orders'[o].filled
                 /\ ~Open(o) => orders'[o] = orders[o]]_vars
  <2>1. IInv'
    BY <1>1, NextIInv
  <2> SUFFICES ASSUME NEW o \in Placed
               PROVE  /\ o \in DOMAIN orders'
                      /\ orders'[o] = [orders[o] EXCEPT !.filled = orders'[o].filled,
                                                        !.status = orders'[o].status]
                      /\ orders[o].filled <= orders'[o].filled
                      /\ ~Open(o) => orders'[o] = orders[o]
    OBVIOUS
  <2>2. RowAdvances(o)
    BY <1>1, RowsStep
  <2>3. orders[o] \in Row /\ orders'[o] \in Row
    BY <1>1, <2>1, <2>2 DEF IInv, TypeOK, RowAdvances
  <2> QED
    BY <2>2, <2>3, SameOrderExcept DEF RowAdvances, Placed
<1> QED
  BY <1>1, IInvHolds, PTL DEF Spec, RowsOnlyAdvance

-------------------------------------------------------------------------------
(* Trades respect limits *)

(* The part of TradesRespectLimits that is about one trade, in a table of orders. *)
LimitsOK(t, rows) ==
    /\ {t.buyOrder, t.sellOrder} \subseteq DOMAIN rows
    /\ rows[t.buyOrder].side = "BUY" /\ rows[t.sellOrder].side = "SELL"
    /\ rows[t.buyOrder].asset = rows[t.sellOrder].asset
    /\ rows[t.buyOrder].user # rows[t.sellOrder].user
    /\ rows[t.sellOrder].price <= t.price
    /\ t.price <= rows[t.buyOrder].price

(* The trades table grows by the trade of a commit and by nothing else. *)
LEMMA TradesGrow ==
    ASSUME [Next]_vars
    PROVE  \/ UNCHANGED trades
           \/ /\ ExecuteCommit
              /\ trades' = Append(trades, [buyOrder |-> BuyId, sellOrder |-> SellId,
                                           price |-> tradePrice, quantity |-> fillQty])
<1>1. CASE ExecuteCommit
  BY <1>1 DEF ExecuteCommit, WriteTrade
<1>2. UNCHANGED trades \/ ExecuteCommit
  BY DEF Next, vars, tables, PlaceOrder, PlaceLookup, PlaceCheck, PlaceBegin, PlaceInsert,
         PlaceConflict, PlaceDuplicate, PlaceEnqueue, PlaceFail, CancelOrder,
         ExpireStaleOrders, Deposit, Withdraw, EngineStep, EngineReceive, EngineFetch,
         EngineFind, ExecuteUnmatched, ExecuteError, EngineRecheck, EngineRefetch,
         EngineFail, Crash
<1> QED
  BY <1>1, <1>2

LEMMA TradesRespectLimitsStep ==
    ASSUME IInv, TradesRespectLimits, [Next]_vars
    PROVE  TradesRespectLimits'
<1>1. \A i \in DOMAIN trades : LimitsOK(trades[i], orders)
  BY DEF TradesRespectLimits, LimitsOK, Placed
<1>2. ASSUME NEW t, LimitsOK(t, orders) PROVE LimitsOK(t, orders')
  <2>1. \A o \in {t.buyOrder, t.sellOrder} :
           o \in DOMAIN orders' /\ SameOrder(orders'[o], orders[o])
    BY <1>2, RowsStep DEF LimitsOK, RowAdvances, Placed
  <2> QED
    BY <1>2, <2>1 DEF LimitsOK, SameOrder
<1>3. \A i \in DOMAIN trades' : LimitsOK(trades'[i], orders')
  <2>1. CASE UNCHANGED trades
    BY <1>1, <1>2, <2>1
  <2>2. CASE ExecuteCommit
    <3> DEFINE t == [buyOrder |-> BuyId, sellOrder |-> SellId,
                     price |-> tradePrice, quantity |-> fillQty]
    <3>1. LimitsOK(t, orders)
      BY <2>2, TradeFacts DEF ExecuteCommit, LimitsOK, buyer, seller, asset, Placed
    <3>2. trades' = Append(trades, t) /\ trades \in Seq(Trade)
      BY <2>2 DEF IInv, TypeOK, ExecuteCommit, WriteTrade
    <3> HIDE DEF t
    <3>3. \A i \in DOMAIN trades' :
             trades'[i] = t \/ (i \in DOMAIN trades /\ trades'[i] = trades[i])
      BY <3>2
    <3> QED
      BY <1>1, <1>2, <3>1, <3>3
  <2> QED
    BY <2>1, <2>2, TradesGrow
<1> QED
  BY <1>3 DEF TradesRespectLimits, LimitsOK, Placed

(* Every trade joins a BUY and a SELL of one asset and of two traders at a price *)
(* both accept, although executeTrade fixes the price before it locks the rows.  *)
THEOREM TradesCorrect == Spec => []TradesRespectLimits
<1>1. Init => TradesRespectLimits
  BY DEF Init, TradesRespectLimits
<1>2. IInv /\ TradesRespectLimits /\ [Next]_vars => TradesRespectLimits'
  BY TradesRespectLimitsStep
<1> QED
  BY <1>1, <1>2, IInvHolds, PTL DEF Spec

-------------------------------------------------------------------------------
(* Ledger drift *)

(* A balance and a recorded amount, rounded separately from one exact cost, are *)
(* at most one unit apart in what they make of it.                              *)
LEMMA DebitDrift ==
    ASSUME NEW bal \in Nat, NEW cost \in Nat, cost <= bal * Scale,
           NEW b \in fmt8f(bal * Scale - cost), NEW a \in fmt8f(cost)
    PROVE  b + a - bal <= 1 /\ bal - (b + a) <= 1
<1>1. bal * Scale - cost \in Nat
  BY ScaleAssumption
<1>2. /\ b \in Nat /\ 2 * (b * Scale - (bal * Scale - cost)) <= Scale
      /\ 2 * ((bal * Scale - cost) - b * Scale) <= Scale
  BY <1>1, RoundedIsNear
<1>3. a \in Nat /\ 2 * (a * Scale - cost) <= Scale /\ 2 * (cost - a * Scale) <= Scale
  BY RoundedIsNear
<1>4. /\ (b + a - bal) * Scale = b * Scale + a * Scale - bal * Scale
      /\ (bal - (b + a)) * Scale = bal * Scale - b * Scale - a * Scale
  BY <1>2, <1>3, ScaleAssumption
<1>5. b * Scale \in Int /\ a * Scale \in Int /\ bal * Scale \in Int /\ Scale \in Nat
  BY <1>2, <1>3, ScaleAssumption
<1>6. (b + a - bal) * Scale <= Scale /\ (bal - (b + a)) * Scale <= Scale
  BY <1>2, <1>3, <1>4, <1>5
<1> QED
  BY <1>2, <1>3, <1>6, ScaleCancel

LEMMA CreditDrift ==
    ASSUME NEW bal \in Nat, NEW cost \in Nat,
           NEW s \in fmt8f(bal * Scale + cost), NEW a \in fmt8f(cost)
    PROVE  s - a - bal <= 1 /\ bal + a - s <= 1
<1>1. bal * Scale + cost \in Nat
  BY CreditIsNat
<1>2. /\ s \in Nat /\ 2 * (s * Scale - (bal * Scale + cost)) <= Scale
      /\ 2 * ((bal * Scale + cost) - s * Scale) <= Scale
  BY <1>1, RoundedIsNear
<1>3. a \in Nat /\ 2 * (a * Scale - cost) <= Scale /\ 2 * (cost - a * Scale) <= Scale
  BY RoundedIsNear
<1>4. /\ (s - a - bal) * Scale = s * Scale - a * Scale - bal * Scale
      /\ (bal + a - s) * Scale = bal * Scale + a * Scale - s * Scale
  BY <1>2, <1>3, ScaleAssumption
<1>5. s * Scale \in Int /\ a * Scale \in Int /\ bal * Scale \in Int /\ Scale \in Nat
  BY <1>2, <1>3, ScaleAssumption
<1>6. (s - a - bal) * Scale <= Scale /\ (bal + a - s) * Scale <= Scale
  BY <1>2, <1>3, <1>4, <1>5
<1> QED
  BY <1>2, <1>3, <1>6, ScaleCancel

LEMMA LedgerDriftStep ==
    ASSUME IInv, LedgerDrift, [Next]_vars
    PROVE  LedgerDrift'
<1>1. /\ balance \in [WalletOwners -> 0..MaxNumeric] /\ ledger \in [WalletOwners -> Int]
      /\ trades \in Seq(Trade) /\ Len(trades) \in Nat
      /\ \A u \in WalletOwners : balance[u] \in Nat
  BY ConstantsAssumption DEF IInv, TypeOK
<1>2. CASE UNCHANGED <<balance, ledger, trades>>
  BY <1>2 DEF LedgerDrift
<1>3. CASE \E u \in Users, amount \in Amounts : Deposit(u, amount) \/ Withdraw(u, amount)
  <2>1. PICK u \in Users, amount \in Amounts : Deposit(u, amount) \/ Withdraw(u, amount)
    BY <1>3
  <2>2. amount \in Nat /\ trades' = trades
    BY <2>1, ConstantsAssumption DEF Deposit, Withdraw
  <2>3. ASSUME NEW v \in WalletOwners
        PROVE  /\ balance'[v] - ledger'[v] = balance[v] - ledger[v]
               /\ ledger'[v] - balance'[v] = ledger[v] - balance[v]
    <3>1. balance[v] \in Nat /\ ledger[v] \in Int
      BY <1>1
    <3>2. \/ balance'[v] = balance[v] /\ ledger'[v] = ledger[v]
          \/ balance'[v] = balance[v] + amount /\ ledger'[v] = ledger[v] + amount
          \/ balance'[v] = balance[v] - amount /\ ledger'[v] = ledger[v] - amount
      BY <1>1, <2>1 DEF Deposit, Withdraw
    <3> QED
      BY <2>2, <3>1, <3>2
  <2> QED
    BY <2>2, <2>3 DEF LedgerDrift
<1>4. CASE ExecuteCommit
  <2>1. PICK b \in BuyerBalances, s \in SellerBalances, amount \in AmountStrings :
           Settles(b, s, amount) /\ WriteTrade(b, s, amount)
    BY <1>4 DEF ExecuteCommit
  <2>2. buyer \in WalletOwners /\ seller \in WalletOwners /\ buyer # seller
    BY <1>4, TradeFacts DEF ExecuteCommit
  <2>3. tradeCost \in Nat /\ tradeCost <= balance[buyer] * Scale
    BY <1>4, <2>1, FillFacts DEF ExecuteCommit, Settles
  <2>4. balance[buyer] \in Nat /\ balance[seller] \in Nat
    BY <1>1, <2>2
  <2>5. b \in Nat /\ s \in Nat /\ amount \in Nat
    <3>1. balance[buyer] * Scale - tradeCost \in Nat
      BY <2>3, <2>4, ScaleAssumption
    <3>2. balance[seller] * Scale + tradeCost \in Nat
      BY <2>3, <2>4, CreditIsNat
    <3> QED
      BY <2>3, <3>1, <3>2, RoundedIsNear DEF BuyerBalances, SellerBalances, AmountStrings
  <2>6. b + amount - balance[buyer] <= 1 /\ balance[buyer] - (b + amount) <= 1
    BY <2>3, <2>4, DebitDrift DEF BuyerBalances, AmountStrings
  <2>7. s - amount - balance[seller] <= 1 /\ balance[seller] + amount - s <= 1
    BY <2>3, <2>4, CreditDrift DEF SellerBalances, AmountStrings
  <2>8. Len(trades') = Len(trades) + 1
    BY <1>1, <2>1 DEF WriteTrade
  <2>9. /\ balance'[buyer] = b /\ balance'[seller] = s
        /\ ledger'[buyer] = ledger[buyer] - amount
        /\ ledger'[seller] = ledger[seller] + amount
        /\ \A u \in WalletOwners \ {buyer, seller} :
              balance'[u] = balance[u] /\ ledger'[u] = ledger[u]
    BY <1>1, <2>1, <2>2 DEF WriteTrade
  <2> SUFFICES ASSUME NEW u \in WalletOwners
               PROVE  /\ balance'[u] - ledger'[u] <= Len(trades) + 1
                      /\ ledger'[u] - balance'[u] <= Len(trades) + 1
    BY <2>8 DEF LedgerDrift
  <2> DEFINE x == balance[u]
             y == ledger[u]
             n == Len(trades)
  <2>10. x - y <= n /\ y - x <= n /\ x \in Int /\ y \in Int /\ n \in Int
    BY <1>1 DEF LedgerDrift
  <2>11. CASE u = buyer
    <3>1. balance'[u] = b /\ ledger'[u] = y - amount
      BY <2>9, <2>11
    <3>2. b + amount - x <= 1 /\ x - (b + amount) <= 1
      BY <2>6, <2>11
    <3> HIDE DEF x, y, n
    <3>3. b - (y - amount) <= n + 1 /\ (y - amount) - b <= n + 1
      BY <2>5, <2>10, <3>2
    <3> QED
      BY <3>1, <3>3 DEF n
  <2>12. CASE u = seller
    <3>1. balance'[u] = s /\ ledger'[u] = y + amount
      BY <2>9, <2>12
    <3>2. s - amount - x <= 1 /\ x + amount - s <= 1
      BY <2>7, <2>12
    <3> HIDE DEF x, y, n
    <3>3. s - (y + amount) <= n + 1 /\ (y + amount) - s <= n + 1
      BY <2>5, <2>10, <3>2
    <3> QED
      BY <3>1, <3>3 DEF n
  <2>13. CASE u \notin {buyer, seller}
    BY <1>1, <2>9, <2>10, <2>13
  <2> QED
    BY <2>11, <2>12, <2>13
<1>5. \/ UNCHANGED <<balance, ledger, trades>>
      \/ \E u \in Users, amount \in Amounts : Deposit(u, amount) \/ Withdraw(u, amount)
      \/ ExecuteCommit
  BY DEF Next, vars, tables, PlaceOrder, PlaceLookup, PlaceCheck, PlaceBegin, PlaceInsert,
         PlaceConflict, PlaceDuplicate, PlaceEnqueue, PlaceFail, CancelOrder,
         ExpireStaleOrders, EngineStep, EngineReceive, EngineFetch,
         EngineFind, ExecuteUnmatched, ExecuteError, EngineRecheck, EngineRefetch,
         EngineFail, Crash
<1> QED
  BY <1>2, <1>3, <1>4, <1>5

(* However many trades there are and however their costs are rounded, balance   *)
(* and wallet transactions of a trader differ by at most one unit per trade.    *)
THEOREM LedgerCorrect == Spec => []LedgerDrift
<1>1. Init => LedgerDrift
  BY ConstantsAssumption DEF Init, LedgerDrift
<1>2. IInv /\ LedgerDrift /\ [Next]_vars => LedgerDrift'
  BY LedgerDriftStep
<1> QED
  BY <1>1, <1>2, IInvHolds, PTL DEF Spec

-------------------------------------------------------------------------------
(* Idempotency *)

(* The unique index: no two rows of a user carry one key. *)
UniqueKeys ==
    \A o, p \in Placed :
        /\ orders[o].user = orders[p].user
        /\ orders[o].key = orders[p].key
        /\ orders[o].key # NoKey
        => o = p

(* A call that has an order has one of its own user with its own key. *)
ResultKeys ==
    \A r \in Requests :
        /\ pc[r] \in {"enqueue", "returned"}
        /\ input[r].key # NoKey
        => /\ orders[result[r]].user = input[r].user
           /\ orders[result[r]].key = input[r].key

LEMMA IdempotentFromKeys ==
    ASSUME IInv, UniqueKeys, ResultKeys
    PROVE  Idempotent
<1>1. ASSUME NEW r \in Requests, NEW s \in Requests,
             pc[r] = "returned", pc[s] = "returned",
             input[r].user = input[s].user, input[r].key = input[s].key, input[r].key # NoKey
      PROVE  result[r] = result[s]
  <2>1. result[r] \in Placed /\ result[s] \in Placed
    BY <1>1 DEF IInv, CallInv
  <2>2. /\ orders[result[r]].user = input[r].user /\ orders[result[r]].key = input[r].key
        /\ orders[result[s]].user = input[s].user /\ orders[result[s]].key = input[s].key
    BY <1>1 DEF ResultKeys
  <2> QED
    BY <1>1, <2>1, <2>2 DEF UniqueKeys
<1> QED
  BY <1>1 DEF UniqueKeys, Idempotent

LEMMA UniqueKeysStep ==
    ASSUME IInv, UniqueKeys, [Next]_vars
    PROVE  UniqueKeys'
<1>1. \A o \in Placed : o \in Placed' /\ SameOrder(orders'[o], orders[o])
  BY RowsStep DEF RowAdvances
<1>2. CASE \E r \in Requests : PlaceInsert(r)
  <2>1. PICK r \in Requests : PlaceInsert(r)
    BY <1>2
  <2>2. PICK n \in OrderIds : NextId(n) /\ InsertRow(n, NewRow(r))
    BY <2>1 DEF PlaceInsert
  <2>3. /\ Placed' = Placed \cup {n} /\ n \notin Placed
        /\ orders'[n].user = input[r].user /\ orders'[n].key = input[r].key
    BY <2>2 DEF NextId, InsertRow, NewRow, Placed
  <2>4. input[r].key # NoKey =>
           \A o \in Placed : ~(orders[o].user = input[r].user /\ orders[o].key = input[r].key)
    BY <2>1 DEF PlaceInsert, KeyTaken, WithKey
  <2> QED
    BY <1>1, <2>3, <2>4 DEF UniqueKeys, SameOrder
<1>3. CASE Placed' = Placed
  BY <1>1, <1>3 DEF UniqueKeys, SameOrder
<1>4. (\E r \in Requests : PlaceInsert(r)) \/ Placed' = Placed
  BY CommitFacts
  DEF Next, vars, tables, PlaceOrder, PlaceLookup, PlaceCheck, PlaceBegin, PlaceConflict,
      PlaceDuplicate, PlaceEnqueue, PlaceFail, CancelOrder, ExpireStaleOrders, Deposit,
      Withdraw, EngineStep, EngineReceive, EngineFetch, EngineFind, ExecuteUnmatched,
      ExecuteError, EngineRecheck, EngineRefetch, EngineFail, Crash, Placed
<1> QED
  BY <1>2, <1>3, <1>4

LEMMA ResultKeysStep ==
    ASSUME IInv, ResultKeys, [Next]_vars
    PROVE  ResultKeys'
<1>1. \A o \in Placed : o \in Placed' /\ SameOrder(orders'[o], orders[o])
  BY RowsStep DEF RowAdvances
<1>2. \A r \in Requests : pc[r] \in {"enqueue", "returned"} => result[r] \in Placed
  BY DEF IInv, CallInv
<1>3. /\ pc \in [Requests -> CallPCs] /\ input \in [Requests -> Inputs \cup {NoInput}]
      /\ result \in [Requests -> OrderIds \cup {NoOrder}]
  BY DEF IInv, TypeOK
<1>4. CASE UNCHANGED <<pc, input, result>>
  BY <1>1, <1>2, <1>4 DEF ResultKeys, SameOrder
<1>5. CASE \E r \in Requests, in \in Inputs : PlaceLookup(r, in)
  <2>1. PICK r \in Requests, in \in Inputs : PlaceLookup(r, in)
    BY <1>5
  <2>2. input' = [input EXCEPT ![r] = in] /\ orders' = orders
    BY <2>1 DEF PlaceLookup, tables
  <2>3. \/ \E o \in Placed : /\ orders[o].user = in.user /\ orders[o].key = in.key
                             /\ Return(r, o)
        \/ pc' = [pc EXCEPT ![r] = "check"] /\ UNCHANGED result
    BY <2>1 DEF PlaceLookup, WithKey
  <2> QED
    BY <1>3, <2>2, <2>3 DEF Return, ResultKeys
<1>6. CASE \E r \in Requests : PlaceDuplicate(r)
  <2>1. PICK r \in Requests : PlaceDuplicate(r)
    BY <1>6
  <2>2. input' = input /\ orders' = orders
    BY <2>1 DEF PlaceDuplicate, tables
  <2>3. \/ \E o \in Placed : /\ orders[o].user = input[r].user /\ orders[o].key = input[r].key
                             /\ Return(r, o)
        \/ pc' = [pc EXCEPT ![r] = "failed"] /\ UNCHANGED result
    BY <2>1 DEF PlaceDuplicate, WithKey
  <2> QED
    BY <1>3, <2>2, <2>3 DEF Return, ResultKeys
<1>7. CASE \E r \in Requests : PlaceInsert(r)
  <2>1. PICK r \in Requests : PlaceInsert(r)
    BY <1>7
  <2>2. PICK n \in OrderIds :
           /\ InsertRow(n, NewRow(r))
           /\ \/ /\ pc' = [pc EXCEPT ![r] = "enqueue"]
                 /\ result' = [result EXCEPT ![r] = n]
              \/ pc' = [pc EXCEPT ![r] = "failed"] /\ UNCHANGED result
    BY <2>1 DEF PlaceInsert
  <2>3. /\ orders'[n].user = input[r].user /\ orders'[n].key = input[r].key /\ input' = input
    BY <2>1, <2>2 DEF InsertRow, NewRow, PlaceInsert
  <2>4. ASSUME NEW s \in Requests, s # r, pc'[s] \in {"enqueue", "returned"}, input'[s].key # NoKey
        PROVE  orders'[result'[s]].user = input'[s].user /\ orders'[result'[s]].key = input'[s].key
    <3>1. pc'[s] = pc[s] /\ result'[s] = result[s]
      BY <1>3, <2>2, <2>4
    <3> QED
      BY <1>1, <1>2, <2>3, <2>4, <3>1 DEF ResultKeys, SameOrder
  <2>5. pc'[r] = "enqueue" => result'[r] = n
    BY <1>3, <2>2
  <2>6. pc'[r] \in {"enqueue", "failed"}
    BY <1>3, <2>2
  <2> QED
    BY <2>3, <2>4, <2>5, <2>6 DEF ResultKeys
<1>8. CASE \E r \in Requests : PlaceCheck(r) \/ PlaceBegin(r) \/ PlaceConflict(r) \/ PlaceFail(r)
  BY <1>3, <1>8 DEF PlaceCheck, PlaceBegin, PlaceConflict, PlaceFail, ResultKeys, tables
<1>9. CASE \E r \in Requests : PlaceEnqueue(r)
  BY <1>3, <1>9 DEF PlaceEnqueue, ResultKeys, tables
<1>10. CASE Crash
  BY <1>3, <1>10 DEF Crash, ResultKeys, tables
<1>11. \/ UNCHANGED <<pc, input, result>>
       \/ \E r \in Requests : PlaceOrder(r)
       \/ Crash
  BY DEF Next, vars, calls, CancelOrder, ExpireStaleOrders, Deposit, Withdraw, EngineStep,
         EngineReceive, EngineFetch, EngineFind, ExecuteUnmatched, ExecuteCommit,
         ExecuteError, EngineRecheck, EngineRefetch, EngineFail
<1> QED
  BY <1>4, <1>5, <1>6, <1>7, <1>8, <1>9, <1>10, <1>11 DEF PlaceOrder

(* All calls of a user with one idempotency key that return an order return the *)
(* same one, whatever calls, failures and restarts come between the lookup and  *)
(* the insert of each; the empty key, which is not looked up, is no exception.   *)
THEOREM IdempotencyCorrect == Spec => []Idempotent
<1>1. Init => UniqueKeys /\ ResultKeys
  BY DEF Init, UniqueKeys, ResultKeys, Placed
<1>2. IInv /\ UniqueKeys /\ ResultKeys /\ [Next]_vars => UniqueKeys' /\ ResultKeys'
  BY UniqueKeysStep, ResultKeysStep
<1>3. IInv /\ UniqueKeys /\ ResultKeys => Idempotent
  BY IdempotentFromKeys
<1> QED
  BY <1>1, <1>2, <1>3, IInvHolds, PTL DEF Spec

-------------------------------------------------------------------------------
(* No match is missed *)

(* An order the engine has still to deal with, or has been kept from. *)
Known(o) == Pending(o) \/ o \in dropped \cup abandoned

(* What a channel holds besides its head, or before something is sent to it. *)
LEMMA QueueKeeps ==
    ASSUME NEW q \in Seq(OrderIds), NEW i \in DOMAIN q
    PROVE  /\ \A o \in OrderIds : \E j \in DOMAIN Append(q, o) : Append(q, o)[j] = q[i]
           /\ q[i] = Head(q) \/ \E j \in DOMAIN Tail(q) : Tail(q)[j] = q[i]
<1>1. i \in 1..Len(q) /\ Len(q) \in Nat
  OBVIOUS
<1>2. ASSUME NEW o \in OrderIds PROVE \E j \in DOMAIN Append(q, o) : Append(q, o)[j] = q[i]
  BY <1>1
<1>3. CASE i = 1
  BY <1>3
<1>4. CASE i # 1
  <2>1. q # <<>> /\ i - 1 \in 1..(Len(q) - 1)
    BY <1>1, <1>4
  <2>2. Tail(q)[i - 1] = q[i] /\ DOMAIN Tail(q) = 1..(Len(q) - 1)
    BY <1>1, <2>1
  <2> QED
    BY <1>2, <2>1, <2>2
<1> QED
  BY <1>2, <1>3, <1>4

(* A step forgets an order only when the engine lets go of it. *)
LEMMA KnownStep ==
    ASSUME IInv, [Next]_vars, NEW o \in Placed, Known(o),
           engine.incoming = o => engine'.incoming = o \/ o \in abandoned'
    PROVE  Known(o)'
<1>1. /\ queue \in Seq(OrderIds) /\ o \in OrderIds
      /\ pc \in [Requests -> CallPCs] /\ result \in [Requests -> OrderIds \cup {NoOrder}]
      /\ engine \in EngineType
  BY DEF IInv, TypeOK, EngineType
<1>2. CASE UNCHANGED <<queue, pc, result, dropped>> /\ abandoned \subseteq abandoned'
  BY <1>2 DEF Known, Pending, InQueue
<1>3. CASE EngineReceive
  <2>1. queue # <<>> /\ queue' = Tail(queue) /\ engine'.incoming = Head(queue)
        /\ UNCHANGED <<pc, result, dropped, abandoned>> /\ engine.incoming = NoOrder
    BY <1>3 DEF EngineReceive, calls, IInv, EngineInv, EngineAt
  <2>2. InQueue(o) => engine'.incoming = o \/ InQueue(o)'
    BY <1>1, <2>1, QueueKeeps DEF InQueue
  <2>3. engine.incoming # o
    BY <1>1, <2>1, ConstantsAssumption
  <2> QED
    BY <2>1, <2>2, <2>3 DEF Known, Pending
<1>4. CASE \E r \in Requests : PlaceEnqueue(r)
  <2>1. PICK r \in Requests : PlaceEnqueue(r)
    BY <1>4
  <2>2. pc[r] = "enqueue" /\ pc' = [pc EXCEPT ![r] = "returned"]
        /\ UNCHANGED <<engine, result, abandoned>>
    BY <2>1 DEF PlaceEnqueue
  <2>3. result[r] \in OrderIds
    BY <2>2 DEF IInv, CallInv, TypeOK
  <2>4. /\ dropped \subseteq dropped'
        /\ InQueue(o) => InQueue(o)'
        /\ result[r] = o => InQueue(o)' \/ o \in dropped'
    <3>1. CASE queue' = Append(queue, result[r]) /\ UNCHANGED dropped
      <4>1. InQueue(o) => InQueue(o)'
        BY <1>1, <2>3, <3>1, QueueKeeps DEF InQueue
      <4>2. Len(queue) + 1 \in DOMAIN queue' /\ queue'[Len(queue) + 1] = result[r]
        BY <1>1, <2>3, <3>1
      <4> QED
        BY <3>1, <4>1, <4>2 DEF InQueue
    <3>2. CASE dropped' = dropped \cup {result[r]} /\ UNCHANGED queue
      BY <3>2 DEF InQueue
    <3> QED
      BY <2>1, <3>1, <3>2 DEF PlaceEnqueue
  <2>5. \A s \in Requests : pc[s] = "enqueue" => s = r \/ pc'[s] = "enqueue"
    BY <1>1, <2>2
  <2> QED
    BY <2>2, <2>4, <2>5 DEF Known, Pending
<1>5. CASE /\ UNCHANGED <<queue, engine, dropped>> /\ abandoned \subseteq abandoned'
           /\ \E r \in Requests :
                 /\ pc[r] # "enqueue"
                 /\ \A s \in Requests \ {r} : pc'[s] = pc[s] /\ result'[s] = result[s]
  BY <1>5 DEF Known, Pending, InQueue
<1>6. CASE Crash
  BY <1>6 DEF Crash, Known
<1>7. CASE \E r \in Requests : PlaceOrder(r)
  <2>1. PICK r \in Requests : PlaceOrder(r)
    BY <1>7
  <2>2. CASE PlaceEnqueue(r)
    BY <1>4, <2>2
  <2>3. CASE ~PlaceEnqueue(r)
    <3>1. UNCHANGED <<queue, engine, dropped>> /\ pc[r] # "enqueue"
      BY <2>1, <2>3
      DEF PlaceOrder, PlaceLookup, PlaceCheck, PlaceBegin, PlaceInsert, PlaceConflict,
          PlaceDuplicate, PlaceFail
    <3>2. abandoned \subseteq abandoned'
      BY <2>1, <2>3
      DEF PlaceOrder, PlaceLookup, PlaceCheck, PlaceBegin, PlaceInsert, PlaceConflict,
          PlaceDuplicate, PlaceFail
    <3>3. \E p \in CallPCs, v \in OrderIds \cup {NoOrder} :
             /\ pc' = [pc EXCEPT ![r] = p]
             /\ result' = [result EXCEPT ![r] = v] \/ result' = result
      BY <1>1, <2>1, <2>3
      DEF PlaceOrder, PlaceLookup, PlaceCheck, PlaceBegin, PlaceInsert, PlaceConflict,
          PlaceDuplicate, PlaceFail, Return, WithKey, CallPCs, IInv, TypeOK
    <3>4. \A s \in Requests \ {r} : pc'[s] = pc[s] /\ result'[s] = result[s]
      BY <1>1, <3>3
    <3> QED
      BY <1>5, <3>1, <3>2, <3>4
  <2> QED
    BY <2>2, <2>3
<1>8. \/ UNCHANGED <<queue, pc, result, dropped>> /\ abandoned \subseteq abandoned'
      \/ EngineReceive
      \/ \E r \in Requests : PlaceOrder(r)
      \/ Crash
  BY DEF Next, vars, calls, CancelOrder, ExpireStaleOrders, Deposit, Withdraw, EngineStep,
         EngineFetch, EngineFind, ExecuteUnmatched, ExecuteCommit, ExecuteError,
         EngineRecheck, EngineRefetch, EngineFail, EngineDone, EngineAbort
<1> QED
  BY <1>2, <1>3, <1>6, <1>7, <1>8

(* A row that has just been inserted is on its way to the engine, or its        *)
(* handler has failed.                                                          *)
LEMMA NewOrdersKnown ==
    ASSUME IInv, [Next]_vars, NEW n \in Placed' \ Placed
    PROVE  Known(n)'
<1>1. CASE \E r \in Requests : PlaceInsert(r)
  <2>1. PICK r \in Requests : PlaceInsert(r)
    BY <1>1
  <2>2. PICK m \in OrderIds :
           /\ InsertRow(m, NewRow(r))
           /\ \/ /\ pc' = [pc EXCEPT ![r] = "enqueue"]
                 /\ result' = [result EXCEPT ![r] = m]
              \/ abandoned' = abandoned \cup {m}
    BY <2>1 DEF PlaceInsert
  <2>3. n = m
    BY <2>2 DEF InsertRow, Placed
  <2>4. pc \in [Requests -> CallPCs] /\ result \in [Requests -> OrderIds \cup {NoOrder}]
    BY DEF IInv, TypeOK
  <2> QED
    BY <2>2, <2>3, <2>4 DEF Known, Pending
<1>2. (\E r \in Requests : PlaceInsert(r)) \/ Placed' = Placed
  BY CommitFacts
  DEF Next, vars, tables, PlaceOrder, PlaceLookup, PlaceCheck, PlaceBegin, PlaceConflict,
      PlaceDuplicate, PlaceEnqueue, PlaceFail, CancelOrder, ExpireStaleOrders, Deposit,
      Withdraw, EngineStep, EngineReceive, EngineFetch, EngineFind, ExecuteUnmatched,
      ExecuteError, EngineRecheck, EngineRefetch, EngineFail, Crash, Placed
<1> QED
  BY <1>1, <1>2

(* When the engine lets go of an order without an error, the order cannot be    *)
(* matched: it is closed, it is complete, or nothing in the book suits it.      *)
LEMMA LetGoUnmatchable ==
    ASSUME IInv, [Next]_vars, engine.incoming \in Placed,
           engine'.incoming # engine.incoming, engine.incoming \notin abandoned'
    PROVE  /\ orders' = orders
           /\ \/ ~Open(engine.incoming)
              \/ ~(remaining(orders[engine.incoming]) > 0)
              \/ Eligible = {}
<1>1. engine \in EngineType /\ engine.incoming \in OrderIds /\ orders[engine.incoming] \in Row
  BY DEF IInv, TypeOK, EngineType
<1>2. ~EngineAt("idle")
  BY <1>1, ConstantsAssumption DEF IInv, EngineInv, EngineAt
<1>3. \A p \in EnginePCs : ~EngineGoto(p)
  BY <1>1 DEF EngineGoto, EngineType
<1>4. ~EngineAbort
  BY DEF EngineAbort
<1>5. remaining(orders[engine.incoming]) \in Int
  BY <1>1 DEF remaining, Row
<1>6. CASE EngineFetch
  BY <1>3, <1>5, <1>6
  DEF EngineFetch, tables, Open, isOpen, OpenStatuses, EnginePCs
<1>7. CASE EngineFind
  <2>1. Eligible = {}
    BY <1>1, <1>7 DEF EngineFind, EngineType
  <2> QED
    BY <1>7, <2>1 DEF EngineFind, tables
<1>8. CASE EngineRecheck \/ EngineRefetch
  BY <1>3, <1>8
  DEF EngineRecheck, EngineRefetch, tables, Open, isOpen, OpenStatuses, EnginePCs
<1>9. CASE Crash
  <2>1. engine.incoming \in abandoned'
    BY <1>9 DEF Crash, Pending
  <2> QED
    BY <2>1
<1>10. EngineFetch \/ EngineFind \/ EngineRecheck \/ EngineRefetch \/ Crash
  BY <1>2, <1>3, <1>4
  DEF Next, vars, PlaceOrder, PlaceLookup, PlaceCheck, PlaceBegin, PlaceInsert, PlaceConflict,
      PlaceDuplicate, PlaceEnqueue, PlaceFail, CancelOrder, ExpireStaleOrders, Deposit,
      Withdraw, EngineStep, EngineReceive, ExecuteUnmatched, ExecuteCommit, ExecuteError,
      EngineFail, EnginePCs
<1> QED
  BY <1>6, <1>7, <1>8, <1>9, <1>10

(* Whether one order suits another does not depend on which of them comes in. *)
LEMMA CrossingSymmetric ==
    ASSUME NEW x \in Row, NEW y \in Row, isOpen(x.status), eligible(x, y)
    PROVE  eligible(y, x)
BY DEF eligible, oppositeSide, crosses, Row, Sides

(* Two orders that cross after a step crossed before it. *)
LEMMA CrossingBefore ==
    ASSUME IInv, [Next]_vars, NEW x \in Placed, NEW y \in Placed, Crossing(x, y)'
    PROVE  Crossing(x, y)
<1>1. \A o \in {x, y} : /\ orders[o] \in Row /\ orders'[o] \in Row
                        /\ RowAdvances(o)
  BY RowsStep, NextIInv DEF IInv, TypeOK, RowAdvances
<1>2. \A o \in {x, y} : isOpen(orders'[o].status) => isOpen(orders[o].status)
  BY <1>1 DEF RowAdvances, Open
<1>3. \A o \in {x, y} : remaining(orders'[o]) <= remaining(orders[o])
                        /\ remaining(orders[o]) \in Int /\ remaining(orders'[o]) \in Int
  BY <1>1 DEF RowAdvances, SameOrder, remaining, Row
<1>4. /\ isOpen(orders'[x].status) /\ eligible(orders'[x], orders'[y])
      /\ remaining(orders'[x]) > 0 /\ remaining(orders'[y]) > 0
  BY DEF Crossing, Open
<1>5. eligible(orders[x], orders[y])
  BY <1>1, <1>2, <1>4 DEF RowAdvances, SameOrder, eligible
<1> QED
  BY <1>2, <1>3, <1>4, <1>5 DEF Crossing, Open

LEMMA NoMissedMatchStep ==
    ASSUME IInv, NoMissedMatch, [Next]_vars
    PROVE  NoMissedMatch'
<1> SUFFICES ASSUME NEW x \in Placed', NEW y \in Placed', Crossing(x, y)'
             PROVE  Known(x)' \/ Known(y)'
  BY DEF NoMissedMatch, Known
<1>1. CASE x \notin Placed \/ y \notin Placed
  BY <1>1, NewOrdersKnown
<1>2. CASE x \in Placed /\ y \in Placed
  <2>1. Crossing(x, y)
    BY <1>2, CrossingBefore
  <2>2. PICK o \in {x, y} : Known(o)
    BY <1>2, <2>1 DEF NoMissedMatch, Known
  <2>3. CASE engine.incoming = o => engine'.incoming = o \/ o \in abandoned'
    BY <1>2, <2>2, <2>3, KnownStep
  <2>4. CASE engine.incoming = o /\ engine'.incoming # o /\ o \notin abandoned'
    <3>1. \/ ~Open(o)
          \/ ~(remaining(orders[o]) > 0)
          \/ {c \in Placed : eligible(orders[o], orders[c])} = {}
      BY <1>2, <2>2, <2>4, LetGoUnmatchable DEF Eligible
    <3>2. orders[x] \in Row /\ orders[y] \in Row
      BY <1>2 DEF IInv, TypeOK
    <3>3. eligible(orders[x], orders[y]) /\ eligible(orders[y], orders[x])
      BY <2>1, <3>2, CrossingSymmetric DEF Crossing, Open
    <3>4. Open(x) /\ Open(y) /\ remaining(orders[x]) > 0 /\ remaining(orders[y]) > 0
      BY <2>1 DEF Crossing, eligible, Open
    <3> QED
      BY <1>2, <2>2, <3>1, <3>3, <3>4
  <2> QED
    BY <2>3, <2>4
<1> QED
  BY <1>1, <1>2

(* The engine overlooks no match: of two open orders that cross, one is still   *)
(* on its way to it, or a full channel, an error or a crash has kept it away.   *)
THEOREM NoMatchIsMissed == Spec => []NoMissedMatch
<1>1. Init => NoMissedMatch
  BY DEF Init, NoMissedMatch, Placed
<1>2. IInv /\ NoMissedMatch /\ [Next]_vars => NoMissedMatch'
  BY NoMissedMatchStep
<1> QED
  BY <1>1, <1>2, IInvHolds, PTL DEF Spec

-------------------------------------------------------------------------------
(* The candidate is the best *)

(* The engine comes to executeTrade from its search and no other way. *)
LEMMA ExecuteFromFind ==
    ASSUME IInv, [Next]_vars, EngineAt("execute")'
    PROVE  (UNCHANGED engine /\ EngineAt("execute")) \/ EngineFind
<1>1. engine \in EngineType
  BY DEF IInv, TypeOK, EngineType
<1>2. engine' # Idle /\ \A p \in EnginePCs \ {"execute"} : ~EngineGoto(p)
  BY <1>1 DEF EngineAt, Idle, EngineGoto, EngineType
<1>3. UNCHANGED engine \/ EngineFind
  BY <1>2
  DEF Next, vars, PlaceOrder, PlaceLookup, PlaceCheck, PlaceBegin, PlaceInsert, PlaceConflict,
      PlaceDuplicate, PlaceEnqueue, PlaceFail, CancelOrder, ExpireStaleOrders, Deposit,
      Withdraw, EngineStep, EngineReceive, EngineFetch, ExecuteUnmatched, ExecuteCommit,
      ExecuteError, EngineRecheck, EngineRefetch, EngineFail, EngineDone, EngineAbort, Crash,
      EnginePCs, EngineAt
<1> QED
  BY <1>3 DEF EngineAt

LEMMA CandidateIsBestStep ==
    ASSUME IInv, CandidateIsBest, [Next]_vars
    PROVE  CandidateIsBest'
<1> SUFFICES ASSUME EngineAt("execute")', NEW y \in Eligible',
                    ranksBefore(orders'[y], orders'[engine'.candidate])
             PROVE  Known(y)'
  BY DEF CandidateIsBest, Known
<1>1. engine \in EngineType
  BY DEF IInv, TypeOK, EngineType
<1>2. CASE EngineFind
  <2>1. engine'.pc = "execute" /\ Idle.pc = "idle"
    BY DEF EngineAt, Idle
  <2>2. ~EngineDone
    BY <2>1 DEF EngineDone
  <2>3. PICK c \in Best(Eligible) :
           engine' = [engine EXCEPT !.pc = "execute", !.candidate = c]
    BY <1>2, <2>2, Zenon DEF EngineFind
  <2>4. orders' = orders /\ engine'.incoming = engine.incoming /\ engine'.candidate = c
    BY <1>1, <1>2, <2>3 DEF EngineFind, tables, EngineType
  <2>5. y \in Eligible
    BY <2>4 DEF Eligible, Placed
  <2> QED
    BY <2>3, <2>4, <2>5 DEF Best
<1>3. CASE UNCHANGED engine /\ EngineAt("execute")
  <2>1. y \in Placed' /\ eligible(orders'[engine.incoming], orders'[y])
    BY <1>3 DEF Eligible
  <2>2. CASE y \notin Placed
    BY <2>1, <2>2, NewOrdersKnown
  <2>3. CASE y \in Placed
    <3>1. engine.incoming \in Placed /\ engine.candidate \in Placed
      BY <1>3 DEF IInv, EngineInv, EngineAt
    <3>2. \A o \in {y, engine.incoming, engine.candidate} : RowAdvances(o)
      BY <2>3, <3>1, RowsStep
    <3>3. isOpen(orders[y].status)
      BY <2>1, <2>3, <3>2 DEF RowAdvances, Open, eligible
    <3>4. y \in Eligible
      BY <2>1, <2>3, <3>2, <3>3 DEF RowAdvances, SameOrder, eligible, Eligible
    <3>5. ranksBefore(orders[y], orders[engine.candidate])
      BY <1>3, <3>2 DEF RowAdvances, SameOrder, ranksBefore
    <3>6. Known(y)
      BY <1>3, <3>4, <3>5 DEF CandidateIsBest, Known
    <3>7. engine.incoming # y
      BY <3>4 DEF Eligible, eligible
    <3> QED
      BY <2>3, <3>6, <3>7, KnownStep
  <2> QED
    BY <2>2, <2>3
<1> QED
  BY <1>2, <1>3, ExecuteFromFind

(* Price-time priority: when a trade is about to be executed, an order that     *)
(* ranks before the candidate came after the engine's read of the book.         *)
THEOREM PriorityRespected == Spec => []CandidateIsBest
<1>1. Init => CandidateIsBest
  BY DEF Init, CandidateIsBest, EngineAt, Idle
<1>2. IInv /\ CandidateIsBest /\ [Next]_vars => CandidateIsBest'
  BY CandidateIsBestStep
<1> QED
  BY <1>1, <1>2, IInvHolds, PTL DEF Spec

-------------------------------------------------------------------------------
(* Exchange implements Ledger: each step of a call, the engine, a job or a fault *)
(* is a step of the ledger or changes nothing the ledger shows.                  *)

(* What the ledger shows of the orders table. *)
Book == [o \in Placed |-> Shown(orders[o])]

LEMMA InitLedger == Init => Abstract!Init
BY DEF Init, Abstract!Init, Placed, Shown

(* Calls, the channel and the engine's local state are invisible. *)
LEMMA Invisible ==
    ASSUME UNCHANGED <<orders, balance, portfolios>>
    PROVE  UNCHANGED Abstract!vars
BY DEF Abstract!vars, Placed, Shown

(* The insert of an order whose checks have passed. *)
LEMMA InsertPlaces ==
    ASSUME IInv, NEW r \in Requests, PlaceInsert(r)
    PROVE  Abstract!Next
<1>1. PICK n \in OrderIds : NextId(n) /\ InsertRow(n, NewRow(r))
  BY DEF PlaceInsert
<1>2. /\ input[r] \in Inputs /\ input[r].price > 0 /\ input[r].quantity > 0
      /\ input[r].side = "SELL" => <<input[r].user, input[r].asset>> \in DOMAIN portfolios
  BY DEF PlaceInsert, IInv, CallInv
<1>3. UNCHANGED <<balance, portfolios>>
  BY DEF PlaceInsert
<1>4. n \notin Placed /\ Placed' = Placed \cup {n}
  BY <1>1 DEF NextId, InsertRow, Placed
<1>5. Shown(NewRow(r)) = [terms |-> TermsOf(input[r]), filled |-> 0, state |-> "open"]
  <2>1. input[r].quantity \in Nat
    BY <1>2, ConstantsAssumption
  <2>2. remaining(NewRow(r)) > 0
    BY <1>2, <2>1 DEF remaining, NewRow
  <2> QED
    BY <2>2 DEF Shown, TermsOf, NewRow, isOpen, OpenStatuses
<1>6. Book' = [i \in Placed \cup {n} |->
                  IF i = n THEN [terms |-> TermsOf(input[r]), filled |-> 0, state |-> "open"]
                  ELSE Book[i]]
  BY <1>1, <1>4, <1>5 DEF Book, InsertRow
<1>7. TermsOf(input[r]).side = input[r].side /\ TermsOf(input[r]).user = input[r].user
      /\ TermsOf(input[r]).asset = input[r].asset /\ TermsOf(input[r]).price = input[r].price
      /\ TermsOf(input[r]).quantity = input[r].quantity
  BY DEF TermsOf
<1>8. Abstract!Place(n, TermsOf(input[r]))
  BY <1>2, <1>3, <1>4, <1>6, <1>7 DEF Abstract!Place, Abstract!Placed, Book
<1> QED
  BY <1>2, <1>8 DEF Abstract!Next

(* Open orders are cancelled and nothing else happens.  The ledger closes those *)
(* of them that have something left; the others it has seen closed before.     *)
LEMMA ClosingCloses ==
    ASSUME IInv, NEW cancelled \in SUBSET Placed, \A o \in cancelled : Open(o),
           orders' = [o \in Placed |-> IF o \in cancelled
                                       THEN [orders[o] EXCEPT !.status = "CANCELLED"]
                                       ELSE orders[o]],
           UNCHANGED <<balance, portfolios>>
    PROVE  Abstract!Next
<1> DEFINE closed == {o \in cancelled : remaining(orders[o]) > 0}
<1>1. Placed' = Placed
  BY DEF Placed
<1>2. \A o \in Placed : orders[o] \in Row
  BY DEF IInv, TypeOK
<1>3. \A o \in cancelled :
         /\ Shown(orders'[o]) = [Book[o] EXCEPT !.state = "closed"]
         /\ Book[o].state = IF o \in closed THEN "open" ELSE "closed"
         /\ o \notin closed => Shown(orders'[o]) = Book[o]
  <2> SUFFICES ASSUME NEW o \in cancelled
               PROVE  /\ Shown(orders'[o]) = [Book[o] EXCEPT !.state = "closed"]
                      /\ Book[o].state = IF o \in closed THEN "open" ELSE "closed"
                      /\ o \notin closed => Shown(orders'[o]) = Book[o]
    OBVIOUS
  <2>1. /\ orders[o] \in Row /\ isOpen(orders[o].status)
        /\ orders'[o] = [orders[o] EXCEPT !.status = "CANCELLED"]
    BY <1>2 DEF Open
  <2>2. /\ orders'[o].status = "CANCELLED" /\ orders'[o].filled = orders[o].filled
        /\ TermsOf(orders'[o]) = TermsOf(orders[o])
    BY <2>1 DEF Row, TermsOf
  <2>3. Shown(orders'[o]) = [terms |-> TermsOf(orders[o]), filled |-> orders[o].filled,
                             state |-> "closed"]
    BY <2>2 DEF Shown, isOpen, OpenStatuses
  <2>4. Book[o] = [terms |-> TermsOf(orders[o]), filled |-> orders[o].filled,
                   state |-> IF o \in closed THEN "open" ELSE "closed"]
    BY <2>1 DEF Shown, Book
  <2> QED
    BY <2>3, <2>4
<1> HIDE DEF closed
<1>4. closed \subseteq cancelled
  BY DEF closed
<1>5. Book' = [o \in Placed |-> IF o \in closed THEN [Book[o] EXCEPT !.state = "closed"]
                                ELSE Book[o]]
  <2>1. \A o \in Placed : Shown(orders'[o]) = IF o \in closed
                                               THEN [Book[o] EXCEPT !.state = "closed"]
                                               ELSE Book[o]
    BY <1>3, <1>4 DEF Book
  <2> QED
    BY <1>1, <2>1 DEF Book
<1>6. Abstract!Close(closed)
  BY <1>3, <1>4, <1>5 DEF Abstract!Close, Abstract!Placed, Book
<1> QED
  BY <1>4, <1>6 DEF Abstract!Next, Abstract!Placed, Book

LEMMA CancelCloses ==
    ASSUME IInv, NEW u \in Users, NEW o \in OrderIds, CancelOrder(u, o)
    PROVE  Abstract!Next
<1>1. o \in Placed /\ Open(o) /\ UNCHANGED <<balance, portfolios>>
      /\ orders' = [orders EXCEPT ![o].status = "CANCELLED"]
  BY DEF CancelOrder
<1>2. orders \in [Placed -> Row]
  BY DEF IInv, TypeOK
<1>3. orders' = [i \in Placed |-> IF i \in {o} THEN [orders[i] EXCEPT !.status = "CANCELLED"]
                                  ELSE orders[i]]
  BY <1>1, <1>2
<1> QED
  BY <1>1, <1>3, ClosingCloses

LEMMA ExpiryCloses ==
    ASSUME IInv, NEW cutoff, ExpireStaleOrders(cutoff)
    PROVE  Abstract!Next
<1> DEFINE closed == {o \in Placed : Open(o) /\ orders[o].createdAt < cutoff}
<1>1. orders' = [o \in Placed |-> IF o \in closed THEN [orders[o] EXCEPT !.status = "CANCELLED"]
                                  ELSE orders[o]]
  BY DEF ExpireStaleOrders
<1>2. UNCHANGED <<balance, portfolios>>
  BY DEF ExpireStaleOrders
<1>3. closed \in SUBSET Placed /\ \A o \in closed : Open(o)
  OBVIOUS
<1> HIDE DEF closed
<1> QED
  BY <1>1, <1>2, <1>3, ClosingCloses

LEMMA WalletSteps ==
    ASSUME NEW u \in Users, NEW amount \in Amounts, Deposit(u, amount) \/ Withdraw(u, amount)
    PROVE  Abstract!Next
<1>1. Book' = Book
  BY DEF Deposit, Withdraw, Book, Placed
<1>2. CASE Deposit(u, amount)
  <2>1. Abstract!Deposit(u, amount)
    BY <1>1, <1>2 DEF Deposit, Abstract!Deposit, Book
  <2> QED
    BY <1>2, <2>1 DEF Deposit, Abstract!Next
<1>3. CASE Withdraw(u, amount)
  <2>1. Abstract!Withdraw(u, amount)
    BY <1>1, <1>3 DEF Withdraw, Abstract!Withdraw, Book
  <2> QED
    BY <1>3, <2>1 DEF Withdraw, Abstract!Next
<1> QED
  BY <1>2, <1>3

-------------------------------------------------------------------------------
(* executeTrade *)

(* One side of the trade: what the ledger shows of the row before and after. *)
LEMMA ShownFill ==
    ASSUME IInv, EngineAt("execute"), Matchable, NEW o \in {BuyId, SellId},
           NEW row \in filledRows(o)
    PROVE  /\ Book[o].terms = TermsOf(orders[o])
           /\ Book[o].state = "open"
           /\ Abstract!Left(o) = remaining(orders[o])
           /\ Shown(row) = Abstract!Fill(o, fillQty)
<1>1. /\ o \in Placed /\ orders[o] \in Row /\ isOpen(orders[o].status)
      /\ row \in Row /\ SameOrder(row, orders[o]) /\ fillQty \in Nat \ {0}
  BY TradeFacts, FillFacts DEF Matchable, Open
<1>2. PICK st \in newStatus(orders[o].filled, fillQty, orders[o].quantity) :
         row = [orders[o] EXCEPT !.filled = @ + fillQty, !.status = st]
  BY DEF filledRows
<1>3. orders[o].filled \in Int /\ orders[o].quantity \in Int /\ fillQty \in Int
  BY <1>1 DEF Row
<1>4. row.filled = orders[o].filled + fillQty /\ row.quantity = orders[o].quantity
      /\ row.status = st
  BY <1>1, <1>2 DEF Row
<1>5. remaining(orders[o]) > 0
  <2>1. remaining(orders[BuyId]) \in Int /\ remaining(orders[SellId]) \in Int
    BY TradeFacts DEF Row, remaining
  <2> QED
    BY <2>1 DEF Matchable, fillQty, minBig
<1>6. Book[o] = [terms |-> TermsOf(orders[o]), filled |-> orders[o].filled, state |-> "open"]
  BY <1>1, <1>5 DEF Book, Shown
<1>7. Abstract!Left(o) = remaining(orders[o])
  BY <1>6 DEF Abstract!Left, Book, TermsOf, remaining
<1>8. TermsOf(row) = TermsOf(orders[o])
  BY <1>1 DEF SameOrder, TermsOf
<1>9. (isOpen(row.status) /\ remaining(row) > 0) <=> fillQty < remaining(orders[o])
  <2>1. remaining(row) > 0 <=> fillQty < remaining(orders[o])
    BY <1>3, <1>4 DEF remaining
  <2>2. fillQty < remaining(orders[o]) => st = "PARTIALLY_FILLED"
    BY <1>2, <1>3 DEF remaining, newStatus
  <2> QED
    BY <1>4, <2>1, <2>2 DEF isOpen, OpenStatuses
<1>10. Shown(row) = [terms |-> TermsOf(orders[o]), filled |-> orders[o].filled + fillQty,
                     state |-> IF fillQty < remaining(orders[o]) THEN "open" ELSE "closed"]
  BY <1>4, <1>8, <1>9 DEF Shown
<1>11. Abstract!Fill(o, fillQty) =
         [terms |-> Book[o].terms, filled |-> Book[o].filled + fillQty,
          state |-> IF fillQty < Abstract!Left(o) THEN "open" ELSE "closed"]
  BY DEF Abstract!Fill, Book
<1>12. /\ Book[o].terms = TermsOf(orders[o]) /\ Book[o].filled = orders[o].filled
       /\ Book[o].state = "open"
  BY <1>6
<1> QED
  BY <1>7, <1>10, <1>11, <1>12

(* The new holdings, row by row: the seller's is there to be reduced. *)
LEMMA HoldingsMove ==
    ASSUME IInv, EngineAt("execute"), Matchable,
           \A k \in DOMAIN settledHoldings : settledHoldings[k] \in 0..MaxNumeric
    PROVE  /\ settledHoldings =
                 [k \in DOMAIN portfolios \cup {<<buyer, asset>>} |->
                     IF k = <<buyer, asset>>
                     THEN (IF k \in DOMAIN portfolios THEN portfolios[k] ELSE 0) + fillQty
                     ELSE IF k = <<seller, asset>> THEN portfolios[k] - fillQty
                     ELSE portfolios[k]]
           /\ fillQty <= portfolios[<<seller, asset>>]
<1> DEFINE b == <<buyer, asset>>
           s == <<seller, asset>>
<1>1. s \in DOMAIN portfolios
  BY TradeFacts DEF IInv, SellersHoldRows, seller, asset
<1>2. b # s
  BY TradeFacts
<1>3. fillQty \in Nat /\ portfolios[s] \in Int /\ 0 + fillQty = fillQty
  BY <1>1, FillFacts, ConstantsAssumption DEF IInv, TypeOK
<1> HIDE DEF b, s
<1>4. settledHoldings = [k \in DOMAIN portfolios \cup {b} |->
                            IF k = s THEN portfolios[s] - fillQty
                            ELSE IF k # b THEN portfolios[k]
                            ELSE IF b \in DOMAIN portfolios THEN portfolios[b] + fillQty
                            ELSE fillQty]
  BY <1>2 DEF settledHoldings, b, s
<1>5. settledHoldings = [k \in DOMAIN portfolios \cup {b} |->
                     IF k = b
                     THEN (IF k \in DOMAIN portfolios THEN portfolios[k] ELSE 0) + fillQty
                     ELSE IF k = s THEN portfolios[k] - fillQty ELSE portfolios[k]]
  BY <1>2, <1>3, <1>4
<1>6. portfolios[s] - fillQty \in 0..MaxNumeric
  BY <1>1, <1>4
<1>7. fillQty <= portfolios[s]
  BY <1>3, <1>6, ConstantsAssumption
<1> QED
  BY <1>5, <1>7 DEF b, s

(* The rounded balances are what a payment of the exact cost may leave. *)
LEMMA BalancesPaid ==
    ASSUME IInv, EngineAt("execute"), Matchable,
           buyer \in WalletOwners, seller \in WalletOwners,
           NEW b \in BuyerBalances, NEW s \in SellerBalances, NEW amount,
           Settles(b, s, amount)
    PROVE  /\ b \in 0..MaxNumeric /\ s \in 0..MaxNumeric
           /\ Abstract!Paid(balance[buyer], b, -tradeCost)
           /\ Abstract!Paid(balance[seller], s, tradeCost)
<1>1. /\ balance[buyer] \in 0..MaxNumeric /\ balance[seller] \in 0..MaxNumeric
      /\ MaxNumeric \in Nat
  BY ConstantsAssumption DEF IInv, TypeOK
<1>2. tradeCost \in Nat /\ tradeCost <= balance[buyer] * Scale
  BY FillFacts DEF Settles
<1>3. b \in 0..balance[buyer]
  BY <1>1, <1>2, DebitBounds DEF BuyerBalances
<1>4. balance[buyer] * Scale \in Nat /\ balance[seller] * Scale \in Nat
  BY <1>1, ScaleAssumption
<1>5. /\ 2 * (balance[buyer] * Scale - tradeCost - b * Scale) <= Scale
      /\ 2 * (b * Scale - (balance[buyer] * Scale - tradeCost)) <= Scale
  <2>1. balance[buyer] * Scale - tradeCost \in Nat
    BY <1>2, <1>4
  <2> QED
    BY <2>1, RoundedIsNear DEF BuyerBalances
<1>6. /\ s \in Nat
      /\ 2 * ((balance[seller] * Scale + tradeCost) - s * Scale) <= Scale
      /\ 2 * (s * Scale - (balance[seller] * Scale + tradeCost)) <= Scale
  <2> DEFINE n == balance[seller] * Scale + tradeCost
  <2>0. s \in fmt8f(n)
    BY Zenon DEF SellerBalances
  <2>1. n \in Nat
    BY <1>2, <1>4
  <2> HIDE DEF n
  <2>2. s \in Nat /\ 2 * (n - s * Scale) <= Scale /\ 2 * (s * Scale - n) <= Scale
    BY <2>0, <2>1, RoundedIsNear
  <2> QED
    BY <2>2, Zenon DEF n
<1>7. b * Scale \in Nat /\ s * Scale \in Nat /\ Scale \in Nat
  BY <1>3, <1>6, ScaleAssumption
<1>8. Abstract!Paid(balance[buyer], b, -tradeCost)
  BY <1>2, <1>4, <1>5, <1>7 DEF Abstract!Paid
<1>9. Abstract!Paid(balance[seller], s, tradeCost)
  BY <1>2, <1>4, <1>6, <1>7 DEF Abstract!Paid
<1> QED
  BY <1>1, <1>3, <1>6, <1>8, <1>9 DEF Settles

LEMMA TradeCommits ==
    ASSUME IInv, ExecuteCommit
    PROVE  Abstract!Next
<1>1. PICK b \in BuyerBalances, s \in SellerBalances, amount \in AmountStrings :
         Settles(b, s, amount) /\ WriteTrade(b, s, amount)
  BY DEF ExecuteCommit
<1>2. EngineAt("execute") /\ Matchable /\ buyer \in WalletOwners /\ seller \in WalletOwners
  BY DEF ExecuteCommit
<1>3. /\ BuyId \in Placed /\ SellId \in Placed /\ BuyId # SellId
      /\ orders[BuyId].side = "BUY" /\ orders[SellId].side = "SELL"
      /\ orders[SellId].asset = asset /\ orders[BuyId].asset = asset
      /\ orders[BuyId].user = buyer /\ orders[SellId].user = seller /\ buyer # seller
      /\ orders[SellId].price <= orders[BuyId].price
      /\ tradePrice \in {orders[BuyId].price, orders[SellId].price}
  BY <1>2, TradeFacts DEF Matchable, asset, buyer, seller, tradePrice, BuyId, SellId
<1>4. \A o \in {BuyId, SellId} :
         /\ Book[o].state = "open"
         /\ Book[o].terms = TermsOf(orders[o])
         /\ Abstract!Left(o) = remaining(orders[o])
         /\ Shown(orders'[o]) = Abstract!Fill(o, fillQty)
  BY <1>2, ShownFill, CommitFacts
<1>5. Abstract!Agree(BuyId, SellId)
  BY <1>2, <1>3, <1>4 DEF Abstract!Agree, Book, TermsOf
<1>6. /\ fillQty > 0
      /\ fillQty \in {Abstract!Left(BuyId), Abstract!Left(SellId)}
      /\ fillQty <= Abstract!Left(BuyId) /\ fillQty <= Abstract!Left(SellId)
  <2>1. remaining(orders[BuyId]) \in Int /\ remaining(orders[SellId]) \in Int
    BY <1>2, TradeFacts DEF Row, remaining
  <2>2. fillQty = minBig(remaining(orders[BuyId]), remaining(orders[SellId]))
    BY DEF fillQty
  <2> QED
    BY <1>2, <1>4, <2>1, <2>2 DEF minBig, Matchable
<1>7. Book' = [Book EXCEPT ![BuyId] = Abstract!Fill(BuyId, fillQty),
                           ![SellId] = Abstract!Fill(SellId, fillQty)]
  <2>1. Placed' = Placed /\ \A o \in Placed \ {BuyId, SellId} : orders'[o] = orders[o]
    BY CommitFacts
  <2> QED
    BY <1>3, <1>4, <2>1 DEF Book
<1>8. /\ portfolios' = settledHoldings
      /\ balance' = [balance EXCEPT ![buyer] = b, ![seller] = s]
  BY <1>1 DEF WriteTrade
<1>9. tradeCost = tradePrice * fillQty /\ tradeCost <= balance[buyer] * Scale
  <2>1. tradePrice \in Nat /\ fillQty \in Nat
    BY <1>2, TradeFacts, FillFacts
  <2> QED
    BY <1>1, <2>1 DEF tradeCost, Settles
<1>10. Abstract!Trade(BuyId, SellId, tradePrice, fillQty)
  <2>1. /\ Book[BuyId].terms.user = buyer /\ Book[SellId].terms.user = seller
        /\ Book[BuyId].terms.asset = asset
        /\ Book[BuyId].terms.price = orders[BuyId].price
        /\ Book[SellId].terms.price = orders[SellId].price
    BY <1>3, <1>4 DEF TermsOf
  <2>2. \E x, y \in 0..MaxNumeric :
           /\ Abstract!Paid(balance[buyer], x, -tradeCost)
           /\ Abstract!Paid(balance[seller], y, tradeCost)
           /\ balance' = [balance EXCEPT ![buyer] = x, ![seller] = y]
    BY <1>1, <1>2, <1>8, BalancesPaid
  <2>3. /\ portfolios' =
              [k \in DOMAIN portfolios \cup {<<buyer, asset>>} |->
                  IF k = <<buyer, asset>>
                  THEN (IF k \in DOMAIN portfolios THEN portfolios[k] ELSE 0) + fillQty
                  ELSE IF k = <<seller, asset>> THEN portfolios[k] - fillQty ELSE portfolios[k]]
        /\ fillQty <= portfolios[<<seller, asset>>]
    BY <1>1, <1>2, <1>8, HoldingsMove DEF Settles
  <2>4. /\ tradePrice \in {Book[BuyId].terms.price, Book[SellId].terms.price}
        /\ Book[SellId].terms.price <= Book[BuyId].terms.price
        /\ tradePrice * fillQty <= balance[Book[BuyId].terms.user] * Scale
        /\ fillQty <= portfolios[<<Book[SellId].terms.user, Book[BuyId].terms.asset>>]
    BY <1>3, <1>9, <2>1, <2>3
  <2>5. \E x, y \in 0..MaxNumeric :
           /\ Abstract!Paid(balance[Book[BuyId].terms.user], x, -(tradePrice * fillQty))
           /\ Abstract!Paid(balance[Book[SellId].terms.user], y, tradePrice * fillQty)
           /\ balance' = [balance EXCEPT ![Book[BuyId].terms.user] = x,
                                         ![Book[SellId].terms.user] = y]
    BY <1>9, <2>1, <2>2
  <2>6. portfolios' =
           [k \in DOMAIN portfolios \cup {<<Book[BuyId].terms.user, Book[BuyId].terms.asset>>} |->
               IF k = <<Book[BuyId].terms.user, Book[BuyId].terms.asset>>
               THEN (IF k \in DOMAIN portfolios THEN portfolios[k] ELSE 0) + fillQty
               ELSE IF k = <<Book[SellId].terms.user, Book[BuyId].terms.asset>>
                    THEN portfolios[k] - fillQty ELSE portfolios[k]]
    BY <2>1, <2>3
  <2> QED
    BY <1>5, <1>6, <1>7, <2>4, <2>5, <2>6, Zenon DEF Abstract!Trade, Book
<1> QED
  BY <1>3, <1>4, <1>6, <1>10 DEF Abstract!Next, Abstract!Placed, Book, TermsOf

-------------------------------------------------------------------------------
LEMMA StepImplements ==
    ASSUME IInv, [Next]_vars
    PROVE  [Abstract!Next]_(Abstract!vars)
<1>1. \/ UNCHANGED <<orders, balance, portfolios>>
      \/ \E r \in Requests : PlaceInsert(r)
      \/ \E u \in Users, o \in OrderIds : CancelOrder(u, o)
      \/ \E cutoff \in 1..(clock + 1) : ExpireStaleOrders(cutoff)
      \/ \E u \in Users, amount \in Amounts : Deposit(u, amount) \/ Withdraw(u, amount)
      \/ ExecuteCommit
  BY DEF Next, vars, tables, PlaceOrder, PlaceLookup, PlaceCheck, PlaceBegin, PlaceConflict,
         PlaceDuplicate, PlaceEnqueue, PlaceFail, EngineStep, EngineReceive,
         EngineFetch, EngineFind, ExecuteUnmatched, ExecuteError, EngineRecheck,
         EngineRefetch, EngineFail, Crash
<1> QED
  BY <1>1, Invisible, InsertPlaces, CancelCloses, ExpiryCloses, WalletSteps, TradeCommits

(* Exchange implements Ledger: whatever is stale, cancelled, expired, retried,  *)
(* lost or crashed, each commit is one whole abstract step.                     *)
THEOREM LedgerImplemented == Spec => ImplementsLedger
<1>1. Init => Abstract!Init
  BY InitLedger
<1>2. IInv /\ [Next]_vars => [Abstract!Next]_(Abstract!vars)
  BY StepImplements
<1> QED
  BY <1>1, <1>2, IInvHolds, PTL DEF Spec, ImplementsLedger, Abstract!Spec

-------------------------------------------------------------------------------
(* Fills and trades *)

LEMMA QuantitiesColumn ==
    ASSUME NEW records \in Seq(Trade), NEW o
    PROVE  Column(QuantitiesOf(o, records))
<1> DEFINE dom == {i \in DOMAIN records : o \in {records[i].buyOrder, records[i].sellOrder}}
           f == QuantitiesOf(o, records)
<1>1. DOMAIN records = 1..Len(records) /\ Len(records) \in Nat
  OBVIOUS
<1>2. IsFiniteSet(1..Len(records))
  BY <1>1, FS_Interval
<1>3. IsFiniteSet(dom)
  BY <1>1, <1>2, FS_Subset
<1>4. DOMAIN f = dom /\ f = [i \in dom |-> records[i].quantity]
  BY DEF QuantitiesOf
<1>5. \A i \in dom : records[i].quantity \in Nat
  <2>1. \A i \in DOMAIN records : records[i] \in Trade
    BY <1>1
  <2> QED
    BY <2>1 DEF Trade
<1> QED
  BY <1>3, <1>4, <1>5 DEF Column

(* A new trade adds its quantity to the sums of its two orders, and to no other. *)
LEMMA QuantitiesAppend ==
    ASSUME NEW records \in Seq(Trade), NEW t \in Trade, NEW o
    PROVE  Total(QuantitiesOf(o, Append(records, t))) =
              Total(QuantitiesOf(o, records))
              + (IF o \in {t.buyOrder, t.sellOrder} THEN t.quantity ELSE 0)
<1> DEFINE new == Append(records, t)
           f == QuantitiesOf(o, records)
           g == QuantitiesOf(o, new)
           x == Len(records) + 1
<1>1. /\ new \in Seq(Trade) /\ DOMAIN records = 1..Len(records) /\ Len(records) \in Nat
      /\ DOMAIN new = 1..x /\ new[x] = t
      /\ \A i \in DOMAIN records : new[i] = records[i]
  OBVIOUS
<1>2. DOMAIN new = DOMAIN records \cup {x} /\ x \notin DOMAIN records
  BY <1>1
<1>3. Column(f) /\ Column(g)
  BY <1>1, QuantitiesColumn
<1> HIDE DEF x, new
<1>4. /\ DOMAIN f = {i \in DOMAIN records : o \in {records[i].buyOrder, records[i].sellOrder}}
      /\ DOMAIN g = {i \in DOMAIN new : o \in {new[i].buyOrder, new[i].sellOrder}}
      /\ \A i \in DOMAIN f : f[i] = records[i].quantity
      /\ \A i \in DOMAIN g : g[i] = new[i].quantity
  BY DEF QuantitiesOf
<1>5. CASE o \in {t.buyOrder, t.sellOrder}
  <2>1. /\ x \notin DOMAIN f /\ DOMAIN g = DOMAIN f \cup {x} /\ \A i \in DOMAIN f : g[i] = f[i]
        /\ g[x] = t.quantity
    BY <1>1, <1>2, <1>4, <1>5
  <2> HIDE DEF f, g
  <2>2. Total(g) = Total(f) + t.quantity
    BY <1>3, <2>1, TotalInsert
  <2> QED
    BY <1>5, <2>2 DEF f, g, new
<1>6. CASE o \notin {t.buyOrder, t.sellOrder}
  <2>1. DOMAIN g = DOMAIN f /\ \A i \in DOMAIN f : g[i] = f[i]
    BY <1>1, <1>2, <1>4, <1>6
  <2>2. f = [i \in DOMAIN f |-> f[i]] /\ g = [i \in DOMAIN g |-> g[i]]
    BY DEF QuantitiesOf
  <2>3. g = f
    <3> HIDE DEF f, g
    <3> QED
      BY <2>1, <2>2
  <2>4. Total(f) \in Nat
    BY <1>3, TotalNat
  <2> QED
    BY <1>6, <2>3, <2>4 DEF new
<1> QED
  BY <1>5, <1>6

(* Nothing but a trade fills an order; a new order is not filled. *)
LEMMA FilledByTrades ==
    ASSUME IInv, [Next]_vars, ~ExecuteCommit
    PROVE  \A o \in Placed' : orders'[o].filled = IF o \in Placed THEN orders[o].filled ELSE 0
<1>1. \A o \in Placed : orders[o] \in Row
  BY DEF IInv, TypeOK
<1>2. CASE \E r \in Requests : PlaceInsert(r)
  <2>1. PICK r \in Requests, n \in OrderIds : NextId(n) /\ InsertRow(n, NewRow(r))
    BY <1>2 DEF PlaceInsert
  <2>2. Placed' = Placed \cup {n} /\ n \notin Placed
        /\ \A o \in Placed' : orders'[o] = IF o = n THEN NewRow(r) ELSE orders[o]
    BY <2>1 DEF NextId, InsertRow, Placed
  <2> QED
    BY <2>2 DEF NewRow
<1>3. CASE \E u \in Users, o \in OrderIds : CancelOrder(u, o)
  <2>1. PICK c \in Placed : orders' = [orders EXCEPT ![c].status = "CANCELLED"]
    BY <1>3 DEF CancelOrder
  <2>2. Placed' = Placed /\ \A o \in Placed : o # c => orders'[o] = orders[o]
    BY <2>1 DEF Placed
  <2>3. orders'[c] = [orders[c] EXCEPT !.status = "CANCELLED"]
    BY <2>1 DEF Placed
  <2>4. orders'[c].filled = orders[c].filled
    BY <1>1, <2>3 DEF Row
  <2> QED
    BY <2>2, <2>4
<1>4. CASE \E cutoff \in 1..(clock + 1) : ExpireStaleOrders(cutoff)
  <2>1. Placed' = Placed
    BY <1>4 DEF ExpireStaleOrders, Placed
  <2>2. \A o \in Placed : \/ orders'[o] = orders[o]
                          \/ orders'[o] = [orders[o] EXCEPT !.status = "CANCELLED"]
    BY <1>4 DEF ExpireStaleOrders
  <2>3. \A o \in Placed : orders'[o].filled = orders[o].filled
    BY <1>1, <2>2 DEF Row
  <2> QED
    BY <2>1, <2>3
<1>5. CASE UNCHANGED orders
  BY <1>5 DEF Placed
<1>6. \/ UNCHANGED orders
      \/ \E r \in Requests : PlaceInsert(r)
      \/ \E u \in Users, o \in OrderIds : CancelOrder(u, o)
      \/ \E cutoff \in 1..(clock + 1) : ExpireStaleOrders(cutoff)
      \/ ExecuteCommit
  BY DEF Next, vars, tables, PlaceOrder, PlaceLookup, PlaceCheck, PlaceBegin, PlaceConflict,
         PlaceDuplicate, PlaceEnqueue, PlaceFail, Deposit, Withdraw, EngineStep, EngineReceive,
         EngineFetch, EngineFind, ExecuteUnmatched, ExecuteError, EngineRecheck,
         EngineRefetch, EngineFail, Crash
<1> QED
  BY <1>2, <1>3, <1>4, <1>5, <1>6

(* An order that is not in the table has no trades. *)
LEMMA NoTradeYet ==
    ASSUME TradesRespectLimits, NEW o, o \notin Placed
    PROVE  Total(QuantitiesOf(o, trades)) = 0
<1>1. \A i \in DOMAIN trades : o \notin {trades[i].buyOrder, trades[i].sellOrder}
  BY DEF TradesRespectLimits
<1>2. DOMAIN QuantitiesOf(o, trades) = {}
  BY <1>1 DEF QuantitiesOf
<1> QED
  BY <1>2, TotalEmpty

LEMMA FillsMatchTradesStep ==
    ASSUME IInv, TradesRespectLimits, FillsMatchTrades, [Next]_vars
    PROVE  FillsMatchTrades'
<1>1. CASE ~ExecuteCommit
  <2>1. trades' = trades
    BY <1>1, TradesGrow
  <2>2. SUFFICES ASSUME NEW o \in Placed'
                 PROVE  orders'[o].filled = Total(QuantitiesOf(o, trades))
    BY <2>1 DEF FillsMatchTrades
  <2>3. orders'[o].filled = IF o \in Placed THEN orders[o].filled ELSE 0
    BY <1>1, FilledByTrades
  <2>4. o \in Placed => orders[o].filled = Total(QuantitiesOf(o, trades))
    BY DEF FillsMatchTrades
  <2>5. o \notin Placed => Total(QuantitiesOf(o, trades)) = 0
    BY NoTradeYet
  <2> QED
    BY <2>3, <2>4, <2>5
<1>2. CASE ExecuteCommit
  <2> DEFINE t == [buyOrder |-> BuyId, sellOrder |-> SellId,
                   price |-> tradePrice, quantity |-> fillQty]
  <2>1. trades' = Append(trades, t)
    BY <1>2 DEF ExecuteCommit, WriteTrade
  <2>2. EngineAt("execute") /\ Matchable
    BY <1>2 DEF ExecuteCommit
  <2>3. fillQty \in Nat \ {0} /\ tradePrice \in Nat \ {0}
    BY <2>2, TradeFacts, FillFacts
  <2>4. trades \in Seq(Trade) /\ t \in Trade
    <3>1. BuyId \in OrderIds /\ SellId \in OrderIds
      BY <2>2, TradeFacts DEF IInv, TypeOK
    <3> QED
      BY <2>3, <3>1 DEF Trade, IInv, TypeOK
  <2>5. t.buyOrder = BuyId /\ t.sellOrder = SellId /\ t.quantity = fillQty
    OBVIOUS
  <2> HIDE DEF t
  <2>6. SUFFICES ASSUME NEW o \in Placed'
                 PROVE  orders'[o].filled = Total(QuantitiesOf(o, Append(trades, t)))
    BY <2>1 DEF FillsMatchTrades
  <2>7. o \in Placed
    BY <1>2, CommitFacts
  <2>8. orders[o].filled = Total(QuantitiesOf(o, trades)) /\ orders[o].filled \in Nat
    BY <2>7 DEF FillsMatchTrades, IInv, TypeOK, Row
  <2>9. Total(QuantitiesOf(o, Append(trades, t))) =
           Total(QuantitiesOf(o, trades)) + (IF o \in {BuyId, SellId} THEN fillQty ELSE 0)
    BY <2>4, <2>5, QuantitiesAppend
  <2>10. CASE o \in {BuyId, SellId}
    <3>0. orders'[o] \in filledRows(o)
      BY <1>2, <2>10, CommitFacts
    <3>1. PICK st \in newStatus(orders[o].filled, fillQty, orders[o].quantity) :
             orders'[o] = [orders[o] EXCEPT !.filled = @ + fillQty, !.status = st]
      BY <3>0 DEF filledRows
    <3>2. orders'[o].filled = orders[o].filled + fillQty
      BY <2>7, <3>1 DEF IInv, TypeOK, Row
    <3> QED
      BY <2>8, <2>9, <2>10, <3>2
  <2>11. CASE o \notin {BuyId, SellId}
    <3>1. orders'[o] = orders[o]
      BY <1>2, <2>7, <2>11, CommitFacts
    <3> QED
      BY <2>8, <2>9, <2>11, <3>1
  <2> QED
    BY <2>10, <2>11
<1> QED
  BY <1>1, <1>2

(* What the orders table says was filled is what the trades table says was traded, *)
(* order by order, whatever is cancelled, expired, lost or crashed between trades. *)
THEOREM FillsAreTraded == Spec => []FillsMatchTrades
<1>1. Init => FillsMatchTrades
  BY DEF Init, FillsMatchTrades, Placed
<1>2. IInv /\ TradesRespectLimits /\ FillsMatchTrades /\ [Next]_vars => FillsMatchTrades'
  BY FillsMatchTradesStep
<1> QED
  BY <1>1, <1>2, IInvHolds, TradesCorrect, PTL DEF Spec

-------------------------------------------------------------------------------
(* Units of an asset *)

(* q units of a holding go from s, which has them, to b. *)
MovedUnits(h, b, s, q) ==
    [k \in DOMAIN h \cup {b} |->
        IF k = b THEN (IF k \in DOMAIN h THEN h[k] ELSE 0) + q
        ELSE IF k = s THEN h[k] - q ELSE h[k]]

LEMMA MovedUnitsTotal ==
    ASSUME NEW h, Column(h), NEW b, NEW s \in DOMAIN h, b # s, NEW q \in Nat, q <= h[s]
    PROVE  /\ Column(MovedUnits(h, b, s, q))
           /\ Total(MovedUnits(h, b, s, q)) = Total(h)
<1> DEFINE dom == DOMAIN h \cup {b}
           reduced == [k \in DOMAIN h |-> IF k = s THEN h[k] - q ELSE h[k]]
           g == MovedUnits(h, b, s, q)
<1>1. IsFiniteSet(DOMAIN h) /\ \A k \in DOMAIN h : h[k] \in Nat
  BY DEF Column
<1>2. IsFiniteSet(dom)
  BY <1>1, FS_AddElement
<1>3. /\ DOMAIN reduced = DOMAIN h
      /\ \A k \in DOMAIN h : k # s => reduced[k] = h[k]
      /\ reduced[s] = h[s] - q
      /\ reduced[s] \in Nat
  BY <1>1
<1>4. Column(reduced)
  BY <1>1, <1>3 DEF Column
<1>5. Total(reduced) = Total(h) - q
  <2>1. Total(h) \in Nat /\ h[s] \in Nat
    BY <1>1, TotalNat
  <2>2. Total(reduced) = Total(h) + reduced[s] - h[s]
    <3> HIDE DEF reduced
    <3> QED
      BY <1>3, <1>4, TotalUpdate
  <2> QED
    BY <1>3, <2>1, <2>2
<1>6. /\ DOMAIN g = dom /\ g = [k \in dom |-> g[k]]
      /\ g[b] = (IF b \in DOMAIN h THEN h[b] ELSE 0) + q
      /\ \A k \in DOMAIN h : k # b => g[k] = reduced[k]
  BY DEF MovedUnits
<1>7. g[b] \in Nat
  BY <1>1, <1>6
<1>8. Column(g)
  BY <1>2, <1>3, <1>4, <1>6, <1>7 DEF Column
<1>9. Total(reduced) \in Nat /\ Total(h) \in Nat
  BY <1>4, TotalNat
<1>10. CASE b \in DOMAIN h
  <2>1. DOMAIN g = DOMAIN reduced /\ b \in DOMAIN reduced /\ reduced[b] = h[b]
    BY <1>3, <1>6, <1>10
  <2> HIDE DEF g, reduced
  <2>2. Total(g) = Total(reduced) + g[b] - reduced[b]
    BY <1>3, <1>4, <1>6, <1>8, <2>1, TotalUpdate
  <2> QED
    BY <1>1, <1>5, <1>6, <1>8, <1>9, <1>10, <2>1, <2>2 DEF g
<1>11. CASE b \notin DOMAIN h
  <2>1. g[b] = q
    BY <1>6, <1>11
  <2> HIDE DEF g, reduced
  <2>2. Total(g) = Total(reduced) + g[b]
    BY <1>3, <1>4, <1>6, <1>8, <1>11, TotalInsert
  <2> QED
    BY <1>5, <1>8, <1>9, <2>1, <2>2 DEF g
<1> QED
  BY <1>10, <1>11

(* The holdings of an asset, before and after a trade. *)
HoldingsFinite == IsFiniteSet(DOMAIN portfolios)

LEMMA HoldingsColumn ==
    ASSUME IInv, HoldingsFinite, NEW a
    PROVE  Column(HoldingsIn(a, portfolios))
<1> DEFINE dom == {k \in DOMAIN portfolios : k[2] = a}
<1>1. IsFiniteSet(dom)
  BY FS_Subset DEF HoldingsFinite
<1>2. \A k \in DOMAIN portfolios : portfolios[k] \in Nat
  BY ConstantsAssumption DEF IInv, TypeOK
<1> QED
  BY <1>1, <1>2 DEF Column, HoldingsIn

LEMMA HoldingsStep ==
    ASSUME IInv, HoldingsFinite, ExecuteCommit
    PROVE  /\ HoldingsFinite'
           /\ \A a : Total(HoldingsIn(a, portfolios')) = Total(HoldingsIn(a, portfolios))
<1> DEFINE b == <<buyer, asset>>
           s == <<seller, asset>>
<1>1. EngineAt("execute") /\ Matchable
  BY DEF ExecuteCommit
<1>2. /\ portfolios' = settledHoldings
      /\ \A k \in DOMAIN settledHoldings : settledHoldings[k] \in 0..MaxNumeric
  BY DEF ExecuteCommit, WriteTrade, Settles
<1>3. portfolios' = MovedUnits(portfolios, b, s, fillQty) /\ fillQty <= portfolios[s]
  BY <1>1, <1>2, HoldingsMove DEF MovedUnits
<1>4. s \in DOMAIN portfolios /\ b # s /\ b[2] = asset /\ s[2] = asset
  BY <1>1, TradeFacts DEF IInv, SellersHoldRows, seller, asset
<1>5. fillQty \in Nat
  BY <1>1, FillFacts
<1> HIDE DEF b, s
<1>6. HoldingsFinite'
  <2>1. DOMAIN portfolios' = DOMAIN portfolios \cup {b}
    BY <1>3 DEF MovedUnits
  <2> QED
    BY <2>1, FS_AddElement DEF HoldingsFinite
<1>7. ASSUME NEW a, a # asset PROVE HoldingsIn(a, portfolios') = HoldingsIn(a, portfolios)
  <2> DEFINE dom == {k \in DOMAIN portfolios : k[2] = a}
  <2>1. dom = {k \in DOMAIN portfolios' : k[2] = a}
    BY <1>3, <1>4, <1>7 DEF MovedUnits
  <2>2. \A k \in dom : portfolios'[k] = portfolios[k]
    BY <1>3, <1>4, <1>7 DEF MovedUnits
  <2> QED
    BY <2>1, <2>2 DEF HoldingsIn
<1>8. Total(HoldingsIn(asset, portfolios')) = Total(HoldingsIn(asset, portfolios))
  <2> DEFINE h == HoldingsIn(asset, portfolios)
  <2>1. /\ DOMAIN h = {k \in DOMAIN portfolios : k[2] = asset}
        /\ \A k \in DOMAIN h : h[k] = portfolios[k]
    BY DEF HoldingsIn
  <2>2. HoldingsIn(asset, portfolios') = MovedUnits(h, b, s, fillQty)
    <3> DEFINE dom == DOMAIN h \cup {b}
    <3>1. {k \in DOMAIN portfolios' : k[2] = asset} = dom
      BY <1>3, <1>4, <2>1 DEF MovedUnits
    <3>2. HoldingsIn(asset, portfolios') = [k \in dom |-> portfolios'[k]]
      BY <3>1 DEF HoldingsIn
    <3> HIDE DEF h
    <3>3. \A k \in dom : portfolios'[k] =
             IF k = b THEN (IF k \in DOMAIN h THEN h[k] ELSE 0) + fillQty
             ELSE IF k = s THEN h[k] - fillQty ELSE h[k]
      BY <1>3, <1>4, <2>1 DEF MovedUnits
    <3>4. [k \in dom |-> portfolios'[k]] = MovedUnits(h, b, s, fillQty)
      BY <3>3 DEF MovedUnits
    <3> QED
      BY <3>2, <3>4
  <2>3. s \in DOMAIN h /\ fillQty <= h[s]
    BY <1>3, <1>4, <2>1
  <2>4. Column(h)
    BY HoldingsColumn
  <2> HIDE DEF h
  <2> QED
    BY <1>4, <1>5, <2>2, <2>3, <2>4, MovedUnitsTotal DEF h
<1> QED
  BY <1>6, <1>7, <1>8

LEMMA AssetsConservedStep ==
    ASSUME IInv, HoldingsFinite, AssetsConserved, [Next]_vars
    PROVE  HoldingsFinite' /\ AssetsConserved'
<1>1. CASE ExecuteCommit
  BY <1>1, HoldingsStep DEF AssetsConserved
<1>2. CASE UNCHANGED portfolios
  BY <1>2 DEF AssetsConserved, HoldingsFinite
<1>3. UNCHANGED portfolios \/ ExecuteCommit
  BY DEF Next, vars, tables, PlaceOrder, PlaceLookup, PlaceCheck, PlaceBegin, PlaceInsert,
         PlaceConflict, PlaceDuplicate, PlaceEnqueue, PlaceFail, CancelOrder,
         ExpireStaleOrders, Deposit, Withdraw, EngineStep, EngineReceive, EngineFetch,
         EngineFind, ExecuteUnmatched, ExecuteError, EngineRecheck, EngineRefetch,
         EngineFail, Crash
<1> QED
  BY <1>1, <1>2, <1>3

(* For every number of traders, assets and trades, trading creates and destroys  *)
(* nothing: each asset's holdings add up to what they added up to at first.      *)
THEOREM AssetsAreConserved == Spec => []AssetsConserved
<1>1. Init => HoldingsFinite /\ AssetsConserved
  BY HoldingsAssumption DEF Init, HoldingsFinite, AssetsConserved
<1>2. IInv /\ HoldingsFinite /\ AssetsConserved /\ [Next]_vars
         => HoldingsFinite' /\ AssetsConserved'
  BY AssetsConservedStep
<1>3. Spec => [](HoldingsFinite /\ AssetsConserved)
  BY <1>1, <1>2, IInvHolds, PTL DEF Spec
<1> QED
  BY <1>3, PTL
===============================================================================
