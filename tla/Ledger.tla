-------------------------------- MODULE Ledger --------------------------------
(***************************************************************************)
(* What the exchange promises, without channels, goroutines, SQL or        *)
(* retries: traders own cash and units of assets, orders rest in a book,   *)
(* and a trade between two open orders that accept its price fills both    *)
(* and moves cash and units at one stroke.  Nothing else moves anything.   *)
(*                                                                         *)
(* Exchange implements this specification (ExchangeLedger), although its   *)
(* engine chooses trades from reads that may be stale by the time they     *)
(* are used.                                                               *)
(***************************************************************************)
EXTENDS Integers

CONSTANTS
    Owners,        \* the traders that have a wallet
    Orders,        \* ids of orders
    Terms,         \* what an order may ask for
    Sums,          \* what may be paid in and out
    Unit,          \* how many times finer a price times a quantity is than cash
    MaxSum,        \* the most a wallet can hold
    OpeningCash,
    OpeningUnits

VARIABLES
    cash,    \* cash of every trader that has a wallet
    units,   \* units held, per trader and asset
    book     \* the orders placed so far: their terms, what is filled, their state

vars == <<cash, units, book>>

Placed == DOMAIN book

Init ==
    /\ cash = OpeningCash
    /\ units = OpeningUnits
    /\ book = [o \in {} |-> 0]

(* A new order, whose owner can pay for it or holds what is sold, or has at some *)
(* time before: nothing is reserved.                                             *)
Place(o, terms) ==
    /\ o \notin Placed
    /\ terms.price > 0 /\ terms.quantity > 0
    /\ terms.side = "SELL" => <<terms.user, terms.asset>> \in DOMAIN units
    /\ book' = [i \in Placed \cup {o} |->
                   IF i = o THEN [terms |-> terms, filled |-> 0, state |-> "open"] ELSE book[i]]
    /\ UNCHANGED <<cash, units>>

(* Orders are cancelled, one by its owner or many by the expiry job. *)
Close(closed) ==
    /\ \A o \in closed : book[o].state = "open"
    /\ book' = [o \in Placed |-> IF o \in closed THEN [book[o] EXCEPT !.state = "closed"] ELSE book[o]]
    /\ UNCHANGED <<cash, units>>

Deposit(u, amount) ==
    /\ cash[u] + amount <= MaxSum
    /\ cash' = [cash EXCEPT ![u] = @ + amount]
    /\ UNCHANGED <<units, book>>

Withdraw(u, amount) ==
    /\ amount <= cash[u]
    /\ cash' = [cash EXCEPT ![u] = @ - amount]
    /\ UNCHANGED <<units, book>>

Left(o) == book[o].terms.quantity - book[o].filled

(* Two open orders that agree, of two traders with wallets. *)
Agree(b, s) ==
    /\ book[b].state = "open" /\ book[s].state = "open"
    /\ book[b].terms.side = "BUY" /\ book[s].terms.side = "SELL"
    /\ book[b].terms.asset = book[s].terms.asset
    /\ book[b].terms.user # book[s].terms.user
    /\ {book[b].terms.user, book[s].terms.user} \subseteq Owners

(* As much as the smaller of the two leaves; an order closes when it is filled. *)
Fill(o, quantity) ==
    [terms |-> book[o].terms, filled |-> book[o].filled + quantity,
     state |-> IF quantity < Left(o) THEN "open" ELSE "closed"]

(* A sum of money counted in 1/Unit is paid in whole units: within half of one. *)
Paid(from, to, exact) == /\ 2 * (from * Unit + exact - to * Unit) <= Unit
                         /\ 2 * (to * Unit - from * Unit - exact) <= Unit

(* The price is the limit of one of the two and acceptable to the other. *)
Trade(b, s, price, quantity) ==
    LET buyer  == book[b].terms.user
        seller == book[s].terms.user
        good   == book[b].terms.asset
        cost   == price * quantity
    IN  /\ Agree(b, s)
        /\ price \in {book[b].terms.price, book[s].terms.price}
        /\ book[s].terms.price <= book[b].terms.price
        /\ quantity > 0
        /\ quantity \in {Left(b), Left(s)} /\ quantity <= Left(b) /\ quantity <= Left(s)
        /\ cost <= cash[buyer] * Unit
        /\ quantity <= units[<<seller, good>>]
        /\ \E x, y \in 0..MaxSum : /\ Paid(cash[buyer], x, -cost)
                                   /\ Paid(cash[seller], y, cost)
                                   /\ cash' = [cash EXCEPT ![buyer] = x, ![seller] = y]
        /\ units' = [k \in DOMAIN units \cup {<<buyer, good>>} |->
                        IF k = <<buyer, good>>
                        THEN (IF k \in DOMAIN units THEN units[k] ELSE 0) + quantity
                        ELSE IF k = <<seller, good>> THEN units[k] - quantity ELSE units[k]]
        /\ book' = [book EXCEPT ![b] = Fill(b, quantity), ![s] = Fill(s, quantity)]

Next ==
    \/ \E o \in Orders, terms \in Terms : Place(o, terms)
    \/ \E closed \in SUBSET Placed : Close(closed)
    \/ \E u \in Owners, amount \in Sums : Deposit(u, amount) \/ Withdraw(u, amount)
    \/ \E b, s \in Placed :
          \E price \in {book[b].terms.price, book[s].terms.price}, quantity \in {Left(b), Left(s)} :
             Trade(b, s, price, quantity)

Spec == Init /\ [][Next]_vars
===============================================================================
