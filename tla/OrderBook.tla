------------------------------ MODULE OrderBook ------------------------------
(***************************************************************************)
(* The pure part of the exchange: order rows, the price arithmetic of the  *)
(* matching engine and the ordering of the book.  Nothing here has state;  *)
(* Exchange.tla applies these operators to the tables.                     *)
(*                                                                         *)
(* Numbers.  Prices, quantities, balances and amounts are NUMERIC(20,8)    *)
(* columns.  The model counts them in units of the last stored digit.  One *)
(* unit of price times one unit of quantity is 1/Scale of a unit of money  *)
(* (Scale is 10^8 in the schema), so a product is a number of 1/Scale      *)
(* units and has to be rounded back by fmt8f.  Scale = 1 is the case in    *)
(* which every product is representable.                                   *)
(***************************************************************************)
EXTENDS Integers

CONSTANTS
    Scale,
    Inexact    \* whether numbers may be decimal fractions, which no big.Float holds exactly

ASSUME ScaleAssumption == Scale \in Nat \ {0} /\ Inexact \in BOOLEAN

Sides == {"BUY", "SELL"}

OpenStatuses == {"PENDING", "PARTIALLY_FILLED"}

Statuses == OpenStatuses \cup {"FILLED", "CANCELLED"}

isOpen(status) == status \in OpenStatuses

\* Mutant of newStatus: the fill is counted twice.
newStatusTwice(filled, fill, total) ==
    {IF filled + 2 * fill < total THEN "PARTIALLY_FILLED" ELSE "FILLED"}

(***************************************************************************)
(* The status after a fill compares a sum of two parsed decimals with a    *)
(* third one.  The three are rounded to binary separately, so the sum of a *)
(* complete fill may come out just below the total: 0.3 + 1.3 < 1.6 at 128 *)
(* bits.  A first fill adds to zero and is exact.                          *)
(***************************************************************************)
newStatus(filled, fill, total) ==
    IF filled + fill < total THEN {"PARTIALLY_FILLED"}
    ELSE IF Inexact /\ filled > 0 THEN {"FILLED", "PARTIALLY_FILLED"}
    ELSE {"FILLED"}

minBig(a, b) == IF a <= b THEN a ELSE b

remaining(o) == o.quantity - o.filled

oppositeSide(side) == IF side = "SELL" THEN "BUY" ELSE "SELL"

(***************************************************************************)
(* fmt.Sprintf("%.8f", x) of a big.Float x that holds n/Scale units.  The  *)
(* result is the nearest unit.  Decimal fractions are not representable in *)
(* binary, so a value half way between two units has been nudged to one    *)
(* side or the other by an earlier operation: either neighbour can come    *)
(* out, and two computations of the same tie need not agree.               *)
(***************************************************************************)
fmt8f(n) ==
    LET down == n \div Scale
    IN  {u \in {down, down + 1} : /\ 2 * (n - u * Scale) <= Scale
                                  /\ 2 * (u * Scale - n) <= Scale}

(* An incoming order of this side and price accepts a candidate's price. *)
crosses(side, price, candidatePrice) ==
    IF side = "BUY" THEN candidatePrice <= price ELSE candidatePrice >= price

(* ORDER BY price ASC (SELL) or DESC (BUY), created_at ASC. *)
ranksBefore(c, d) ==
    \/ IF c.side = "BUY" THEN c.price > d.price ELSE c.price < d.price
    \/ c.price = d.price /\ c.createdAt < d.createdAt

\* Mutant of eligible: a trader's own resting order is accepted as candidate.
eligibleSelf(incoming, c) ==
    /\ c.asset = incoming.asset
    /\ c.side = oppositeSide(incoming.side)
    /\ isOpen(c.status)
    /\ crosses(incoming.side, incoming.price, c.price)

(* A row GetOpenOrdersForMatching returns and findBestCandidate does not skip. *)
eligible(incoming, c) ==
    /\ c.asset = incoming.asset
    /\ c.side = oppositeSide(incoming.side)
    /\ isOpen(c.status)
    /\ c.user # incoming.user
    /\ crosses(incoming.side, incoming.price, c.price)
==============================================================================
