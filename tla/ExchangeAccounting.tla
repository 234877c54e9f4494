-------------------------- MODULE ExchangeAccounting --------------------------
(***************************************************************************)
(* Properties of Exchange that add up a column: what the trades table, the *)
(* order rows and the holdings say about each other.                       *)
(***************************************************************************)
EXTENDS Exchange, Sums

(* The portfolios table has finitely many rows. *)
ASSUME HoldingsAssumption == IsFiniteSet(DOMAIN InitPortfolios)

(* The quantities of the trades of order o, on either side. *)
QuantitiesOf(o, records) ==
    [i \in {i \in DOMAIN records : o \in {records[i].buyOrder, records[i].sellOrder}} |->
        records[i].quantity]

(* The filled quantity of every order is the sum of its trades: no fill without *)
(* a trade record, no trade counted twice, on either side.                      *)
FillsMatchTrades == \A o \in Placed : orders[o].filled = Total(QuantitiesOf(o, trades))

(* The holdings of asset a. *)
HoldingsIn(a, holdings) == [k \in {k \in DOMAIN holdings : k[2] = a} |-> holdings[k]]

(* Trading moves holdings, it neither creates nor destroys units of an asset. *)
AssetsConserved ==
    \A a \in Assets : Total(HoldingsIn(a, portfolios)) = Total(HoldingsIn(a, InitPortfolios))
===============================================================================
