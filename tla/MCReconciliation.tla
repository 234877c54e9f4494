--------------------------- MODULE MCReconciliation ---------------------------
(***************************************************************************)
(* A small instance of Reconciliation for TLC: two users, who trade in     *)
(* both directions, and two trades whose order numbers begin alike.        *)
(*                                                                         *)
(* Ten units of price times one of quantity make a unit of money, and a    *)
(* number is off by up to an eightieth of itself: 3.6 and 5.6 units are so *)
(* near to a tie that an error may reach it.                               *)
(***************************************************************************)
EXTENDS Reconciliation, TLC

CONSTANTS alice, bob

T(b, s, bo, so, p, q) == [buyer |-> b, seller |-> s, buyOrder |-> bo, sellOrder |-> so,
                          price |-> p, quantity |-> q]

TheTrades == {T(alice, bob, 1, 2, 18, 2), T(alice, bob, 12, 2, 5, 1), T(bob, alice, 3, 4, 10, 1)}

Balance4 == [u \in Users |-> 4]

Holdings == [u \in Users |-> [quantity |-> IF u = bob THEN 3 ELSE 1, average |-> 7]]
===============================================================================
