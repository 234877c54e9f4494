------------------------------ MODULE MCExchange ------------------------------
(***************************************************************************)
(* Small instances of Exchange for TLC: three traders, one asset, at most  *)
(* three calls of PlaceOrder.                                              *)
(***************************************************************************)
EXTENDS ExchangeAccounting, ExchangeLedger, TLC

CONSTANTS alice, bob, carol, gold, k1, k2, r1, r2, r3

(* Calls differ in nothing but their names. *)
CallSymmetry == Permutations({r1, r2, r3})

In(u, s, p, q, k) ==
    [user |-> u, asset |-> gold, side |-> s, price |-> p, quantity |-> q, key |-> k]

(* Prices that cross and that do not, a fill that needs two counterparties, a *)
(* trader on both sides, two resting orders at one price.  With Scale = 2 a    *)
(* fill at 3 costs one unit and a half: a tie.                                *)
MatchingInputs ==
    {In(alice, "BUY", 3, 2, NoKey), In(carol, "SELL", 2, 1, NoKey),
     In(bob, "SELL", 3, 1, NoKey), In(bob, "BUY", 3, 1, NoKey)}

(* One key used twice by Alice, with different quantities, and once by Bob; the *)
(* empty key; Alice may want to sell before she has bought anything; Carol has  *)
(* no wallet row: her sells can be placed and never settle.                     *)
FaultInputs ==
    {In(alice, "BUY", 1, 1, k1), In(alice, "BUY", 1, 2, k1), In(bob, "SELL", 1, 1, k1),
     In(alice, "SELL", 1, 1, k2), In(carol, "SELL", 1, 1, NoKey)}

(* A sell of three and two buys of two: the second buy fills the rest of the *)
(* sell and wants more.                                                      *)
RoundingInputs == {In(bob, "SELL", 1, 3, NoKey), In(alice, "BUY", 1, 2, NoKey)}

Balance(n) == [u \in WalletOwners |-> n]
Balance2 == Balance(2)
Balance4 == Balance(4)

BobHolds == <<bob, gold>> :> 3
BobAndCarolHold == (<<bob, gold>> :> 2) @@ (<<carol, gold>> :> 1)
===============================================================================
