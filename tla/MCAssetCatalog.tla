---------------------------- MODULE MCAssetCatalog ----------------------------
(***************************************************************************)
(* A small instance of AssetCatalog for TLC: three prices, two assets and  *)
(* four calls.                                                             *)
(***************************************************************************)
EXTENDS AssetCatalog, TLC

CONSTANTS gold, oil, ann, ben, r1, r2, r3, r4

CallSymmetry == Permutations({r1, r2, r3, r4})

In(k, a, b, p) == [kind |-> k, asset |-> a, broker |-> b, price |-> p]

(* Two brokers and what they, a reader and the engine do; ben tries to update an *)
(* asset of ann's.                                                               *)
Calls ==
    {In("create", gold, ann, 1), In("create", oil, ben, 1), In("update", gold, ann, 2),
     In("update", gold, ben, 2), In("disable", gold, ann, NoEntry),
     In("trade", gold, ann, 3),
     In("get", gold, ann, NoEntry), In("list", gold, ann, NoEntry)}
===============================================================================
