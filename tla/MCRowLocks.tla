------------------------------ MODULE MCRowLocks ------------------------------
(***************************************************************************)
(* A small instance of RowLocks for TLC: two traders who each have an      *)
(* order on both sides of the book.                                        *)
(***************************************************************************)
EXTENDS RowLocks, TLC

CONSTANTS alice, bob, e1, s1, j1

(* Alice buys with 1 and sells with 2, Bob sells with 3 and buys with 4. *)
TwoTraders == (1 :> alice) @@ (2 :> alice) @@ (3 :> bob) @@ (4 :> bob)

===============================================================================
