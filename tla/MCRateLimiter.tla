----------------------------- MODULE MCRateLimiter -----------------------------
(***************************************************************************)
(* Small instances of RateLimiter for TLC: one caller, three requests and  *)
(* one re-sent batch each, a window of three ticks of the clock.           *)
(***************************************************************************)
EXTENDS RateLimiter, TLC

CONSTANTS q1, q2, q3, u1

RequestSymmetry == Permutations({q1, q2, q3})

(* The wallet's maximum is half that of orders, as in main. *)
Maxima == [l \in Limiters |-> IF l = "wallet" THEN 1 ELSE 2]
===============================================================================
