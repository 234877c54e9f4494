--------------------------------- MODULE Sums ---------------------------------
(***************************************************************************)
(* SUM of a column of natural numbers: f[x] is what row x adds.            *)
(*                                                                         *)
(* The sum is defined as the number of units it consists of, f[x] of them  *)
(* for each row x.  What a written row does to a sum is then a fact about  *)
(* cardinalities, and needs no induction over the rows.                    *)
(***************************************************************************)
EXTENDS Integers, FiniteSets

(* Unit number i of row x is <<x, i>>. *)
UnitsOf(f, S) == UNION {{x} \X (1..f[x]) : x \in S}

Total(f) == Cardinality(UnitsOf(f, DOMAIN f))
===============================================================================
