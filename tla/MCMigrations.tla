----------------------------- MODULE MCMigrations -----------------------------
(***************************************************************************)
(* RunMigrations on the scripts of the repository, by up to three          *)
(* processes at once.                                                      *)
(***************************************************************************)
EXTENDS Migrations, TLC

CONSTANTS p1, p2, p3

ProcessSymmetry == Permutations({p1, p2, p3})
===============================================================================
