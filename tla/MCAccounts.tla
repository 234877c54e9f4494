----------------------------- MODULE MCAccounts -----------------------------
(***************************************************************************)
(* Small instances for TLC of Accounts, one email and four calls, some of  *)
(* which may come before it is registered, and of Paging, by which the     *)
(* users and audit logs of Accounts are listed, with four rows.            *)
(*                                                                         *)
(* The two share no state, so no step of one helps or hinders the other,   *)
(* and it is enough that each moves while the other is in an initial       *)
(* state: the states to explore are those of both added up.                *)
(***************************************************************************)
EXTENDS Accounts, Paging, TLC

CONSTANTS alice, c1, c2, c3, c4

(* Calls and rows are the same four values: one group permutes both. *)
CallSymmetry == Permutations({c1, c2, c3, c4})

In(k, e) == [kind |-> k, email |-> e]

Requests ==
    {In(k, alice) : k \in {"register", "login", "refresh", "request", "suspend", "activate"}}

(* Pages of two rows from the first page on; from a page that does not exist, a *)
(* page size that is too large, and one of zero, both of which are taken as one. *)
PagesSent == {<<1, 2>>, <<0, 3>>, <<1, 0>>}

AccountsAtRest == clock = 0 /\ \A c \in Calls : pc[c] = "idle"

PagingAtRest == list = "users" /\ DOMAIN at = {} /\ walk.pc = "idle"

ListedInit == Init /\ PagingInit

ListedNext ==
    \/ PagingAtRest /\ Next /\ UNCHANGED paging
    \/ AccountsAtRest /\ PagingNext /\ UNCHANGED vars

ListedSpec == ListedInit /\ [][ListedNext]_<<vars, paging>>
===============================================================================
