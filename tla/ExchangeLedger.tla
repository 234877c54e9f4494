---------------------------- MODULE ExchangeLedger ----------------------------
(***************************************************************************)
(* The refinement: Exchange, with its calls, channel, engine and faults    *)
(* hidden, behaves like Ledger.                                            *)
(***************************************************************************)
EXTENDS Exchange

TermsOf(x) == [user |-> x.user, asset |-> x.asset, side |-> x.side,
               price |-> x.price, quantity |-> x.quantity]

(* What the abstract book shows of a row: one with nothing left is closed there, *)
(* whatever its status.                                                          *)
Shown(row) == [terms |-> TermsOf(row), filled |-> row.filled,
               state |-> IF isOpen(row.status) /\ remaining(row) > 0 THEN "open" ELSE "closed"]

Abstract == INSTANCE Ledger
    WITH Owners <- WalletOwners, Orders <- OrderIds,
         Terms <- {TermsOf(in) : in \in Inputs}, Sums <- Amounts, Unit <- Scale,
         MaxSum <- MaxNumeric, OpeningCash <- InitBalance, OpeningUnits <- InitPortfolios,
         cash <- balance, units <- portfolios, book <- [o \in Placed |-> Shown(orders[o])]

(* Every behaviour of the exchange is one of the ledger: whatever is stale in   *)
(* the engine's hands, cancelled, expired, withdrawn, retried, lost or crashed  *)
(* meanwhile, each commit that moves money is a whole trade between two orders  *)
(* open at that moment, at a price both accept, that its buyer can pay and its  *)
(* seller can deliver.                                                          *)
ImplementsLedger == Abstract!Spec
===============================================================================
