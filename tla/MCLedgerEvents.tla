--------------------------- MODULE MCLedgerEvents ---------------------------
(***************************************************************************)
(* Values for the constants of LedgerEvents: a transfer, and a withdrawal  *)
(* opened on the same unit of money.                                       *)
(***************************************************************************)
EXTENDS LedgerEvents, TLC

CONSTANTS transfer, withdrawal

TheRows == (transfer :> {<<1, "debit">>, <<2, "credit">>}
            @@ withdrawal :> {<<1, "hold">>})

OneUnit == (1 :> 1 @@ 2 :> 0)
=============================================================================
