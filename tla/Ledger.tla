------------------------------- MODULE Ledger -------------------------------
(***************************************************************************)
(* The ledger of apps/core: a wallet has no balance column, every number a *)
(* caller sees is derived from the four filtered sums of its ledger rows.  *)
(*                                                                         *)
(* A book keeps exactly those four sums per wallet.  Writing a row is      *)
(* PostEntries; no operator takes an amount out of a book, which is how the  *)
(* append-only rule of LedgerQuerySet and LedgerEntry.save shows here.     *)
(***************************************************************************)
EXTENDS Integers

CONSTANT
  \* Wallet primary keys.  UUIDs are 128-bit numbers and the database orders
  \* them as such, so a wallet is identified with its number.
  Wallets

ASSUME WalletsAssumption == Wallets \subseteq Nat

EntryTypes == {"credit", "debit", "hold", "reversal"}

Books == [Wallets -> [EntryTypes -> Nat]]

\* Debits stored as negative amounts, which ledger_amount_positive refuses.
SignedEntries(book, entries, amount) ==
  [w \in Wallets |->
     [t \in EntryTypes |->
        CASE <<w, t>> \notin entries -> book[w][t]
          [] t = "debit"            -> book[w][t] - amount
          [] OTHER                  -> book[w][t] + amount]]

(***************************************************************************)
(* The rows one transaction writes are a set of <<wallet, type>> pairs of  *)
(* one amount: no handler writes two rows of a type to a wallet at once.   *)
(***************************************************************************)
PostEntries(book, entries, amount) ==
  [w \in Wallets |->
     [t \in EntryTypes |->
        IF <<w, t>> \in entries THEN book[w][t] + amount ELSE book[w][t]]]

(***************************************************************************)
(* get_wallet_balance: the three derived figures.                          *)
(***************************************************************************)
Balance(book, w) == book[w]["credit"] - book[w]["debit"]

Held(book, w) == book[w]["hold"] - book[w]["reversal"]

\* An available balance that forgets the holds.
BalanceOnly(book, w) == Balance(book, w)

Available(book, w) == Balance(book, w) - Held(book, w)
=============================================================================
