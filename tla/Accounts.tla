------------------------------ MODULE Accounts ------------------------------
(***************************************************************************)
(* What the money handlers of Hamyon promise, whatever their interleaving, *)
(* their locks and their crashes: a request is opened once, closed once,   *)
(* and each of the two happens in a single step together with the ledger   *)
(* rows that belong to it.  Settlement.tla is the detailed system.         *)
(***************************************************************************)
EXTENDS Requests

VARIABLES
  book,    \* the ledger
  call,    \* the parameters each request was opened with
  phase    \* "new", "open", "settled" or "void", per request

accountVars == <<book, call, phase>>

TypeInvariant ==
  /\ book \in Books
  /\ call \in [Keys -> Calls \cup {NoCall}]
  /\ phase \in [Keys -> {"new", "open", "settled", "void"}]

Init ==
  /\ book = OpeningBook
  /\ call = [k \in Keys |-> NoCall]
  /\ phase = [k \in Keys |-> "new"]

(***************************************************************************)
(* Opening a withdrawal reserves its amount out of what is available; the  *)
(* other two kinds leave the ledger alone.                                 *)
(***************************************************************************)
Open(c) ==
  /\ phase[c.key] = "new"
  /\ phase' = [phase EXCEPT ![c.key] = "open"]
  /\ call' = [call EXCEPT ![c.key] = c]
  /\ IF c.kind = "withdraw"
       THEN /\ c.amount <= Available(book, c.wallet)
            /\ book' = PostEntries(book, {<<c.wallet, "hold">>}, c.amount)
       ELSE book' = book

(***************************************************************************)
(* Settling moves the money: in, out of the reservation, or across.        *)
(***************************************************************************)
SettlementRows(c) ==
  CASE c.kind = "topup"    -> {<<c.wallet, "credit">>}
    [] c.kind = "withdraw" -> {<<c.wallet, "debit">>, <<c.wallet, "reversal">>}
    [] c.kind = "p2p"      -> {<<c.wallet, "debit">>, <<c.peer, "credit">>}

Settle(k) ==
  LET c == call[k] IN
  /\ phase[k] = "open"
  /\ c.kind = "p2p" => /\ c.wallet # c.peer
                       /\ c.amount <= Available(book, c.wallet)
  /\ phase' = [phase EXCEPT ![k] = "settled"]
  /\ book' = PostEntries(book, SettlementRows(c), c.amount)
  /\ call' = call

(***************************************************************************)
(* Cancelling or expiring a request gives back what it had reserved.       *)
(***************************************************************************)
Void(k) ==
  LET c == call[k] IN
  /\ phase[k] = "open"
  /\ phase' = [phase EXCEPT ![k] = "void"]
  /\ book' = IF c.kind = "withdraw"
               THEN PostEntries(book, {<<c.wallet, "reversal">>}, c.amount)
               ELSE book
  /\ call' = call

Next ==
  \/ \E c \in Calls : Open(c)
  \/ \E k \in Keys : Settle(k) \/ Void(k)

Spec == Init /\ [][Next]_accountVars
=============================================================================
