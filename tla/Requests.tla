------------------------------ MODULE Requests ------------------------------
(***************************************************************************)
(* The parameters of the two request tables, PaymentRequest and            *)
(* TransferRequest, as the handlers and their abstract specification share *)
(* them.  A row is named by its idempotency key, which both tables declare *)
(* unique; the keys of the two tables are kept apart.                      *)
(***************************************************************************)
EXTENDS Ledger, FiniteSets

CONSTANTS
  Keys,       \* idempotency keys
  Calls,      \* what a client may ask for: a key with the request's columns
  Opening,    \* what each wallet was credited with before any request
  NoCall      \* stands for the columns of a row that does not exist

Kinds == {"topup", "withdraw", "p2p"}

\* peer is the recipient wallet of a p2p call; the other kinds ignore it.
\* The serializers and the CHECK constraint refuse an amount below 1.
ASSUME CallsAssumption ==
  /\ Calls \subseteq [key : Keys, kind : Kinds, wallet : Wallets,
                      peer : Wallets, amount : Nat \ {0}]
  /\ NoCall \notin Calls

\* Wallet ids and idempotency keys are UUIDs.
ASSUME UuidAssumption == IsFiniteSet(Wallets) /\ IsFiniteSet(Keys)

ASSUME OpeningAssumption == Opening \in [Wallets -> Nat]

\* Starting balances are credit rows (seed_demo, the tests' fixtures).
OpeningBook ==
  [w \in Wallets |->
     [t \in EntryTypes |-> IF t = "credit" THEN Opening[w] ELSE 0]]

\* Two keys of one table never share a kind with the other table.
ASSUME KeysAssumption ==
  \A c, d \in Calls : c.key = d.key => (c.kind = "p2p" <=> d.kind = "p2p")
=============================================================================
