-------------------------------- MODULE Gate --------------------------------
(***************************************************************************)
(* What stands in front of a transfer, besides money: BlacklistMiddleware, *)
(* the single use of a dynamic QR code (apps/p2p/qr.py), and the blacklist *)
(* guards of initiate_transfer, while blocks are placed and lifted.        *)
(*                                                                         *)
(* A transfer answers an offer: a QR code of the payee, which everybody    *)
(* may scan, or a key that the payer has drawn.  A handler is what it has  *)
(* before it; every check is a statement of its own, but that the gate     *)
(* looks the user and the wallets up in one action.  Whether the body was  *)
(* JSON matters to the gate alone, which then sees the wallets in it.      *)
(***************************************************************************)
EXTENDS Blacklist, FiniteSets

CONSTANTS
  Web,       \* the gunicorn workers
  Payee,     \* the recipient
  Tokens     \* dynamic QR codes of the payee, by ref_id

\* The key a payer draws for a transfer without a code is named after him.
Payers == Parties \ {Payee}
Offers == Tokens \cup Payers

ASSUME GateAssumption == Payee \in Parties /\ Tokens \cap Parties = {}

VARIABLES
  token,    \* per QR code: "unissued", "live" or "expired"
  rows,     \* TransferRequest
  job,      \* per worker: the call it answers and how far it is
  shadow,   \* history: the blocks of either party that stood when the call
            \*   came in and have stood since
  stale     \* history: workers whose code had expired or was used by then

transfers == <<token, rows, job, shadow, stale>>
vars == <<blacklist, transfers>>

Idle == [at |-> "idle"]
InitiateSteps == {"gate", "decode", "lookup", "sender", "recipient", "insert"}
ConfirmSteps == {"confirm gate", "settle"}
Jobs == [at : InitiateSteps \cup ConfirmSteps, payer : Payers, offer : Offers]

\* The idempotency key of a request for a QR code drawn by the payer.
KeyOfPayer(j) == <<j.payer, j.offer>>

\* intent["ref_id"], or the key of the body.
KeyOf(j) == j.offer

GateTypeOK ==
  /\ BlacklistTypeOK
  /\ token \in [Tokens -> {"unissued", "live", "expired"}]
  /\ rows \subseteq [key : Offers, payer : Payers, offer : Offers,
                     status : {"open", "confirmed", "void"}]
  /\ \A r, q \in rows : r.key = q.key => r = q
  /\ job \in [Web -> {Idle} \cup Jobs]
  /\ shadow \in [Web -> SUBSET Active]
  /\ stale \subseteq Web

GateInit ==
  /\ BlacklistInit
  /\ token = [t \in Tokens |-> "unissued"]
  /\ rows = {}
  /\ job = [w \in Web |-> Idle]
  /\ shadow = [w \in Web |-> {}]
  /\ stale = {}

-----------------------------------------------------------------------------
User(p) == <<"user", p>>
Wallet(p) == <<"wallet", p>>
Of(p) == {User(p), Wallet(p)}

\* No unique constraint, and no look at the table.
NeverUsed(k) == FALSE

Used(k) == \E r \in rows : r.key = k

\* _wallet_ids_from_body: what is no JSON object names no wallets, though the
\* views take a form as well.
Named(json, wallets) == IF json THEN wallets ELSE {}

\* DynamicQRView, which passes the middleware; its body has the wallet_id.
Issue(t) ==
  /\ token[t] = "unissued"
  /\ \E json \in BOOLEAN : ~IsBlocked({User(Payee)} \cup Named(json, {Wallet(Payee)}))
  /\ token' = [token EXCEPT ![t] = "live"]
  /\ UNCHANGED <<blacklist, rows, job, shadow, stale>>

\* QR_DYNAMIC_TTL_SECONDS have passed.
Expire(t) ==
  /\ token[t] = "live"
  /\ token' = [token EXCEPT ![t] = "expired"]
  /\ UNCHANGED <<blacklist, rows, job, shadow, stale>>

Unusable(o) == o \in Tokens /\ (token[o] = "expired" \/ \E r \in rows : r.offer = o)

\* A POST of a payer comes in: TransferInitiateView or TransferConfirmView.
Call(w, p, o, step) ==
  /\ job[w] = Idle
  /\ job' = [job EXCEPT ![w] = [at |-> step, payer |-> p, offer |-> o]]
  /\ shadow' = [shadow EXCEPT ![w] =
                  {e \in Active : target[e] \in Of(p) \cup Of(Payee)}]
  /\ stale' = IF Unusable(o) THEN stale \cup {w} ELSE stale
  /\ UNCHANGED <<blacklist, token, rows>>

Initiate(w, p, o) ==
  /\ o = p \/ (o \in Tokens /\ token[o] # "unissued")
  /\ Call(w, p, o, "gate")

Confirm(w, r) ==
  /\ r.status = "open"
  /\ Call(w, r.payer, r.offer, "confirm gate")

Goto(w, step) ==
  /\ job' = [job EXCEPT ![w] = [at |-> step, payer |-> @.payer, offer |-> @.offer]]
  /\ UNCHANGED <<blacklist, token, rows, shadow, stale>>

\* The worker is done with the call.
Close(w) ==
  /\ job' = [job EXCEPT ![w] = Idle]
  /\ shadow' = [shadow EXCEPT ![w] = {}]
  /\ stale' = stale \ {w}

\* _is_blocked of the middleware: the user of the token, and the wallets the
\* body names.  A code is not a wallet, and a confirmation names none.
InBody(j) ==
  IF j.at = "confirm gate" THEN {}
  ELSE {Wallet(j.payer)} \cup IF j.offer \in Tokens THEN {} ELSE {Wallet(Payee)}

\* The gate looks at wallets only.
WalletsOnly(j, json) == Named(json, InBody(j))

Gated(j, json) == {User(j.payer)} \cup Named(json, InBody(j))

PassGate(w) ==
  /\ job[w].at \in {"gate", "confirm gate"}
  /\ \E json \in BOOLEAN : ~IsBlocked(Gated(job[w], json))
  /\ Goto(w, IF job[w].at = "confirm gate" THEN "settle"
             ELSE IF job[w].offer \in Tokens THEN "decode" ELSE "lookup")

\* Neither the expiry nor the use is looked at.
Decodes(j) == TRUE

\* decode_dynamic_qr: signed, not expired, not used.
Valid(j) == token[j.offer] = "live" /\ ~Used(KeyOf(j))

Decode(w) ==
  /\ job[w].at = "decode"
  /\ Valid(job[w])
  /\ Goto(w, "lookup")

\* "existing is not None" is answered with the existing request.
Lookup(w) ==
  /\ job[w].at = "lookup"
  /\ ~Used(KeyOf(job[w]))
  /\ Goto(w, "sender")

\* The sender without his wallet.
GuardUser(w) ==
  /\ job[w].at = "sender"
  /\ ~IsBlocked({User(job[w].payer)})
  /\ Goto(w, "recipient")

\* run_guards of the sender, then the recipient.
GuardSender(w) ==
  /\ job[w].at = "sender"
  /\ ~IsBlocked(Of(job[w].payer))
  /\ Goto(w, "recipient")

\* The wallet of the recipient without its user.
GuardWallet(w) ==
  /\ job[w].at = "recipient"
  /\ ~IsBlocked({Wallet(Payee)})
  /\ Goto(w, "insert")

GuardRecipient(w) ==
  /\ job[w].at = "recipient"
  /\ ~IsBlocked(Of(Payee))
  /\ Goto(w, "insert")

\* The insert; an IntegrityError leaves the existing row alone.
Insert(w) ==
  /\ job[w].at = "insert"
  /\ rows' = IF Used(KeyOf(job[w])) THEN rows
             ELSE rows \cup {[key |-> KeyOf(job[w]), payer |-> job[w].payer,
                              offer |-> job[w].offer, status |-> "open"]}
  /\ Close(w)
  /\ UNCHANGED <<blacklist, token>>

\* confirm_transfer under its row lock: confirmed, or closed for another
\* reason.
Settle(w) ==
  /\ job[w].at = "settle"
  /\ \E r \in rows, end \in {"confirmed", "void"} :
       /\ r.payer = job[w].payer /\ r.offer = job[w].offer /\ r.status = "open"
       /\ rows' = (rows \ {r}) \cup {[r EXCEPT !.status = end]}
  /\ Close(w)
  /\ UNCHANGED <<blacklist, token>>

\* 400, 403, 404, 409 or an existing request; or the worker dies.
Refuse(w) ==
  /\ job[w] # Idle
  /\ Close(w)
  /\ UNCHANGED <<blacklist, token, rows>>

\* The sweep.
Void(r) ==
  /\ r.status = "open"
  /\ rows' = (rows \ {r}) \cup {[r EXCEPT !.status = "void"]}
  /\ UNCHANGED <<blacklist, token, job, shadow, stale>>

\* An admin meanwhile.
Administer ==
  /\ BlacklistNext
  /\ shadow' = [w \in Web |-> shadow[w] \cap Active']
  /\ UNCHANGED <<token, rows, job, stale>>

GateNext ==
  \/ Administer
  \/ \E t \in Tokens : Issue(t) \/ Expire(t)
  \/ \E w \in Web :
       \/ \E p \in Payers, o \in Offers : Initiate(w, p, o)
       \/ \E r \in rows : Confirm(w, r)
       \/ PassGate(w) \/ Decode(w) \/ Lookup(w) \/ GuardSender(w) \/ GuardRecipient(w)
       \/ Insert(w) \/ Settle(w) \/ Refuse(w)
  \/ \E r \in rows : Void(r)

GateSpec == GateInit /\ [][GateNext]_vars

-----------------------------------------------------------------------------
\* "P2P is blocked if EITHER party is blacklisted": while a block of one of
\* them stands from before the call, nothing is opened, by code or by key.
\* The gate alone would not do: it may not get to see a wallet.
BlockedOpensNothing ==
  \A w \in Web : job[w].at = "insert" => shadow[w] = {}

\* A user who was blocked when he called confirms nothing while it stands.
BlockedUserSettlesNothing ==
  \A w \in Web : job[w].at = "settle" =>
    \A e \in shadow[w] : target[e] # User(job[w].payer)

\* "The unique constraint burns the QR on first use": whoever scans it, and
\* however many at once, a code opens one request.
CodeOpensOnce ==
  \A t \in Tokens : Cardinality({r \in rows : r.offer = t}) <= 1

\* A call that comes with an expired or used code opens nothing.
StaleCodeOpensNothing == \A w \in stale : job[w].at \notin {"lookup", "insert"}

\* What makes them inductive.  A block in the shadow of a call is one of its
\* parties', and no longer the payer's once a guard has asked; a code that was
\* unusable stays so, because a row keeps the code's key; and an admin who
\* had a row alone knows who has lifted it.
GateInv ==
  /\ GateTypeOK
  /\ BlockedOpensNothing
  /\ BlockedUserSettlesNothing
  /\ \A w \in Web : \A e \in shadow[w] :
       /\ job[w] # Idle
       /\ target[e] \in Of(job[w].payer) \cup Of(Payee)
       /\ job[w].at = "recipient" => target[e] \notin Of(job[w].payer)
  /\ \A r \in rows : r.key = r.offer
  /\ \A w \in stale :
       /\ job[w].at \in {"gate", "decode", "confirm gate", "settle"}
       /\ job[w].at \in {"gate", "decode"} => Unusable(job[w].offer)
  /\ \A a \in Admins : task[a] # NoTask =>
       /\ task[a].entry \in 1..blocks
       /\ task[a].entry \notin raced => liftedBy[task[a].entry] = task[a].by
  /\ \A a, b \in Admins :
       a # b /\ task[a] # NoTask /\ task[a].entry = task[b].entry
         => task[a].entry \in raced
=============================================================================
