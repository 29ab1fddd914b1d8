------------------------------- MODULE Guards -------------------------------
(***************************************************************************)
(* The KYC guard, check_kyc in apps/core/services/guards.py, between the   *)
(* reviews of Kyc and the money requests of Settlement: who may spend, and *)
(* how much within a window of 30 days.                                    *)
(*                                                                         *)
(* The guard runs when a request is initiated and reads three things one   *)
(* after the other: the user row at authentication, the latest application *)
(* and the debits of the window.  A request writes its debit only when it  *)
(* is confirmed, and nothing is asked again then.  The lock of one wallet, *)
(* which initiate_payment holds meanwhile, covers none of the three.       *)
(***************************************************************************)
EXTENDS Kyc, Sequences, FiniteSetsExt

CONSTANTS
  Requests,  \* calls of initiate_payment and initiate_transfer by the user
  Amounts,   \* what they may spend; 0 is a top-up (spends_funds=False)
  Limit      \* KYC_SPEND_LIMITS

ASSUME GuardsAssumption ==
  /\ Amounts \subseteq Nat
  /\ Limit \in [Levels -> Nat]

VARIABLES
  stage,       \* per request: how far its handlers have come
  seenLevel,   \* request.user.kyc_level when it was authenticated
  amount,      \* what it is to spend
  window,      \* the debits of the last 30 days, oldest first
  best,        \* history: the highest limit the user has had
  overlapped,  \* history: those under way that met another one
  barred       \* history: begun under a rejection that still stands

spending == <<stage, seenLevel, amount, window, best, overlapped, barred>>
vars == <<kyc, spending>>

UnderWay == {"asking", "vetted", "open"}

GuardsTypeOK ==
  /\ TypeOK
  /\ stage \in [Requests -> {"new", "settled", "refused"} \cup UnderWay]
  /\ seenLevel \in [Requests -> Levels]
  /\ amount \in [Requests -> Nat]
  /\ window \in Seq(Nat)
  /\ best \in Nat
  /\ overlapped \subseteq Requests
  /\ barred \subseteq Requests

GuardsInit ==
  /\ Init
  /\ stage = [r \in Requests |-> "new"]
  /\ seenLevel = [r \in Requests |-> "unverified"]
  /\ amount = [r \in Requests |-> 0]
  /\ window = <<>>
  /\ best = Limit["unverified"]
  /\ overlapped = {}
  /\ barred = {}

-----------------------------------------------------------------------------
LatestRejected ==
  Submitted # {} /\ status[Cardinality(Submitted)] = "rejected"

Spent == MapThenSumSet(LAMBDA i : window[i], DOMAIN window)

\* A limit that looks at what was spent and not at what is about to be.
NotYetSpent(r) == Spent <= Limit[seenLevel[r]]

\* A top-up spends nothing and is not limited.
Fits(r) == amount[r] = 0 \/ Spent + amount[r] <= Limit[seenLevel[r]]

Goto(r, next) == stage' = [stage EXCEPT ![r] = next]

\* The request is closed and forgotten.
Close(r, next) ==
  /\ Goto(r, next)
  /\ seenLevel' = [seenLevel EXCEPT ![r] = "unverified"]
  /\ overlapped' = overlapped \ {r}
  /\ amount' = [amount EXCEPT ![r] = 0]
  /\ barred' = barred \ {r}

\* The token is resolved to a user, whose row the handler keeps.
Authenticate(r, a) ==
  LET others == {q \in Requests : stage[q] \in UnderWay} IN
  /\ stage[r] = "new"
  /\ Goto(r, "asking")
  /\ seenLevel' = [seenLevel EXCEPT ![r] = level]
  /\ amount' = [amount EXCEPT ![r] = a]
  /\ overlapped' = IF others = {} THEN overlapped
                                  ELSE overlapped \cup others \cup {r}
  /\ barred' = IF LatestRejected THEN barred \cup {r} ELSE barred
  /\ UNCHANGED <<kyc, window, best>>

\* order_by("created_at") without the minus.
CheckEarliest(r) ==
  /\ stage[r] = "asking"
  /\ ~(Submitted # {} /\ status[1] = "rejected")
  /\ Goto(r, "vetted")
  /\ UNCHANGED <<kyc, seenLevel, amount, window, best, overlapped, barred>>

\* user.kyc_applications.order_by("-created_at").first()
CheckLatest(r) ==
  /\ stage[r] = "asking"
  /\ ~LatestRejected
  /\ Goto(r, "vetted")
  /\ UNCHANGED <<kyc, seenLevel, amount, window, best, overlapped, barred>>

\* The sum, the comparison, and the insert of the request; what comes between
\* them concerns the balance alone.
CheckLimit(r) ==
  /\ stage[r] = "vetted"
  /\ Fits(r)
  /\ Goto(r, "open")
  /\ UNCHANGED <<kyc, seenLevel, amount, window, best, overlapped, barred>>

\* A guard raises, or the request is cancelled, expires or fails on confirm.
Refuse(r) ==
  /\ stage[r] \in UnderWay
  /\ Close(r, "refused")
  /\ UNCHANGED <<kyc, window, best>>

\* confirm_payment, confirm_transfer: the debit, unless it was a top-up.
Settle(r) ==
  /\ stage[r] = "open"
  /\ Close(r, "settled")
  /\ window' = IF amount[r] = 0 THEN window ELSE Append(window, amount[r])
  /\ UNCHANGED <<kyc, best>>

\* The oldest debit leaves the window.
Age ==
  /\ window # <<>>
  /\ window' = Tail(window)
  /\ UNCHANGED <<kyc, stage, seenLevel, amount, best, overlapped, barred>>

\* A submission or a review meanwhile.
Review ==
  /\ Next
  /\ best' = IF Limit[level'] > best THEN Limit[level'] ELSE best
  /\ barred' = IF LatestRejected' THEN barred ELSE {}
  /\ UNCHANGED <<stage, seenLevel, amount, window, overlapped>>

GuardsNext ==
  \/ \E r \in Requests :
       \/ \E a \in Amounts : Authenticate(r, a)
       \/ CheckLatest(r) \/ CheckLimit(r)
       \/ Refuse(r) \/ Settle(r)
  \/ Age
  \/ Review

GuardsSpec == GuardsInit /\ [][GuardsNext]_vars

-----------------------------------------------------------------------------
Settles(r) == stage[r] = "open" /\ stage'[r] = "settled"

\* "Max spend (tiyin) per rolling 30-day window for the user's KYC level."
\* Requests that are still open do not count, so several of them may each
\* fit and together exceed even the highest limit the user has had.
WithinLimit == Spent <= best

\* What does hold: the debit of a request that overlapped no other leaves
\* the window within the limit of the level its user had when he was
\* authenticated, whatever became of his level and of the window since.
AloneWithinLimit ==
  [][\A r \in Requests :
       Settles(r) /\ amount[r] > 0 /\ r \notin overlapped
         => Spent' <= Limit[seenLevel[r]]]_vars

\* "Rejected users blocked": a request begun under a rejection comes to
\* nothing for as long as the rejected application is the latest.  (One that
\* was open before goes through: a confirmation does not run the guards.)
BarredOpensNothing ==
  \A r \in barred : stage[r] \notin {"vetted", "open"}
=============================================================================
