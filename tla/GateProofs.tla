----------------------------- MODULE GateProofs -----------------------------
(***************************************************************************)
(* Proofs about Gate, for any parties, admins, workers and codes: GateInv  *)
(* is inductive, and the properties of a transfer's gate follow from it.   *)
(*                                                                         *)
(* The invariant falls into what concerns the admins and what concerns the *)
(* calls, and the steps into those of an admin, during which the shadow of *)
(* a call can only shrink, and those of a call, which leave the blacklist  *)
(* as it is.                                                               *)
(***************************************************************************)
EXTENDS Gate, FiniteSetTheorems, TLAPS

USE DEF Entries, Targets, NoTarget, NoTask

Audit ==
  /\ \A a \in Admins : task[a] # NoTask =>
       /\ task[a].entry \in 1..blocks
       /\ task[a].entry \notin raced => liftedBy[task[a].entry] = task[a].by
  /\ \A a, b \in Admins :
       a # b /\ task[a] # NoTask /\ task[a].entry = task[b].entry
         => task[a].entry \in raced

Shadowed ==
  /\ shadow \in [Web -> SUBSET Active]
  /\ BlockedOpensNothing
  /\ BlockedUserSettlesNothing
  /\ \A w \in Web : \A e \in shadow[w] :
       /\ job[w] # Idle
       /\ target[e] \in Of(job[w].payer) \cup Of(Payee)
       /\ job[w].at = "recipient" => target[e] \notin Of(job[w].payer)

Burnt ==
  /\ rows \subseteq [key : Offers, payer : Payers, offer : Offers,
                     status : {"open", "confirmed", "void"}]
  /\ \A r, q \in rows : r.key = q.key => r = q
  /\ \A r \in rows : r.key = r.offer

Outdated ==
  /\ stale \subseteq Web
  /\ \A w \in stale :
       /\ job[w].at \in {"gate", "decode", "confirm gate", "settle"}
       /\ job[w].at \in {"gate", "decode"} => Unusable(job[w].offer)

LEMMA Parts ==
  GateInv <=> /\ BlacklistTypeOK /\ Audit
              /\ token \in [Tokens -> {"unissued", "live", "expired"}]
              /\ job \in [Web -> {Idle} \cup Jobs]
              /\ Shadowed /\ Burnt /\ Outdated
  BY DEF GateInv, GateTypeOK, Audit, Shadowed, Burnt, Outdated

LEMMA InitGateInv == GateInit => GateInv
<1> SUFFICES ASSUME GateInit PROVE GateInv
  OBVIOUS
<1>1. BlacklistTypeOK /\ Audit
  BY BlacklistAssumption DEF GateInit, BlacklistInit, BlacklistTypeOK, Audit
<1>2. Shadowed /\ Burnt /\ Outdated
  BY DEF GateInit, Shadowed, Burnt, Outdated, BlockedOpensNothing,
         BlockedUserSettlesNothing, Idle
<1>3. /\ token \in [Tokens -> {"unissued", "live", "expired"}]
      /\ job \in [Web -> {Idle} \cup Jobs]
  BY DEF GateInit
<1> QED
  BY <1>1, <1>2, <1>3, Parts

-----------------------------------------------------------------------------
(***************************************************************************)
(* The admins.                                                             *)
(***************************************************************************)
LEMMA AdminStep ==
  ASSUME BlacklistTypeOK, Audit, BlacklistNext
  PROVE  BlacklistTypeOK' /\ Audit'
<1> USE BlacklistAssumption DEF BlacklistTypeOK, Audit
<1>1. ASSUME NEW t \in Targets, Block(t)
      PROVE  BlacklistTypeOK' /\ Audit'
  BY <1>1 DEF Block
<1>2. ASSUME NEW a \in Admins, NEW e \in Entries, Load(a, e)
      PROVE  BlacklistTypeOK' /\ Audit'
  BY <1>2 DEF Load
<1>3. ASSUME NEW a \in Admins, Unblock(a)
      PROVE  BlacklistTypeOK' /\ Audit'
  BY <1>3 DEF Unblock, MayLift
<1>4. ASSUME NEW a \in Admins, SaveForm(a)
      PROVE  BlacklistTypeOK' /\ Audit'
  BY <1>4 DEF SaveForm
<1>5. ASSUME NEW a \in Admins, GiveUp(a)
      PROVE  BlacklistTypeOK' /\ Audit'
  BY <1>5 DEF GiveUp
<1> QED
  BY <1>1, <1>2, <1>3, <1>4, <1>5 DEF BlacklistNext

\* An admin who had the row alone writes what stands there already, or over
\* Nobody.
LEMMA AdminKeeps ==
  ASSUME BlacklistTypeOK, Audit, BlacklistNext
  PROVE  \A e \in Entries : liftedBy[e] \notin {Nobody, liftedBy'[e]} => e \in raced
<1> USE DEF BlacklistTypeOK, Audit
<1>1. ASSUME NEW a \in Admins, Unblock(a)
      PROVE  \A e \in Entries : liftedBy[e] \notin {Nobody, liftedBy'[e]} => e \in raced
  BY <1>1 DEF Unblock, MayLift
<1>2. ASSUME NEW a \in Admins, SaveForm(a)
      PROVE  \A e \in Entries : liftedBy[e] \notin {Nobody, liftedBy'[e]} => e \in raced
  BY <1>2 DEF SaveForm
<1>3. ASSUME UNCHANGED liftedBy
      PROVE  \A e \in Entries : liftedBy[e] \notin {Nobody, liftedBy'[e]} => e \in raced
  BY <1>3
<1> QED
  BY <1>1, <1>2, <1>3 DEF BlacklistNext, Block, Load, GiveUp

\* A row that stood keeps its target.
LEMMA TargetsStay ==
  ASSUME BlacklistTypeOK, BlacklistNext
  PROVE  \A e \in 1..blocks : target'[e] = target[e]
<1>1. ASSUME NEW t \in Targets, Block(t)
      PROVE  \A e \in 1..blocks : target'[e] = target[e]
  BY <1>1, BlacklistAssumption DEF Block, BlacklistTypeOK
<1>2. (\E t \in Targets : Block(t)) \/ UNCHANGED target
  BY DEF BlacklistNext, Load, Unblock, SaveForm, GiveUp
<1> QED
  BY <1>1, <1>2

LEMMA AdministerStep ==
  ASSUME GateInv, Administer
  PROVE  GateInv'
<1>1. /\ BlacklistTypeOK /\ Audit /\ Shadowed /\ Burnt /\ Outdated
      /\ job \in [Web -> {Idle} \cup Jobs]
  BY Parts
<1>2. /\ BlacklistNext
      /\ shadow' = [w \in Web |-> shadow[w] \cap Active']
      /\ UNCHANGED <<token, rows, job, stale>>
  BY DEF Administer
<1>3. \A e \in Active : target'[e] = target[e]
  BY <1>1, <1>2, TargetsStay DEF Active
<1>4. \A w \in Web : shadow'[w] \subseteq shadow[w] /\ shadow'[w] \subseteq Active'
  BY <1>2
<1>5. Shadowed'
  <2>1. \A w \in Web : \A e \in shadow'[w] : e \in shadow[w] /\ target'[e] = target[e]
    BY <1>1, <1>3, <1>4 DEF Shadowed
  <2>2. shadow' \in [Web -> SUBSET Active']
    BY <1>2, <1>4
  <2>3. BlockedOpensNothing'
    BY <1>1, <1>2, <1>4 DEF Shadowed, BlockedOpensNothing
  <2>4. BlockedUserSettlesNothing'
    BY <1>1, <1>2, <2>1 DEF Shadowed, BlockedUserSettlesNothing
  <2> QED
    BY <1>1, <1>2, <2>1, <2>2, <2>3, <2>4 DEF Shadowed
<1>6. Burnt' /\ Outdated'
  BY <1>1, <1>2 DEF Burnt, Outdated, Unusable
<1>7. BlacklistTypeOK' /\ Audit'
  BY <1>1, <1>2, AdminStep
<1>8. /\ (token \in [Tokens -> {"unissued", "live", "expired"}])'
      /\ (job \in [Web -> {Idle} \cup Jobs])'
  BY <1>2, Parts
<1> QED
  BY <1>5, <1>6, <1>7, <1>8 DEF GateInv, GateTypeOK, Audit, Shadowed, Burnt, Outdated

-----------------------------------------------------------------------------
(***************************************************************************)
(* The calls.                                                              *)
(***************************************************************************)
LEMMA QuietAdmin ==
  ASSUME BlacklistTypeOK, Audit, UNCHANGED blacklist
  PROVE  BlacklistTypeOK' /\ Audit' /\ Active' = Active /\ UNCHANGED target
  BY DEF BlacklistTypeOK, Audit, blacklist, Active

LEMMA JobTypes ==
  ASSUME NEW w \in Web, job \in [Web -> {Idle} \cup Jobs], job[w] # Idle
  PROVE  job[w].payer \in Payers /\ job[w].offer \in Offers
  BY DEF Jobs

LEMMA AtWork ==
  ASSUME NEW w \in Web, job[w].at \in InitiateSteps \cup ConfirmSteps
  PROVE  job[w] # Idle
<1>1. Idle.at \notin InitiateSteps \cup ConfirmSteps
  BY DEF Idle, InitiateSteps, ConfirmSteps
<1> QED
  BY <1>1

LEMMA Steps ==
  ASSUME NEW step \in InitiateSteps \cup ConfirmSteps,
         NEW p \in Payers, NEW o \in Offers
  PROVE  /\ [at |-> step, payer |-> p, offer |-> o] \in Jobs
         /\ [at |-> step, payer |-> p, offer |-> o] # Idle
<1>1. [at |-> step, payer |-> p, offer |-> o] \in Jobs
  BY DEF Jobs
<1>2. [at |-> step, payer |-> p, offer |-> o].at # Idle.at
  BY DEF Idle, InitiateSteps, ConfirmSteps
<1> QED
  BY <1>1, <1>2

\* The worker comes to another statement.
LEMMA GotoStep ==
  ASSUME NEW w \in Web, NEW step \in InitiateSteps \cup ConfirmSteps,
         GateInv, job[w] # Idle, Goto(w, step),
         step = "recipient" => \A e \in shadow[w] : target[e] \notin Of(job[w].payer),
         step = "insert" => shadow[w] = {},
         step = "settle" => \A e \in shadow[w] : target[e] # User(job[w].payer),
         w \in stale => step \in {"decode", "settle"}
                        /\ (step = "decode" => Unusable(job[w].offer))
  PROVE  GateInv'
<1>1. /\ BlacklistTypeOK /\ Audit /\ Shadowed /\ Burnt /\ Outdated
      /\ token \in [Tokens -> {"unissued", "live", "expired"}]
      /\ job \in [Web -> {Idle} \cup Jobs]
  BY Parts
<1> DEFINE j == [at |-> step, payer |-> job[w].payer, offer |-> job[w].offer]
<1>2. /\ job' = [job EXCEPT ![w] = j]
      /\ UNCHANGED <<blacklist, token, rows, shadow, stale>>
  BY DEF Goto
<1>3. /\ job' \in [Web -> {Idle} \cup Jobs]
      /\ job'[w] = j /\ j # Idle
      /\ \A v \in Web \ {w} : job'[v] = job[v]
  BY <1>1, <1>2, JobTypes, Steps
<1>4. BlacklistTypeOK' /\ Audit' /\ Active' = Active /\ UNCHANGED target
  BY <1>1, <1>2, QuietAdmin
<1>5. Shadowed'
  BY <1>1, <1>2, <1>3, <1>4 DEF Shadowed, BlockedOpensNothing, BlockedUserSettlesNothing
<1>6. Burnt'
  BY <1>1, <1>2 DEF Burnt
<1>7. Outdated'
  BY <1>1, <1>2, <1>3 DEF Outdated, Unusable
<1> QED
  BY <1>1, <1>2, <1>3, <1>4, <1>5, <1>6, <1>7
     DEF GateInv, GateTypeOK, Audit, Shadowed, Burnt, Outdated

LEMMA PassGateStep ==
  ASSUME NEW w \in Web, GateInv, PassGate(w)
  PROVE  GateInv'
<1>1. /\ BlacklistTypeOK /\ Shadowed /\ Outdated
      /\ job \in [Web -> {Idle} \cup Jobs]
  BY Parts
<1>2. job[w].at \in {"gate", "confirm gate"} /\ \E json \in BOOLEAN : ~IsBlocked(Gated(job[w], json))
  BY DEF PassGate
<1>3. job[w] # Idle
  BY <1>2, AtWork DEF InitiateSteps, ConfirmSteps
<1>4. \A e \in shadow[w] : target[e] # User(job[w].payer)
  BY <1>1, <1>2 DEF Shadowed, IsBlocked, Gated
<1>5. CASE job[w].at = "confirm gate"
  <2>1. Goto(w, "settle")
    BY <1>5 DEF PassGate
  <2> QED
    BY <1>3, <1>4, <2>1, GotoStep DEF ConfirmSteps
<1>6. CASE job[w].at = "gate" /\ job[w].offer \in Tokens
  <2>1. Goto(w, "decode")
    BY <1>6 DEF PassGate
  <2>2. w \in stale => Unusable(job[w].offer)
    BY <1>1, <1>6 DEF Outdated
  <2> QED
    BY <1>3, <2>1, <2>2, GotoStep DEF InitiateSteps
<1>7. CASE job[w].at = "gate" /\ job[w].offer \notin Tokens
  <2>1. Goto(w, "lookup")
    BY <1>7 DEF PassGate
  <2>2. w \notin stale
    BY <1>1, <1>7 DEF Outdated, Unusable
  <2> QED
    BY <1>3, <2>1, <2>2, GotoStep DEF InitiateSteps
<1> QED
  BY <1>2, <1>5, <1>6, <1>7

\* A valid code is neither expired nor burnt, so its call was not stale.
LEMMA DecodeStep ==
  ASSUME NEW w \in Web, GateInv, Decode(w)
  PROVE  GateInv'
<1>1. /\ job[w].at = "decode" /\ Valid(job[w]) /\ Goto(w, "lookup")
      /\ job[w] # Idle
  BY DEF Decode, Idle
<1>2. Outdated /\ Burnt
  BY Parts
<1>3. ~Unusable(job[w].offer)
  BY <1>1, <1>2 DEF Valid, Used, KeyOf, Burnt, Unusable
<1>4. w \notin stale
  BY <1>1, <1>2, <1>3 DEF Outdated
<1> QED
  BY <1>1, <1>4, GotoStep DEF InitiateSteps

LEMMA GuardStep ==
  ASSUME NEW w \in Web, GateInv, Lookup(w) \/ GuardSender(w) \/ GuardRecipient(w)
  PROVE  GateInv'
<1>1. Shadowed /\ Outdated
  BY Parts
<1>2. job[w].at \in {"lookup", "sender", "recipient"}
  BY DEF Lookup, GuardSender, GuardRecipient
<1>3. job[w] # Idle
  BY <1>2, AtWork DEF InitiateSteps
<1>4. w \notin stale
  BY <1>1, <1>2 DEF Outdated
<1>5. CASE Lookup(w)
  BY <1>3, <1>4, <1>5, GotoStep DEF Lookup, InitiateSteps
<1>6. CASE GuardSender(w)
  <2>1. \A e \in shadow[w] : target[e] \notin Of(job[w].payer)
    BY <1>1, <1>6 DEF GuardSender, IsBlocked, Shadowed
  <2> QED
    BY <1>3, <1>4, <1>6, <2>1, GotoStep DEF GuardSender, InitiateSteps
<1>7. CASE GuardRecipient(w)
  <2>1. \A e \in shadow[w] : target[e] \notin Of(Payee)
    BY <1>1, <1>7 DEF GuardRecipient, IsBlocked, Shadowed
  <2>2. shadow[w] = {}
    BY <1>1, <1>7, <2>1 DEF GuardRecipient, Shadowed
  <2> QED
    BY <1>3, <1>4, <1>7, <2>2, GotoStep DEF GuardRecipient, InitiateSteps
<1> QED
  BY <1>5, <1>6, <1>7

-----------------------------------------------------------------------------
(***************************************************************************)
(* Calls that come in, and those that end.                                 *)
(***************************************************************************)
LEMMA CallStep ==
  ASSUME NEW w \in Web, NEW p \in Payers, NEW o \in Offers,
         NEW step \in {"gate", "confirm gate"},
         GateInv, Call(w, p, o, step)
  PROVE  GateInv'
<1> DEFINE j == [at |-> step, payer |-> p, offer |-> o]
<1>1. /\ BlacklistTypeOK /\ Audit /\ Shadowed /\ Burnt /\ Outdated
      /\ token \in [Tokens -> {"unissued", "live", "expired"}]
      /\ job \in [Web -> {Idle} \cup Jobs]
  BY Parts
<1>2. /\ job[w] = Idle
      /\ job' = [job EXCEPT ![w] = j]
      /\ shadow' = [shadow EXCEPT ![w] =
                      {e \in Active : target[e] \in Of(p) \cup Of(Payee)}]
      /\ stale' = IF Unusable(o) THEN stale \cup {w} ELSE stale
      /\ UNCHANGED <<blacklist, token, rows>>
  BY DEF Call
<1>3. /\ job' \in [Web -> {Idle} \cup Jobs]
      /\ job'[w] = j /\ j # Idle
      /\ \A v \in Web \ {w} : job'[v] = job[v]
  BY <1>1, <1>2, Steps DEF InitiateSteps, ConfirmSteps
<1>4. job'[w].at = step /\ job'[w].payer = p /\ job'[w].offer = o
  <2>1. j.at = step /\ j.payer = p /\ j.offer = o
    OBVIOUS
  <2> HIDE DEF j
  <2> QED
    BY <1>3, <2>1
<1>5. BlacklistTypeOK' /\ Audit' /\ Active' = Active /\ UNCHANGED target
  BY <1>1, <1>2, QuietAdmin
<1>6. /\ shadow' \in [Web -> SUBSET Active]
      /\ shadow'[w] = {e \in Active : target[e] \in Of(p) \cup Of(Payee)}
      /\ \A v \in Web \ {w} : shadow'[v] = shadow[v]
  BY <1>1, <1>2 DEF Shadowed
<1>7. Shadowed'
  <2>1. job'[w].at \notin {"insert", "settle", "recipient"} /\ job'[w].payer = p
    BY <1>4
  <2>2. BlockedOpensNothing'
    BY <1>1, <1>3, <1>6, <2>1 DEF Shadowed, BlockedOpensNothing
  <2>3. BlockedUserSettlesNothing'
    BY <1>1, <1>3, <1>5, <1>6, <2>1 DEF Shadowed, BlockedUserSettlesNothing
  <2>4. \A e \in shadow'[w] :
          /\ job'[w] # Idle
          /\ target'[e] \in Of(job'[w].payer) \cup Of(Payee)
          /\ job'[w].at # "recipient"
    BY <1>3, <1>5, <1>6, <2>1
  <2>5. \A v \in Web \ {w} : \A e \in shadow'[v] :
          /\ job'[v] # Idle
          /\ target'[e] \in Of(job'[v].payer) \cup Of(Payee)
          /\ job'[v].at = "recipient" => target'[e] \notin Of(job'[v].payer)
    BY <1>1, <1>3, <1>5, <1>6 DEF Shadowed
  <2> QED
    BY <1>5, <1>6, <2>2, <2>3, <2>4, <2>5 DEF Shadowed
<1>8. Burnt'
  BY <1>1, <1>2 DEF Burnt
<1>9. w \notin stale
  <2>1. Idle.at = "idle"
    BY DEF Idle
  <2> QED
    BY <1>1, <1>2, <2>1 DEF Outdated
<1>10. Outdated'
  <2>1. stale' \subseteq Web
    BY <1>1, <1>2 DEF Outdated
  <2>2. \A v \in stale' : v # w => job'[v] = job[v] /\ v \in stale
    BY <1>1, <1>2, <1>3, <2>1 DEF Outdated
  <2>3. w \in stale' => Unusable(o)
    BY <1>2, <1>9
  <2>4. job'[w].at \in {"gate", "confirm gate"} /\ job'[w].offer = o
    BY <1>4
  <2>5. \A v \in stale' : job'[v].at \in {"gate", "decode", "confirm gate", "settle"}
    BY <1>1, <2>2, <2>4 DEF Outdated
  <2>6. \A v \in stale' : job'[v].at \in {"gate", "decode"} => Unusable(job'[v].offer)
    BY <1>1, <2>2, <2>3, <2>4 DEF Outdated
  <2>7. \A x : Unusable(x)' <=> Unusable(x)
    BY <1>2 DEF Unusable
  <2> QED
    BY <2>1, <2>5, <2>6, <2>7 DEF Outdated
<1> QED
  BY <1>1, <1>2, <1>3, <1>5, <1>7, <1>8, <1>10
     DEF GateInv, GateTypeOK, Audit, Shadowed, Burnt, Outdated

LEMMA IncomingStep ==
  ASSUME NEW w \in Web, GateInv,
         \/ \E p \in Payers, o \in Offers : Initiate(w, p, o)
         \/ \E r \in rows : Confirm(w, r)
  PROVE  GateInv'
<1>1. \A r \in rows : r.payer \in Payers /\ r.offer \in Offers
  BY Parts DEF Burnt
<1> QED
  BY <1>1, CallStep DEF Initiate, Confirm

\* A row that is added or changed leaves every key with one row, named after
\* the offer it answers.
OfferKept(o) == (\E r \in rows : r.offer = o) => \E r \in rows' : r.offer = o

LEMMA CloseStep ==
  ASSUME NEW w \in Web, GateInv, Close(w), UNCHANGED <<blacklist, token>>,
         Burnt', \A o \in Offers : OfferKept(o)
  PROVE  GateInv'
<1>1. /\ BlacklistTypeOK /\ Audit /\ Shadowed /\ Outdated
      /\ token \in [Tokens -> {"unissued", "live", "expired"}]
      /\ job \in [Web -> {Idle} \cup Jobs]
  BY Parts
<1>2. /\ job' = [job EXCEPT ![w] = Idle]
      /\ shadow' = [shadow EXCEPT ![w] = {}]
      /\ stale' = stale \ {w}
  BY DEF Close
<1>3. /\ job' \in [Web -> {Idle} \cup Jobs]
      /\ \A v \in Web \ {w} : job'[v] = job[v]
      /\ job'[w] = Idle
  BY <1>1, <1>2
<1>4. BlacklistTypeOK' /\ Audit' /\ Active' = Active /\ UNCHANGED target
  BY <1>1, QuietAdmin
<1>5. Shadowed'
  BY <1>1, <1>2, <1>3, <1>4
     DEF Shadowed, BlockedOpensNothing, BlockedUserSettlesNothing, Idle
<1>6. Outdated'
  <2>1. \A v \in stale' : v \in stale /\ v \in Web /\ job'[v] = job[v]
    BY <1>1, <1>2, <1>3 DEF Outdated
  <2>2. \A o : Unusable(o) => Unusable(o)'
    BY DEF Unusable, OfferKept, Offers
  <2> QED
    BY <1>1, <2>1, <2>2 DEF Outdated
<1> QED
  BY <1>1, <1>3, <1>4, <1>5, <1>6
     DEF GateInv, GateTypeOK, Audit, Shadowed, Burnt, Outdated

\* A row whose status changes.
LEMMA RowCloses ==
  ASSUME Burnt, NEW r \in rows, NEW end \in {"confirmed", "void"},
         rows' = (rows \ {r}) \cup {[r EXCEPT !.status = end]}
  PROVE  Burnt' /\ \A o \in Offers : OfferKept(o)
<1> DEFINE n == [r EXCEPT !.status = end]
<1>1. /\ r.key \in Offers /\ r.payer \in Payers /\ r.offer \in Offers
      /\ r = [key |-> r.key, payer |-> r.payer, offer |-> r.offer, status |-> r.status]
  BY DEF Burnt
<1>2. n = [key |-> r.key, payer |-> r.payer, offer |-> r.offer, status |-> end]
  BY <1>1
<1>3. /\ n \in [key : Offers, payer : Payers, offer : Offers,
                status : {"open", "confirmed", "void"}]
      /\ n.key = r.key /\ n.offer = r.offer
  BY <1>1, <1>2
<1> HIDE DEF n
<1>4. rows' = (rows \ {r}) \cup {n}
  BY DEF n
<1> QED
  BY <1>3, <1>4 DEF Burnt, OfferKept

LEMMA EndStep ==
  ASSUME NEW w \in Web, GateInv, Insert(w) \/ Settle(w) \/ Refuse(w)
  PROVE  GateInv'
<1>1. Burnt /\ job \in [Web -> {Idle} \cup Jobs]
  BY Parts
<1>2. Close(w) /\ UNCHANGED <<blacklist, token>>
  BY DEF Insert, Settle, Refuse
<1>3. Burnt' /\ \A o \in Offers : OfferKept(o)
  <2>1. CASE UNCHANGED rows
    BY <1>1, <2>1 DEF Burnt, OfferKept
  <2>2. CASE Settle(w)
    BY <1>1, <2>2, RowCloses DEF Settle
  <2>3. CASE Insert(w) /\ ~Used(KeyOf(job[w]))
    <3> DEFINE n == [key |-> job[w].offer, payer |-> job[w].payer,
                     offer |-> job[w].offer, status |-> "open"]
    <3>1. rows' = rows \cup {n} /\ job[w] # Idle
      BY <2>3 DEF Insert, KeyOf, Idle
    <3>2. /\ n \in [key : Offers, payer : Payers, offer : Offers,
                    status : {"open", "confirmed", "void"}]
          /\ n.key = n.offer
      BY <1>1, <3>1, JobTypes
    <3>3. \A r \in rows : r.key # n.key
      BY <2>3 DEF Used, KeyOf
    <3> HIDE DEF n
    <3> QED
      BY <1>1, <3>1, <3>2, <3>3 DEF Burnt, OfferKept
  <2> QED
    BY <2>1, <2>2, <2>3 DEF Insert, Refuse
<1> QED
  BY <1>2, <1>3, CloseStep

\* A code is issued or expires, or the sweep closes a row.
LEMMA QuietStep ==
  ASSUME GateInv,
         \/ \E t \in Tokens : Issue(t) \/ Expire(t)
         \/ \E r \in rows : Void(r)
         \/ UNCHANGED vars
  PROVE  GateInv'
<1>1. /\ BlacklistTypeOK /\ Audit /\ Shadowed /\ Burnt /\ Outdated
      /\ token \in [Tokens -> {"unissued", "live", "expired"}]
      /\ job \in [Web -> {Idle} \cup Jobs]
  BY Parts
<1>2. UNCHANGED <<blacklist, job, shadow, stale>>
  BY DEF Issue, Expire, Void, vars, transfers
<1>3. BlacklistTypeOK' /\ Audit' /\ Active' = Active /\ UNCHANGED target
  BY <1>1, <1>2, QuietAdmin
<1>4. Shadowed'
  BY <1>1, <1>2, <1>3 DEF Shadowed, BlockedOpensNothing, BlockedUserSettlesNothing
<1>5. /\ token' \in [Tokens -> {"unissued", "live", "expired"}]
      /\ \A t \in Tokens : token[t] = "expired" => token'[t] = "expired"
  BY <1>1 DEF Issue, Expire, Void, vars, transfers
<1>6. Burnt' /\ \A o \in Offers : OfferKept(o)
  <2>1. CASE UNCHANGED rows
    BY <1>1, <2>1 DEF Burnt, OfferKept
  <2>2. CASE \E r \in rows : Void(r)
    BY <1>1, <2>2, RowCloses DEF Void
  <2> QED
    BY <2>1, <2>2 DEF Issue, Expire, vars, transfers
<1>7. Outdated'
  BY <1>1, <1>2, <1>5, <1>6 DEF Outdated, Unusable, OfferKept, Offers
<1> QED
  BY <1>1, <1>2, <1>3, <1>4, <1>5, <1>6, <1>7
     DEF GateInv, GateTypeOK, Audit, Shadowed, Burnt, Outdated

LEMMA GateInvStep == GateInv /\ [GateNext]_vars => GateInv'
  BY AdministerStep, PassGateStep, DecodeStep, GuardStep, IncomingStep, EndStep,
     QuietStep DEF GateNext

-----------------------------------------------------------------------------
\* What holds of calls, codes, rows and blocks at every moment.
THEOREM GateInvariance == GateSpec => []GateInv
  BY InitGateInv, GateInvStep, PTL DEF GateSpec

THEOREM GateTypes == GateSpec => []GateTypeOK
<1>1. GateInv => GateTypeOK
  BY DEF GateInv
<1> QED
  BY GateInvariance, <1>1, PTL

\* initiate_transfer comes to its insert only if no block of either party has
\* stood since before the call, although the middleware and the two guards
\* look at different identities at different times.
THEOREM BlockedOpens == GateSpec => []BlockedOpensNothing
<1>1. GateInv => BlockedOpensNothing
  BY DEF GateInv
<1> QED
  BY GateInvariance, <1>1, PTL

\* The middleware alone keeps a blocked user from confirm_transfer.
THEOREM BlockedUserSettles == GateSpec => []BlockedUserSettlesNothing
<1>1. GateInv => BlockedUserSettlesNothing
  BY DEF GateInv
<1> QED
  BY GateInvariance, <1>1, PTL

\* decode_dynamic_qr and the unique key together: one code, one request,
\* however many decode it at once.
THEOREM OneRequestPerCode == GateSpec => []CodeOpensOnce
<1>1. ASSUME GateInv, NEW t \in Tokens
      PROVE  Cardinality({r \in rows : r.offer = t}) <= 1
  <2> DEFINE S == {r \in rows : r.offer = t}
  <2>1. \A r, q \in S : r = q
    BY <1>1, Parts DEF Burnt
  <2>2. CASE S = {}
    <3>1. Cardinality(S) = 0
      BY <2>2, FS_EmptySet
    <3> QED
      BY <3>1
  <2>3. CASE S # {}
    <3>1. PICK r \in S : TRUE
      BY <2>3
    <3>2. S = {r}
      BY <2>1, <3>1
    <3>3. Cardinality({r}) = 1
      BY FS_Singleton
    <3>4. Cardinality(S) = 1
      BY <3>2, <3>3
    <3> QED
      BY <3>4
  <2> QED
    BY <2>2, <2>3
<1>2. GateInv => CodeOpensOnce
  BY <1>1 DEF CodeOpensOnce
<1> QED
  BY GateInvariance, <1>2, PTL

\* A call that came with an expired or burnt code never gets past the decode.
THEOREM StaleCodeOpens == GateSpec => []StaleCodeOpensNothing
<1>1. GateInv => StaleCodeOpensNothing
  BY DEF GateInv, StaleCodeOpensNothing
<1> QED
  BY GateInvariance, <1>1, PTL

\* unblock, and the form of the admin site, overwrite the record of who lifted
\* a block only when two admins had loaded it at once.
THEOREM AuditTrail == GateSpec => AuditKept
<1>1. ASSUME GateInv, GateNext
      PROVE  BlacklistNext \/ UNCHANGED blacklist
  BY <1>1 DEF GateNext, Administer, Issue, Expire, Initiate, Confirm, Call, PassGate,
     Decode, Lookup, GuardSender, GuardRecipient, Goto, Insert, Settle, Refuse, Void
<1>2. ASSUME GateInv, [GateNext]_vars
      PROVE  [\A e \in Entries :
                liftedBy[e] \notin {Nobody, liftedBy'[e]} => e \in raced]_blacklist
  BY <1>1, <1>2, AdminKeeps, Parts DEF vars
<1> QED
  BY GateInvariance, <1>2, PTL DEF GateSpec, AuditKept
=============================================================================
