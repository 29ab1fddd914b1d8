---------------------------- MODULE GuardsProofs ----------------------------
(***************************************************************************)
(* Proofs about Guards and the Kyc it extends, for any number of workers,  *)
(* applications and requests.                                              *)
(*                                                                         *)
(* The applications are numbered without gaps.  A review that had its row  *)
(* alone knows its status, so it overturns nothing; and a level, also one  *)
(* that an open form shows, has its approval behind it.  Nobody is barred  *)
(* but by a rejection that stands.  A request that overlaps no other finds *)
(* the window as it was when it was checked, or emptier, and its handler   *)
(* compared it with the level it was authenticated with.                   *)
(*                                                                         *)
(* LedgerProofs is here for its lemmas about sums; the ledger itself plays *)
(* no part.                                                                *)
(***************************************************************************)
EXTENDS Guards, FiniteSetTheorems, SequenceTheorems, LedgerProofs, TLAPS

\* The levels with an approval behind them, and the one that needs none.
Granted ==
  {"unverified"} \cup
    {wants[a] : a \in {b \in Submitted : status[b] = "approved" \/ b \in raced}}

Reviewed(p) == job[p] \in Reviews

NoGaps == \E n \in 0..MaxApps : Submitted = 1..n

FormsAreHonest == \A p \in Web : job[p] \in Forms => job[p].shows \in Granted

ReviewsKnow ==
  \A p \in Web : Reviewed(p) =>
    /\ job[p].app \in Submitted
    /\ job[p].app \notin raced => status[job[p].app] = job[p].read

ReviewsRace ==
  \A p, q \in Web :
    p # q /\ Reviewed(p) /\ Reviewed(q) /\ job[p].app = job[q].app
      => job[p].app \in raced

KycInv ==
  /\ TypeOK
  /\ NoGaps
  /\ level \in Granted
  /\ FormsAreHonest
  /\ ReviewsKnow
  /\ ReviewsRace

GuardsInv ==
  /\ GuardsTypeOK
  /\ KycInv
  /\ BarredOpensNothing
  /\ barred # {} => LatestRejected

-----------------------------------------------------------------------------
(***************************************************************************)
(* What a worker is at.                                                    *)
(***************************************************************************)
LEMMA Kinds ==
  /\ Idle \notin Reviews \cup Forms
  /\ Submission \notin Reviews \cup Forms
  /\ Submission # Idle
  /\ \A j \in Reviews : j \notin Forms /\ j.app \in Apps
                        /\ j.do \in {"approve", "reject"} /\ j.read \in {"pending"} \cup Decided
  /\ \A j \in Forms : j \notin Reviews /\ j.shows \in Levels
<1>1. Idle.do = "nothing" /\ Submission.do = "submit"
  BY DEF Idle, Submission
<1>2. \A j \in Reviews : j.do \in {"approve", "reject"} /\ j.app \in Apps
                         /\ j.read \in {"pending"} \cup Decided
  BY DEF Reviews
<1>3. \A j \in Forms : j.do = "form" /\ j.shows \in Levels
  BY DEF Forms
<1> QED
  BY <1>1, <1>2, <1>3

\* The next application has the next number, if there is room for it.
LEMMA NextNumber ==
  ASSUME NEW n \in 0..MaxApps, Submitted = 1..n
  PROVE  Cardinality(Submitted) = n
<1>1. n \in Nat
  BY KycAssumption
<1>2. Cardinality(1..n) = n
  BY <1>1, FS_Interval
<1> QED
  BY <1>2

LEMMA InitKycInv == Init => KycInv
<1> SUFFICES ASSUME Init PROVE KycInv
  OBVIOUS
<1>1. TypeOK
  BY DEF Init, TypeOK, Levels, Requestable
<1>2. Submitted = 1..0 /\ 0 \in 0..MaxApps
  BY KycAssumption DEF Init, Submitted
<1>3. \A p \in Web : job[p] = Idle
  BY DEF Init
<1> QED
  BY <1>1, <1>2, <1>3, Kinds DEF Init, KycInv, NoGaps, Granted, FormsAreHonest,
                              ReviewsKnow, ReviewsRace, Reviewed

-----------------------------------------------------------------------------
(***************************************************************************)
(* A worker that becomes idle leaves the others as they were.              *)
(***************************************************************************)
LEMMA CreateStep ==
  ASSUME KycInv, NEW p \in Web, Create(p)
  PROVE  KycInv'
<1>1. PICK n \in 0..MaxApps : Submitted = 1..n
  BY DEF KycInv, NoGaps
<1>2. PICK l \in Requestable :
        /\ status' = [status EXCEPT ![n + 1] = "pending"]
        /\ wants' = [wants EXCEPT ![n + 1] = l]
  BY <1>1, NextNumber DEF Create, Offered
<1>3. /\ job' = [job EXCEPT ![p] = Idle]
      /\ UNCHANGED <<level, raced>>
  BY DEF Create
<1>4. \A a \in Apps : a # n + 1 => status'[a] = status[a] /\ wants'[a] = wants[a]
  BY <1>2 DEF KycInv, TypeOK
<1>5. n + 1 \in Apps => status[n + 1] = "none" /\ wants[n + 1] \notin Requestable
                        /\ status'[n + 1] = "pending" /\ wants'[n + 1] = l
  BY <1>1, <1>2 DEF KycInv, TypeOK, Submitted
<1>6. TypeOK'
  <2>1. /\ status' \in [Apps -> {"none", "pending"} \cup Decided]
        /\ wants' \in [Apps -> Levels]
    BY <1>2 DEF KycInv, TypeOK, Levels
  <2>2. \A a \in Apps : wants'[a] \in Requestable <=> status'[a] # "none"
    BY <1>4, <1>5 DEF KycInv, TypeOK
  <2> QED
    BY <1>3, <2>1, <2>2 DEF KycInv, TypeOK
<1>7. NoGaps'
  <2>1. CASE n + 1 \in Apps
    <3>1. Submitted' = Submitted \cup {n + 1}
      BY <1>4, <1>5, <2>1 DEF Submitted
    <3>2. Submitted' = 1..(n + 1) /\ n + 1 \in 0..MaxApps
      BY <1>1, <2>1, <3>1, KycAssumption DEF Apps
    <3> QED
      BY <3>2 DEF NoGaps
  <2>2. CASE n + 1 \notin Apps
    <3>1. Submitted' = Submitted
      BY <1>1, <1>4, <2>2 DEF Submitted
    <3> QED
      BY <1>1, <3>1 DEF NoGaps
  <2> QED
    BY <2>1, <2>2
<1>8. \A a \in Submitted : a # n + 1 /\ a \in Apps /\ a \in Submitted'
                             /\ status'[a] = status[a] /\ wants'[a] = wants[a]
  BY <1>4, <1>5 DEF Submitted, KycInv, TypeOK
<1>9. Granted \subseteq Granted'
  BY <1>3, <1>8 DEF Granted
<1>10. \A q \in Web : job'[q] # Idle => q # p /\ job'[q] = job[q]
  BY <1>3 DEF KycInv, TypeOK
<1>11. level' \in Granted'
  BY <1>3, <1>9 DEF KycInv
<1>12. FormsAreHonest'
  BY <1>9, <1>10, Kinds DEF KycInv, FormsAreHonest
<1>13. ReviewsKnow'
  BY <1>3, <1>8, <1>10, Kinds DEF KycInv, ReviewsKnow, Reviewed
<1>14. ReviewsRace'
  BY <1>3, <1>10, Kinds DEF KycInv, ReviewsRace, Reviewed
<1> QED
  BY <1>6, <1>7, <1>11, <1>12, <1>13, <1>14 DEF KycInv

\* An application that is loaded joins what is known of the others.
LEMMA LoadStep ==
  ASSUME KycInv, NEW p \in Web, NEW a \in Apps, NEW what \in {"approve", "reject"},
         Load(p, a, what)
  PROVE  KycInv'
<1> USE DEF KycInv, Load
<1>1. UNCHANGED <<status, wants, level>> /\ raced \subseteq raced' /\ raced' \subseteq Apps
  BY DEF TypeOK
<1>2. job'[p] = [do |-> what, app |-> a, read |-> status[a]] /\ job'[p] \in Reviews
  BY DEF TypeOK, Submitted, Reviews
<1>3. \A q \in Web : q # p => job'[q] = job[q]
  BY DEF TypeOK
<1>4. TypeOK'
  BY <1>1, <1>2 DEF TypeOK
<1>5. Granted \subseteq Granted' /\ NoGaps' /\ Submitted' = Submitted
  BY <1>1 DEF Granted, NoGaps, Submitted
<1>6. FormsAreHonest'
  BY <1>2, <1>3, <1>5, Kinds DEF FormsAreHonest
<1>7. ReviewsKnow'
  <2>1. ASSUME NEW q \in Web, Reviewed(q)'
        PROVE  /\ job'[q].app \in Submitted'
               /\ job'[q].app \notin raced' => status'[job'[q].app] = job'[q].read
    <3>1. CASE q = p
      BY <1>1, <1>2, <1>5, <3>1
    <3>2. CASE q # p
      BY <1>1, <1>3, <1>5, <2>1, <3>2 DEF ReviewsKnow, Reviewed
    <3> QED
      BY <3>1, <3>2
  <2> QED
    BY <2>1 DEF ReviewsKnow
<1>8. \A q \in Web : q # p /\ Reviewed(q)' /\ job'[q].app = a => a \in raced'
  <2> SUFFICES ASSUME NEW q \in Web, q # p, Reviewed(q)', job'[q].app = a
               PROVE  a \in raced'
    OBVIOUS
  <2>1. q \in Reviewing(a)
    BY <1>3 DEF Reviewed, Reviewing
  <2> QED
    BY <2>1
<1>9. ReviewsRace'
  <2> SUFFICES ASSUME NEW q \in Web, NEW r \in Web, q # r, Reviewed(q)', Reviewed(r)',
                      job'[q].app = job'[r].app
               PROVE  job'[q].app \in raced'
    BY DEF ReviewsRace
  <2>1. CASE q = p \/ r = p
    BY <1>2, <1>8, <2>1
  <2>2. CASE q # p /\ r # p
    BY <1>1, <1>3, <2>2 DEF ReviewsRace, Reviewed
  <2> QED
    BY <2>1, <2>2
<1> QED
  BY <1>1, <1>4, <1>5, <1>6, <1>7, <1>9

\* A decision is one about an application that was pending, unless reviews
\* raced for it; so it takes no approval away that another level needs.
LEMMA DecideStep ==
  ASSUME KycInv, NEW p \in Web, Approve(p) \/ Reject(p)
  PROVE  /\ KycInv'
         /\ \A a \in Apps : status[a] \in Decided /\ status'[a] # status[a] => a \in raced
<1> DEFINE a == job[p].app
<1>1. Reviewed(p) /\ a \in Submitted /\ a \in Apps
  BY Kinds DEF KycInv, ReviewsKnow, Approve, Reject, Reviewed
<1>2. PICK to \in Decided : status' = [status EXCEPT ![a] = to] /\ job[p].read = "pending"
  BY DEF Approve, Reject, Transition, MayBecome, Decided
<1>3. UNCHANGED <<wants, raced>> /\ job' = [job EXCEPT ![p] = Idle]
  BY DEF Approve, Reject
<1>4. a \notin raced => status[a] = "pending"
  BY <1>1, <1>2 DEF KycInv, ReviewsKnow
<1>5. \A b \in Apps : b # a => status'[b] = status[b]
  BY <1>2 DEF KycInv, TypeOK
<1>6. status'[a] = to
  BY <1>1, <1>2 DEF KycInv, TypeOK
<1>7. Submitted' = Submitted
  BY <1>1, <1>5, <1>6 DEF Submitted, Decided
<1>8. NoGaps'
  BY <1>7 DEF KycInv, NoGaps
<1>9. Granted \subseteq Granted'
  <2>1. \A b \in Submitted : status[b] = "approved" \/ b \in raced
                             => status'[b] = "approved" \/ b \in raced'
    BY <1>3, <1>4, <1>5 DEF Submitted
  <2> QED
    BY <1>3, <1>7, <2>1 DEF Granted
<1>10. level' \in Granted'
  <2>1. CASE Approve(p)
    <3>1. level' = wants'[a] /\ status' = [status EXCEPT ![a] = "approved"]
      BY <1>3, <2>1 DEF Approve, Transition
    <3>2. status'[a] = "approved"
      BY <1>1, <3>1 DEF KycInv, TypeOK
    <3> QED
      BY <1>1, <1>7, <3>1, <3>2 DEF Granted
  <2>2. CASE Reject(p)
    BY <1>9, <2>2 DEF Reject, KycInv
  <2> QED
    BY <2>1, <2>2
<1>11. TypeOK'
  <2>1. status' \in [Apps -> {"none", "pending"} \cup Decided]
    BY <1>2 DEF KycInv, TypeOK
  <2>2. \A b \in Apps : wants'[b] \in Requestable <=> status'[b] # "none"
    BY <1>1, <1>3, <1>5, <1>6 DEF KycInv, TypeOK, Submitted, Decided
  <2>3. level' \in Levels
    BY <1>1, <1>3 DEF Approve, Reject, KycInv, TypeOK
  <2> QED
    BY <1>3, <2>1, <2>2, <2>3 DEF KycInv, TypeOK
<1>12. \A q \in Web : job'[q] # Idle => q # p /\ job'[q] = job[q]
  BY <1>3 DEF KycInv, TypeOK
<1>13. FormsAreHonest'
  BY <1>9, <1>12, Kinds DEF KycInv, FormsAreHonest
<1>14. ReviewsRace'
  BY <1>3, <1>12, Kinds DEF KycInv, ReviewsRace, Reviewed
<1>15. ReviewsKnow'
  <2> SUFFICES ASSUME NEW q \in Web, Reviewed(q)'
               PROVE  /\ job'[q].app \in Submitted'
                      /\ job'[q].app \notin raced' => status'[job'[q].app] = job'[q].read
    BY DEF ReviewsKnow
  <2>1. q # p /\ Reviewed(q) /\ job'[q] = job[q] /\ job[q].app \in Submitted
    BY <1>12, Kinds DEF Reviewed, KycInv, ReviewsKnow
  <2>2. CASE job[q].app = a
    BY <1>1, <1>3, <1>7, <2>1, <2>2 DEF KycInv, ReviewsRace
  <2>3. CASE job[q].app # a
    BY <1>3, <1>5, <1>7, <2>1, <2>3 DEF KycInv, ReviewsKnow, Submitted
  <2> QED
    BY <2>2, <2>3
<1>16. \A b \in Apps : status[b] \in Decided /\ status'[b] # status[b] => b \in raced
  BY <1>4, <1>5 DEF Decided
<1> QED
  BY <1>8, <1>10, <1>11, <1>13, <1>14, <1>15, <1>16 DEF KycInv

\* What is left reads the tables and does not write them, but for the level
\* that a form writes back.
LEMMA OtherStep ==
  ASSUME KycInv, NEW p \in Web, Submit(p) \/ OpenForm(p) \/ SaveForm(p) \/ GiveUp(p)
  PROVE  KycInv'
<1>1. UNCHANGED <<status, wants, raced>>
  BY DEF Submit, OpenForm, SaveForm, GiveUp
<1>2. PICK j \in {Idle, Submission} \cup {[do |-> "form", shows |-> level]} :
        job' = [job EXCEPT ![p] = j]
  BY DEF Submit, OpenForm, SaveForm, GiveUp
<1>3. job'[p] = j /\ \A q \in Web : q # p => job'[q] = job[q]
  BY <1>2 DEF KycInv, TypeOK
<1>4. [do |-> "form", shows |-> level] \in Forms
  BY DEF KycInv, TypeOK, Forms
<1>5. Granted' = Granted /\ NoGaps' /\ Submitted' = Submitted
  BY <1>1 DEF Granted, NoGaps, Submitted, KycInv
<1>6. level' \in Granted /\ level' \in Levels
  BY Kinds DEF KycInv, FormsAreHonest, TypeOK, Submit, OpenForm, SaveForm, GiveUp
<1>7. TypeOK'
  <2>1. job' \in [Web -> {Idle, Submission} \cup Reviews \cup Forms]
    BY <1>2, <1>4 DEF KycInv, TypeOK
  <2> QED
    BY <1>1, <1>6, <2>1 DEF KycInv, TypeOK
<1>8. FormsAreHonest'
  <2>1. j \in Forms => j.shows \in Granted
    BY <1>2, Kinds DEF KycInv
  <2> QED
    BY <1>3, <1>5, <2>1 DEF KycInv, FormsAreHonest
<1>9. \A q \in Web : Reviewed(q)' => Reviewed(q) /\ job'[q] = job[q]
  BY <1>2, <1>3, <1>4, Kinds DEF Reviewed
<1>10. ReviewsKnow' /\ ReviewsRace'
  BY <1>1, <1>5, <1>9 DEF KycInv, ReviewsKnow, ReviewsRace
<1> QED
  BY <1>5, <1>6, <1>7, <1>8, <1>10 DEF KycInv

LEMMA KycStep ==
  ASSUME KycInv, [Next]_kyc
  PROVE  /\ KycInv'
         /\ \A a \in Apps : status[a] \in Decided /\ status'[a] # status[a] => a \in raced
<1>1. ASSUME NEW p \in Web, Create(p) PROVE \A a \in Submitted : status'[a] = status[a]
  <2>1. PICK n \in 0..MaxApps : Submitted = 1..n
    BY DEF KycInv, NoGaps
  <2> QED
    BY <1>1, <2>1, NextNumber DEF Create, KycInv, TypeOK, Submitted
<1>2. CASE UNCHANGED kyc
  BY <1>2 DEF kyc, KycInv, TypeOK, NoGaps, Granted, FormsAreHonest, ReviewsKnow, ReviewsRace,
              Reviewed, Submitted
<1>3. ASSUME NEW p \in Web, Submit(p) \/ OpenForm(p) \/ SaveForm(p) \/ GiveUp(p)
      PROVE  KycInv' /\ status' = status
  BY <1>3, OtherStep DEF Submit, OpenForm, SaveForm, GiveUp
<1>4. ASSUME NEW p \in Web, NEW a \in Apps, NEW what \in {"approve", "reject"},
             Load(p, a, what)
      PROVE  KycInv' /\ status' = status
  BY <1>4, LoadStep DEF Load
<1>5. \A a \in Apps : status[a] \in Decided => a \in Submitted
  BY DEF Submitted, Decided
<1>6. CASE \E p \in Web : Create(p)
  BY <1>1, <1>5, <1>6, CreateStep
<1>7. CASE \E p \in Web : Approve(p) \/ Reject(p)
  BY <1>7, DecideStep
<1> QED
  BY <1>2, <1>3, <1>4, <1>6, <1>7 DEF Next

-----------------------------------------------------------------------------
(***************************************************************************)
(* The requests.  Who passes the question about the latest application was *)
(* asked when it was not rejected, so that nobody was barred.              *)
(***************************************************************************)
LEMMA InitGuardsInv == GuardsInit => GuardsInv
<1> SUFFICES ASSUME GuardsInit PROVE GuardsInv
  OBVIOUS
<1>1. KycInv
  BY InitKycInv DEF GuardsInit
<1>2. GuardsTypeOK
  BY <1>1, GuardsAssumption DEF GuardsInit, GuardsTypeOK, KycInv, Levels, UnderWay
<1> QED
  BY <1>1, <1>2 DEF GuardsInit, GuardsInv, BarredOpensNothing

\* A request that asks, or that ends.
LEMMA RequestStep ==
  ASSUME GuardsInv, NEW r \in Requests,
         (\E a \in Amounts : Authenticate(r, a)) \/ CheckLatest(r) \/ CheckLimit(r)
           \/ Refuse(r) \/ Settle(r)
  PROVE  GuardsInv'
<1> USE DEF GuardsInv, Goto
<1>1. UNCHANGED kyc /\ KycInv' /\ TypeOK' /\ LatestRejected' = LatestRejected
  <2>1. UNCHANGED kyc
    BY DEF Authenticate, CheckLatest, CheckLimit, Refuse, Settle
  <2> QED
    BY <2>1, KycStep DEF kyc, KycInv, LatestRejected, Submitted
<1>2. level \in Levels /\ Amounts \subseteq Nat /\ "unverified" \in Levels
  BY GuardsAssumption DEF KycInv, TypeOK, Levels
<1>3. CASE \E a \in Amounts : Authenticate(r, a)
  <2> PICK a \in Amounts : Authenticate(r, a)
    BY <1>3
  <2>1. GuardsTypeOK'
    BY <1>1, <1>2 DEF Authenticate, GuardsTypeOK, UnderWay
  <2>2. stage'[r] = "asking" /\ \A q \in Requests : q # r => stage'[q] = stage[q]
    BY DEF Authenticate, GuardsTypeOK
  <2> QED
    BY <1>1, <2>1, <2>2 DEF Authenticate, BarredOpensNothing
<1>4. CASE CheckLatest(r)
  <2>1. GuardsTypeOK'
    BY <1>1, <1>4 DEF CheckLatest, GuardsTypeOK, UnderWay
  <2>2. barred' = {}
    BY <1>4 DEF CheckLatest
  <2> QED
    BY <1>1, <2>1, <2>2 DEF BarredOpensNothing
<1>5. CASE CheckLimit(r)
  <2>1. GuardsTypeOK'
    BY <1>1, <1>2, <1>5 DEF CheckLimit, GuardsTypeOK, UnderWay
  <2>2. barred' = barred /\ r \notin barred /\ \A q \in Requests : q # r => stage'[q] = stage[q]
    BY <1>5 DEF CheckLimit, GuardsTypeOK, BarredOpensNothing
  <2> QED
    BY <1>1, <2>1, <2>2 DEF GuardsTypeOK, BarredOpensNothing
<1>6. CASE Refuse(r) \/ Settle(r)
  <2>1. Close(r, "refused") \/ Close(r, "settled")
    BY <1>6 DEF Refuse, Settle
  <2>2. window' \in Seq(Nat) /\ best' \in Nat
    <3>1. window \in Seq(Nat) /\ amount[r] \in Nat
      BY DEF GuardsTypeOK
    <3>2. Append(window, amount[r]) \in Seq(Nat)
      BY <3>1, AppendProperties
    <3> QED
      BY <1>6, <3>1, <3>2 DEF Refuse, Settle, GuardsTypeOK
  <2>3. /\ stage' \in [Requests -> {"new", "settled", "refused"} \cup UnderWay]
        /\ seenLevel' \in [Requests -> Levels]
        /\ amount' \in [Requests -> Nat]
        /\ overlapped' \subseteq Requests
        /\ barred' \subseteq Requests
    <3>1. PICK next \in {"refused", "settled"} : stage' = [stage EXCEPT ![r] = next]
      BY <2>1 DEF Close
    <3>2. stage' \in [Requests -> {"new", "settled", "refused"} \cup UnderWay]
      BY <3>1 DEF GuardsTypeOK
    <3>3. /\ seenLevel' = [seenLevel EXCEPT ![r] = "unverified"]
          /\ amount' = [amount EXCEPT ![r] = 0]
          /\ overlapped' = overlapped \ {r} /\ barred' = barred \ {r}
      BY <2>1 DEF Close
    <3> QED
      BY <1>2, <3>2, <3>3 DEF GuardsTypeOK
  <2>4. GuardsTypeOK'
    BY <1>1, <2>2, <2>3 DEF GuardsTypeOK
  <2>5. barred' = barred \ {r} /\ \A q \in Requests : q # r => stage'[q] = stage[q]
    BY <1>6 DEF Refuse, Settle, Close, GuardsTypeOK
  <2> QED
    BY <1>1, <2>4, <2>5 DEF GuardsTypeOK, BarredOpensNothing
<1> QED
  BY <1>3, <1>4, <1>5, <1>6

\* A review that ends the rejection ends the bar as well.
LEMMA ReviewStep ==
  ASSUME GuardsInv, Review
  PROVE  GuardsInv'
<1>1. KycInv'
  BY KycStep DEF Review, GuardsInv
<1>2. GuardsTypeOK'
  <2>1. Limit[level'] \in Nat
    BY <1>1, GuardsAssumption DEF KycInv, TypeOK
  <2>2. best' \in Nat
    BY <2>1 DEF Review, GuardsInv, GuardsTypeOK
  <2>3. barred' \subseteq Requests
    BY DEF Review, GuardsInv, GuardsTypeOK
  <2> QED
    BY <1>1, <2>2, <2>3 DEF Review, GuardsInv, GuardsTypeOK, KycInv
<1>3. barred' \subseteq barred /\ stage' = stage /\ (barred' # {} => LatestRejected')
  BY DEF Review
<1> QED
  BY <1>1, <1>2, <1>3 DEF GuardsInv, BarredOpensNothing

LEMMA GuardsStep ==
  ASSUME GuardsInv, [GuardsNext]_vars
  PROVE  GuardsInv'
<1>1. CASE Age
  <2>1. Tail(window) \in Seq(Nat)
    BY <1>1, HeadTailProperties DEF Age, GuardsInv, GuardsTypeOK
  <2>2. UNCHANGED kyc
    BY <1>1 DEF Age
  <2>3. KycInv' /\ LatestRejected' = LatestRejected
    BY <2>2, KycStep DEF GuardsInv, kyc, LatestRejected, Submitted
  <2>4. GuardsTypeOK'
    BY <1>1, <2>1, <2>3 DEF Age, GuardsInv, GuardsTypeOK, KycInv
  <2> QED
    BY <1>1, <2>3, <2>4 DEF Age, GuardsInv, BarredOpensNothing
<1>2. CASE UNCHANGED vars
  <2>1. UNCHANGED kyc /\ UNCHANGED spending
    BY <1>2 DEF vars
  <2>2. KycInv' /\ LatestRejected' = LatestRejected
    BY <2>1, KycStep DEF GuardsInv, kyc, LatestRejected, Submitted
  <2>3. GuardsTypeOK'
    BY <2>1, <2>2 DEF spending, GuardsInv, GuardsTypeOK, KycInv
  <2> QED
    BY <2>1, <2>2, <2>3 DEF spending, GuardsInv, BarredOpensNothing
<1> QED
  BY <1>1, <1>2, RequestStep, ReviewStep DEF GuardsNext

-----------------------------------------------------------------------------
\* GuardsInv holds for any number of workers, applications and requests, and
\* for any limits.
THEOREM GuardsInvariance == GuardsSpec => []GuardsInv
<1>1. GuardsInit => GuardsInv
  BY InitGuardsInv
<1>2. GuardsInv /\ [GuardsNext]_vars => GuardsInv'
  BY GuardsStep
<1> QED
  BY <1>1, <1>2, PTL DEF GuardsSpec

\* Every handler keeps to what the model says its variables may be.
THEOREM GuardsTypes == GuardsSpec => []GuardsTypeOK
<1>1. GuardsInv => GuardsTypeOK
  BY DEF GuardsInv
<1> QED
  BY <1>1, GuardsInvariance, PTL

\* check_kyc: a request begun under a rejection comes to nothing while the
\* rejected application is the latest.
THEOREM BarredStayOut == GuardsSpec => []BarredOpensNothing
<1>1. GuardsInv => BarredOpensNothing
  BY DEF GuardsInv
<1> QED
  BY <1>1, GuardsInvariance, PTL

\* approve and the form of the user admin: nobody gets a level that was not
\* approved for him.
THEOREM LevelsAreApproved == GuardsSpec => []LevelIsApproved
<1>1. GuardsInv => LevelIsApproved
  <2>1. KycInv => LevelIsApproved
    BY DEF KycInv, Granted, LevelIsApproved, Submitted
  <2> QED
    BY <2>1 DEF GuardsInv
<1> QED
  BY <1>1, GuardsInvariance, PTL

\* transition_to: a decision is overturned by a review that had loaded the
\* application together with another one, and by nothing else.
THEOREM DecisionsStand == GuardsSpec => OverturnedByRace
<1>1. GuardsInv /\ [GuardsNext]_vars =>
        [\A a \in Apps :
           status[a] \in Decided /\ status'[a] # status[a] => a \in raced]_kyc
  <2> SUFFICES ASSUME GuardsInv, [GuardsNext]_vars
               PROVE  \A a \in Apps :
                        status[a] \in Decided /\ status'[a] # status[a] => a \in raced
    OBVIOUS
  <2>1. [Next]_kyc
    BY DEF GuardsNext, Review, Age, Authenticate, CheckLatest, CheckLimit, Refuse, Settle, vars
  <2> QED
    BY <2>1, KycStep DEF GuardsInv
<1> QED
  BY <1>1, GuardsInvariance, PTL DEF GuardsSpec, OverturnedByRace

-----------------------------------------------------------------------------
(***************************************************************************)
(* The limit.                                                              *)
(***************************************************************************)
AloneIfNotOverlapped ==
  \A r, q \in Requests :
    stage[r] \in UnderWay /\ stage[q] \in UnderWay /\ r \notin overlapped => q = r

RoomWhenAlone ==
  \A r \in Requests :
    stage[r] = "open" /\ r \notin overlapped /\ amount[r] > 0
      => Spent + amount[r] <= Limit[seenLevel[r]]

LimitInv ==
  /\ AloneIfNotOverlapped
  /\ RoomWhenAlone

WindowSum(w) == Sum(w, 1..Len(w))

LEMMA SpentIsSum ==
  /\ window \in Seq(Nat) => Spent = WindowSum(window)
  /\ window' \in Seq(Nat) => Spent' = WindowSum(window')
<1>1. Spent = Sum(window, DOMAIN window) /\ Spent' = Sum(window', DOMAIN window')
  BY DEF Spent, MapThenSumSet, MapThenFoldSet, Sum, Sums, Recursion, Any
<1>2. ASSUME NEW w \in Seq(Nat) PROVE DOMAIN w = 1..Len(w)
  OBVIOUS
<1> QED
  BY <1>1, <1>2 DEF WindowSum

LEMMA WindowSumType ==
  ASSUME NEW w \in Seq(Nat)
  PROVE  WindowSum(w) \in Int
<1>1. \A i \in 1..Len(w) : w[i] \in Int
  OBVIOUS
<1> QED
  BY <1>1, FS_Interval, SumType DEF WindowSum

\* A debit adds its amount to the window, ...
LEMMA SumAppended ==
  ASSUME NEW w \in Seq(Nat), NEW a \in Nat
  PROVE  WindowSum(Append(w, a)) = WindowSum(w) + a
<1> DEFINE n == Len(w)
           v == Append(w, a)
<1>1. n \in Nat /\ v \in Seq(Nat) /\ Len(v) = n + 1 /\ v[n + 1] = a
  BY AppendProperties
<1>2. \A i \in 1..n : v[i] = w[i] /\ v[i] \in Int
  BY AppendProperties
<1> HIDE DEF n, v
<1>3. 1..(n + 1) = (1..n) \cup {n + 1} /\ n + 1 \notin 1..n
  BY <1>1
<1>4. IsFiniteSet(1..n)
  BY <1>1, FS_Interval
<1>5. \A i \in (1..n) \cup {n + 1} : v[i] \in Int
  BY <1>1, <1>2
<1>6. Sum(v, (1..n) \cup {n + 1}) = Sum(v, 1..n) + v[n + 1]
  BY <1>3, <1>4, <1>5, SumInsert
<1>7. Sum(v, 1..n) = Sum(w, 1..n)
  BY <1>2, SumSame
<1> QED
  BY <1>1, <1>3, <1>6, <1>7 DEF WindowSum, n, v

\* ... and the oldest one takes its own away: term by term, the tail adds up
\* to what follows the head.
LEMMA LeastNumber ==
  ASSUME NEW C, C \subseteq Nat, C # {}
  PROVE  \E n \in C : \A m \in C : n <= m
<1>1. PICK n \in C : \A m \in C : <<m, n>> \notin OpToRel(<, Nat)
  BY NatLessThanWellFounded, WFMin
<1>2. \A m \in C : ~(m < n)
  BY <1>1 DEF OpToRel
<1> QED
  BY <1>2

Shifted(f, g, n) == \A i \in 1..n : f[i] = g[i + 1] /\ g[i + 1] \in Int

LEMMA SumShifted ==
  ASSUME NEW f, NEW g, NEW n \in Nat, Shifted(f, g, n)
  PROVE  \A m \in 0..n : Sum(f, 1..m) = Sum(g, 2..(m + 1))
<1> USE DEF Shifted
<1> DEFINE C == {m \in 0..n : Sum(f, 1..m) # Sum(g, 2..(m + 1))}
<1> SUFFICES ASSUME C # {} PROVE FALSE
  OBVIOUS
<1>1. PICK m \in C : \A l \in C : m <= l
  <2>1. C \subseteq Nat
    OBVIOUS
  <2> HIDE DEF C
  <2> QED
    BY <2>1, LeastNumber
<1>2. m \in 0..n /\ Sum(f, 1..m) # Sum(g, 2..(m + 1))
  OBVIOUS
<1>3. m # 0
  <2>1. 1..0 = {} /\ 2..(0 + 1) = {}
    OBVIOUS
  <2> QED
    BY <1>2, <2>1, SumEmpty
<1>4. m - 1 \in 0..n /\ m \in 1..n
  BY <1>2, <1>3
<1>5. Sum(f, 1..(m - 1)) = Sum(g, 2..m)
  <2>1. m - 1 \notin C
    BY <1>1, <1>4
  <2>2. (m - 1) + 1 = m
    BY <1>4
  <2> QED
    BY <1>4, <2>1, <2>2
<1> HIDE DEF C
<1>6. Sum(f, 1..m) = Sum(f, 1..(m - 1)) + f[m]
  <2>1. 1..m = (1..(m - 1)) \cup {m} /\ m \notin 1..(m - 1)
    BY <1>4
  <2>2. \A i \in (1..(m - 1)) \cup {m} : f[i] \in Int
    BY <1>4
  <2>3. IsFiniteSet(1..(m - 1))
    BY <1>4, FS_Interval
  <2>4. Sum(f, (1..(m - 1)) \cup {m}) = Sum(f, 1..(m - 1)) + f[m]
    BY <2>1, <2>2, <2>3, SumInsert
  <2> QED
    BY <2>1, <2>4
<1>7. Sum(g, 2..(m + 1)) = Sum(g, 2..m) + g[m + 1]
  <2>1. 2..(m + 1) = (2..m) \cup {m + 1} /\ m + 1 \notin 2..m
    BY <1>4
  <2>2. \A i \in (2..m) \cup {m + 1} : g[i] \in Int
    <3> SUFFICES ASSUME NEW i \in (2..m) \cup {m + 1} PROVE g[i] \in Int
      OBVIOUS
    <3>1. i - 1 \in 1..n /\ (i - 1) + 1 = i
      BY <1>4
    <3> QED
      BY <3>1
  <2>3. IsFiniteSet(2..m)
    BY <1>4, FS_Interval
  <2>4. Sum(g, (2..m) \cup {m + 1}) = Sum(g, 2..m) + g[m + 1]
    <3> DEFINE z == m + 1
    <3>1. z \notin 2..m /\ \A i \in (2..m) \cup {z} : g[i] \in Int
      BY <2>1, <2>2
    <3> HIDE DEF z
    <3>2. Sum(g, (2..m) \cup {z}) = Sum(g, 2..m) + g[z]
      BY <2>3, <3>1, SumInsert
    <3> QED
      BY <3>2 DEF z
  <2> QED
    BY <2>1, <2>4
<1> QED
  BY <1>2, <1>4, <1>5, <1>6, <1>7

LEMMA SumOfTail ==
  ASSUME NEW w \in Seq(Nat), w # <<>>
  PROVE  WindowSum(Tail(w)) = WindowSum(w) - w[1] /\ w[1] \in Nat
<1> DEFINE n == Len(w) - 1
           v == Tail(w)
<1>1. n \in Nat /\ Len(w) = n + 1 /\ Len(v) = n
  BY HeadTailProperties, EmptySeq
<1>2. \A i \in 1..n : v[i] = w[i + 1] /\ w[i + 1] \in Int
  BY <1>1, HeadTailProperties
<1>3. w[1] \in Nat /\ \A i \in 1..(n + 1) : w[i] \in Int
  BY <1>1
<1> HIDE DEF n, v
<1>4. Sum(v, 1..n) = Sum(w, 2..(n + 1))
  <2>1. Shifted(v, w, n)
    BY <1>2 DEF Shifted
  <2>2. \A m \in 0..n : Sum(v, 1..m) = Sum(w, 2..(m + 1))
    BY <1>1, <2>1, SumShifted
  <2>3. n \in 0..n
    BY <1>1
  <2> QED
    BY <2>2, <2>3
<1>5. Sum(w, 1..(n + 1)) = w[1] + Sum(w, (1..(n + 1)) \ {1})
  <2>1. IsFiniteSet(1..(n + 1)) /\ 1 \in 1..(n + 1)
    BY <1>1, FS_Interval
  <2> QED
    BY <1>3, <2>1, SumRemove
<1>6. (1..(n + 1)) \ {1} = 2..(n + 1)
  BY <1>1
<1>7. Sum(w, 2..(n + 1)) \in Int
  <2>1. IsFiniteSet(2..(n + 1)) /\ \A i \in 2..(n + 1) : w[i] \in Int
    BY <1>1, <1>3, FS_Interval
  <2> QED
    BY <2>1, SumType
<1>8. WindowSum(w) = Sum(w, 1..(n + 1)) /\ WindowSum(v) = Sum(v, 1..n)
  BY <1>1 DEF WindowSum
<1>9. Sum(v, 1..n) = Sum(w, 1..(n + 1)) - w[1]
  <2> DEFINE rest == Sum(w, 2..(n + 1))
  <2>1. Sum(w, 1..(n + 1)) = w[1] + rest /\ rest \in Int /\ Sum(v, 1..n) = rest
    BY <1>4, <1>5, <1>6, <1>7
  <2> HIDE DEF rest
  <2> QED
    BY <1>3, <2>1
<1> QED
  BY <1>3, <1>8, <1>9 DEF v

LEMMA InitLimitInv == GuardsInit => LimitInv
  BY DEF GuardsInit, LimitInv, AloneIfNotOverlapped, RoomWhenAlone, UnderWay

\* What one request does to the stages of the others.
LEMMA AloneStep ==
  ASSUME GuardsInv, AloneIfNotOverlapped, [GuardsNext]_vars
  PROVE  AloneIfNotOverlapped'
<1> USE DEF GuardsInv, GuardsTypeOK, AloneIfNotOverlapped, Goto
<1>1. ASSUME NEW r \in Requests, NEW a \in Amounts, Authenticate(r, a)
      PROVE  AloneIfNotOverlapped'
  <2>1. /\ stage' = [stage EXCEPT ![r] = "asking"]
        /\ \A p \in Requests : p \notin overlapped' => p \notin overlapped
    BY <1>1 DEF Authenticate
  <2>2. \A q \in Requests : stage[q] \in UnderWay => q \in overlapped' /\ r \in overlapped'
    BY <1>1 DEF Authenticate
  <2> QED
    BY <2>1, <2>2
<1>2. ASSUME NEW r \in Requests, CheckLatest(r) \/ CheckLimit(r)
      PROVE  AloneIfNotOverlapped'
  <2>1. overlapped' = overlapped /\ stage[r] \in UnderWay
        /\ \A q \in Requests : q # r => stage'[q] = stage[q]
    BY <1>2 DEF CheckLatest, CheckLimit, UnderWay
  <2> QED
    BY <2>1
<1>3. ASSUME NEW r \in Requests, Refuse(r) \/ Settle(r)
      PROVE  AloneIfNotOverlapped'
  <2>1. /\ overlapped' = overlapped \ {r} /\ stage'[r] \notin UnderWay
        /\ \A q \in Requests : q # r => stage'[q] = stage[q]
    BY <1>3 DEF Refuse, Settle, Close, UnderWay
  <2> QED
    BY <2>1
<1>4. CASE Age \/ Review \/ UNCHANGED vars
  BY <1>4 DEF Age, Review, vars, spending
<1> QED
  BY <1>1, <1>2, <1>3, <1>4 DEF GuardsNext

\* The window holds less than it did, or the debit of one request more.
LEMMA WindowStep ==
  ASSUME GuardsInv, [GuardsNext]_vars
  PROVE  /\ Spent \in Int /\ Spent' \in Int
         /\ \/ Spent' <= Spent
            \/ \E r \in Requests : Settle(r) /\ Spent' = Spent + amount[r]
<1>1. GuardsTypeOK /\ GuardsTypeOK'
  BY GuardsStep DEF GuardsInv
<1>2. Spent = WindowSum(window) /\ Spent' = WindowSum(window')
  BY <1>1, SpentIsSum DEF GuardsTypeOK
<1>3. window \in Seq(Nat) /\ window' \in Seq(Nat)
  BY <1>1 DEF GuardsTypeOK
<1>4. WindowSum(window) \in Int /\ WindowSum(window') \in Int
  BY <1>3, WindowSumType
<1>5. CASE window' = window
  BY <1>2, <1>4, <1>5
<1>6. CASE Age
  BY <1>2, <1>3, <1>4, <1>6, SumOfTail DEF Age
<1>7. ASSUME NEW r \in Requests, Settle(r), window' # window
      PROVE  Spent' = Spent + amount[r]
  <2>1. window' = Append(window, amount[r]) /\ amount[r] \in Nat
    BY <1>1, <1>7 DEF Settle, GuardsTypeOK
  <2> QED
    BY <1>2, <1>3, <2>1, SumAppended
<1> QED
  BY <1>2, <1>4, <1>5, <1>6, <1>7
     DEF GuardsNext, Authenticate, CheckLatest, CheckLimit, Refuse, Review, vars, spending

\* The room a request was found to have is there until it is settled.
LEMMA RoomStep ==
  ASSUME GuardsInv, LimitInv, [GuardsNext]_vars
  PROVE  RoomWhenAlone'
<1> SUFFICES ASSUME NEW q \in Requests, stage'[q] = "open", q \notin overlapped',
                    amount'[q] > 0
             PROVE  Spent' + amount'[q] <= Limit[seenLevel'[q]]
  BY DEF RoomWhenAlone
<1>1. /\ Spent \in Int /\ Spent' \in Int
      /\ Spent' <= Spent \/ \E r \in Requests : Settle(r) /\ Spent' = Spent + amount[r]
  BY WindowStep
<1>2. amount[q] \in Nat /\ Limit[seenLevel[q]] \in Nat
  BY GuardsAssumption DEF GuardsInv, GuardsTypeOK
<1>3. CASE CheckLimit(q)
  <2>1. /\ Spent + amount[q] <= Limit[seenLevel[q]] /\ amount'[q] = amount[q]
        /\ seenLevel'[q] = seenLevel[q] /\ window' = window
    BY <1>3 DEF CheckLimit, Fits
  <2>2. Spent' = Spent
    BY <2>1, SpentIsSum DEF GuardsInv, GuardsTypeOK
  <2> QED
    BY <1>1, <1>2, <2>1, <2>2
<1>4. CASE ~CheckLimit(q)
  <2>1. /\ stage[q] = "open" /\ q \notin overlapped
        /\ amount'[q] = amount[q] /\ seenLevel'[q] = seenLevel[q]
    BY <1>4 DEF GuardsNext, Authenticate, CheckLatest, CheckLimit, Refuse, Settle, Close, Goto,
                Age, Review, vars, spending, GuardsInv, GuardsTypeOK, UnderWay
  <2>2. Spent + amount[q] <= Limit[seenLevel[q]]
    BY <2>1 DEF LimitInv, RoomWhenAlone
  <2>3. ~ \E r \in Requests : Settle(r)
    <3> SUFFICES ASSUME NEW r \in Requests, Settle(r) PROVE FALSE
      OBVIOUS
    <3>1. stage[r] = "open" /\ stage'[r] = "settled"
      BY DEF Settle, Close, Goto, GuardsInv, GuardsTypeOK
    <3> QED
      BY <2>1, <3>1 DEF LimitInv, AloneIfNotOverlapped, UnderWay
  <2> QED
    BY <1>1, <1>2, <2>1, <2>2, <2>3
<1> QED
  BY <1>3, <1>4

\* check_kyc: a request that was under way alone, from its authentication to
\* its debit, leaves the window within the limit of the level that its user
\* had at the authentication.
THEOREM AloneStaysWithin == GuardsSpec => AloneWithinLimit
<1>1. GuardsInit => LimitInv
  BY InitLimitInv
<1>2. GuardsInv /\ LimitInv /\ [GuardsNext]_vars => LimitInv'
  BY AloneStep, RoomStep DEF LimitInv
<1>3. GuardsInv /\ LimitInv /\ [GuardsNext]_vars =>
        [\A r \in Requests :
           Settles(r) /\ amount[r] > 0 /\ r \notin overlapped
             => Spent' <= Limit[seenLevel[r]]]_vars
  <2> SUFFICES ASSUME GuardsInv, LimitInv, [GuardsNext]_vars,
                      NEW r \in Requests, Settles(r), amount[r] > 0, r \notin overlapped
               PROVE  Spent' <= Limit[seenLevel[r]]
    OBVIOUS
  <2>1. Spent + amount[r] <= Limit[seenLevel[r]]
    BY DEF LimitInv, RoomWhenAlone, Settles
  <2>2. \A p \in Requests : Settle(p) => p = r
    <3> SUFFICES ASSUME NEW p \in Requests, Settle(p) PROVE p = r
      OBVIOUS
    <3>1. stage[p] = "open"
      BY DEF Settle
    <3> QED
      BY <3>1 DEF LimitInv, AloneIfNotOverlapped, UnderWay, Settles
  <2>3. /\ Spent \in Int /\ Spent' \in Int
        /\ Spent' <= Spent \/ \E p \in Requests : Settle(p) /\ Spent' = Spent + amount[p]
    BY WindowStep
  <2>4. amount[r] \in Nat /\ Limit[seenLevel[r]] \in Nat
    BY GuardsAssumption DEF GuardsInv, GuardsTypeOK
  <2> QED
    BY <2>1, <2>2, <2>3, <2>4
<1> QED
  BY <1>1, <1>2, <1>3, GuardsInvariance, PTL DEF GuardsSpec, AloneWithinLimit
=============================================================================
