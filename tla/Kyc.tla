-------------------------------- MODULE Kyc --------------------------------
(***************************************************************************)
(* Identity verification, apps/kyc: the applications of one user, his      *)
(* level, and the handlers that submit, approve and reject.                *)
(*                                                                         *)
(* None of them locks anything.  A submission looks for a pending          *)
(* application in one statement and inserts in another; a review loads the *)
(* row, and approve and reject then trust the status in memory, so a       *)
(* handler is what it has read until it writes.                            *)
(***************************************************************************)
EXTENDS Integers, FiniteSets

CONSTANTS
  Web,      \* the gunicorn workers, which serve users and reviewers alike
  MaxApps   \* bound on the applications of the user

ASSUME KycAssumption == MaxApps \in Nat

\* Numbered as they were created, which is how Meta.ordering finds the latest.
Apps == 1..MaxApps

Requestable == {"basic", "full"}
Levels == {"unverified"} \cup Requestable

Decided == {"approved", "rejected"}

\* What a worker is at: nothing, an insert, the review of an application whose
\* status it has read, or the user admin's form with the level it shows.
Idle == [do |-> "nothing"]
Submission == [do |-> "submit"]
Reviews == [do : {"approve", "reject"}, app : Apps, read : {"pending"} \cup Decided]
Forms == [do : {"form"}, shows : Levels]

VARIABLES
  status,  \* per application
  wants,   \* its requested_level
  level,   \* user.kyc_level
  job,     \* per worker
  raced    \* history: applications two reviews had loaded at once

kyc == <<status, wants, level, job, raced>>

TypeOK ==
  /\ status \in [Apps -> {"none", "pending"} \cup Decided]
  /\ wants \in [Apps -> Levels]
  /\ \A a \in Apps : wants[a] \in Requestable <=> status[a] # "none"
  /\ level \in Levels
  /\ job \in [Web -> {Idle, Submission} \cup Reviews \cup Forms]
  /\ raced \subseteq Apps

Init ==
  /\ status = [a \in Apps |-> "none"]
  /\ wants = [a \in Apps |-> "unverified"]
  /\ level = "unverified"
  /\ job = [p \in Web |-> Idle]
  /\ raced = {}

Submitted == {a \in Apps : status[a] # "none"}
Submitting == {p \in Web : job[p] = Submission}
Reviewing(a) == {p \in Web : job[p] \in Reviews /\ job[p].app = a}

-----------------------------------------------------------------------------
\* KYCSubmitView: first the look for a pending application, ...
Submit(p) ==
  /\ job[p] = Idle
  /\ Cardinality(Submitted) + Cardinality(Submitting) < MaxApps
  /\ \A a \in Apps : status[a] # "pending"
  /\ job' = [job EXCEPT ![p] = Submission]
  /\ UNCHANGED <<status, wants, level, raced>>

\* KYCSubmitSerializer with every level for a choice.
AnyLevel == Levels

\* KYCSubmitSerializer.requested_level
Offered == Requestable

\* ... then the insert, a transaction of its own.
Create(p) ==
  /\ job[p] = Submission
  /\ \E l \in Offered :
       LET a == Cardinality(Submitted) + 1 IN
       /\ status' = [status EXCEPT ![a] = "pending"]
       /\ wants' = [wants EXCEPT ![a] = l]
  /\ job' = [job EXCEPT ![p] = Idle]
  /\ UNCHANGED <<level, raced>>

\* get_object_or_404, or the queryset of an admin action: the row as it is.
Load(p, a, what) ==
  /\ job[p] = Idle
  /\ a \in Submitted
  /\ job' = [job EXCEPT ![p] = [do |-> what, app |-> a, read |-> status[a]]]
  /\ raced' = IF Reviewing(a) = {} THEN raced ELSE raced \cup {a}
  /\ UNCHANGED <<status, wants, level>>

\* Every review is let through, whatever the status it has read.
AnyReview(from) == Decided

\* KYCApplication.ALLOWED
MayBecome(from) == IF from = "pending" THEN Decided ELSE {}

\* transition_to: checked in memory, and the UPDATE names the row by its id.
Transition(p, to) ==
  /\ to \in MayBecome(job[p].read)
  /\ status' = [status EXCEPT ![job[p].app] = to]

\* The level granted although the transition is refused.
ApproveLevelFirst(p) ==
  /\ job[p] \in Reviews /\ job[p].do = "approve"
  /\ Transition(p, "approved") \/ UNCHANGED status
  /\ level' = wants[job[p].app]
  /\ job' = [job EXCEPT ![p] = Idle]
  /\ UNCHANGED <<wants, raced>>

\* approve and reject, each in a transaction.
Approve(p) ==
  /\ job[p] \in Reviews /\ job[p].do = "approve"
  /\ Transition(p, "approved")
  /\ level' = wants[job[p].app]
  /\ job' = [job EXCEPT ![p] = Idle]
  /\ UNCHANGED <<wants, raced>>

Reject(p) ==
  /\ job[p] \in Reviews /\ job[p].do = "reject"
  /\ Transition(p, "rejected")
  /\ job' = [job EXCEPT ![p] = Idle]
  /\ UNCHANGED <<wants, level, raced>>

\* HamyonUserAdmin: the form of a user holds all his fields when it is opened,
\* and all are written when it is saved.  The reviewer leaves the level alone.
OpenForm(p) ==
  /\ job[p] = Idle
  /\ job' = [job EXCEPT ![p] = [do |-> "form", shows |-> level]]
  /\ UNCHANGED <<status, wants, level, raced>>

SaveForm(p) ==
  /\ job[p] \in Forms
  /\ level' = job[p].shows
  /\ job' = [job EXCEPT ![p] = Idle]
  /\ UNCHANGED <<status, wants, raced>>

\* InvalidTransition, or the worker is killed before its commit.
GiveUp(p) ==
  /\ job[p] # Idle
  /\ job' = [job EXCEPT ![p] = Idle]
  /\ UNCHANGED <<status, wants, level, raced>>

Next ==
  \E p \in Web :
    \/ Submit(p) \/ Create(p)
    \/ \E a \in Apps, what \in {"approve", "reject"} : Load(p, a, what)
    \/ Approve(p) \/ Reject(p) \/ GiveUp(p)
    \/ OpenForm(p) \/ SaveForm(p)

Spec == Init /\ [][Next]_kyc

-----------------------------------------------------------------------------
\* "Illegal transitions raise, never pass silently" (README).  Two reviews that
\* loaded one pending application both go through, and the second overturns
\* the first; but only a review that had the row in memory when another did,
\* too, can overturn a decision.
OverturnedByRace ==
  [][\A a \in Apps :
       status[a] \in Decided /\ status'[a] # status[a] => a \in raced]_kyc

\* The level of a user is one that a reviewer approved, and the application
\* still says so unless two reviews raced for it.
LevelIsApproved ==
  level # "unverified" =>
    \E a \in Apps : wants[a] = level /\ (status[a] = "approved" \/ a \in raced)
=============================================================================
