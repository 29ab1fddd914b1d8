-------------------------------- MODULE Otp --------------------------------
(***************************************************************************)
(* One-time codes, apps/otp/service.py: send_otp and verify_otp as the web *)
(* workers run them against the three Redis keys of one user and purpose.  *)
(* No command touches the keys of two pairs, so one pair stands for all.   *)
(*                                                                         *)
(* One action is one Redis command, or one MULTI/EXEC pipeline: Redis runs *)
(* those one after the other, and nothing else makes the functions atomic. *)
(***************************************************************************)
EXTENDS Integers, FiniteSets

CONSTANTS
  Web,          \* gunicorn workers
  Codes,        \* what a user may type, and send_otp may draw
  NoCode,       \* the key otp:{user}:{purpose} does not exist
  MaxAttempts,  \* OTP_MAX_ATTEMPTS
  MaxIssues,    \* bound on the codes sent
  MaxCrashes    \* bound on the handlers that die between two commands

ASSUME OtpAssumption ==
  /\ IsFiniteSet(Web)
  /\ NoCode \notin Codes
  /\ MaxAttempts \in Nat \ {0}
  /\ MaxIssues \in Nat
  /\ MaxCrashes \in Nat

Issues == 1..MaxIssues

VARIABLES
  stored,    \* the code whose hash the key holds
  attempts,  \* otp:...:attempts, 0 when the key does not exist
  locked,    \* whether otp:...:lock exists
  pc,        \* where each worker stands
  typed,     \* the code its caller submitted
  seen,      \* the issue of the code it read and compared
  issue,     \* the number of codes sent; the stored one was the last
  dead,      \* the issues used up, locked out, expired or replaced
  known,     \* per worker: those dead before it began
  tries,     \* per issue: how often a submitted code was compared with it
  accepted,  \* per issue: how many verifications it let through
  crashes

redis == <<stored, attempts, locked>>
workers == <<pc, typed, seen, known>>
history == <<issue, dead, tries, accepted>>
vars == <<redis, workers, history, crashes>>

TypeOK ==
  /\ stored \in Codes \cup {NoCode}
  /\ attempts \in Nat
  /\ locked \in BOOLEAN
  /\ pc \in [Web -> {"idle", "get", "delete", "count", "lockout", "store"}]
  /\ typed \in [Web -> Codes \cup {NoCode}]
  /\ seen \in [Web -> Issues \cup {0}]
  /\ issue \in Issues \cup {0}
  /\ dead \subseteq Issues
  /\ known \in [Web -> SUBSET Issues]
  /\ tries \in [Issues -> Nat]
  /\ accepted \in [Issues -> Nat]
  /\ crashes \in Nat

Init ==
  /\ stored = NoCode
  /\ attempts = 0
  /\ locked = FALSE
  /\ pc = [p \in Web |-> "idle"]
  /\ typed = [p \in Web |-> NoCode]
  /\ seen = [p \in Web |-> 0]
  /\ issue = 0
  /\ dead = {}
  /\ known = [p \in Web |-> {}]
  /\ tries = [i \in Issues |-> 0]
  /\ accepted = [i \in Issues |-> 0]
  /\ crashes = 0

-----------------------------------------------------------------------------
Goto(p, label) == pc' = [pc EXCEPT ![p] = label]

\* The function returns or raises.
Leave(p) ==
  /\ Goto(p, "idle")
  /\ typed' = [typed EXCEPT ![p] = NoCode]
  /\ seen' = [seen EXCEPT ![p] = 0]
  /\ known' = [known EXCEPT ![p] = {}]

\* The live code, if there is one, will never be stored again.
Live == IF stored = NoCode THEN {} ELSE {issue}

Storing == {p \in Web : pc[p] = "store"}

(***************************************************************************)
(* send_otp: refused while locked; then one pipeline stores the new code   *)
(* over the old one and forgets the attempts.                              *)
(***************************************************************************)
Send(p) ==
  /\ pc[p] = "idle"
  /\ issue + Cardinality(Storing) < MaxIssues
  /\ ~locked
  /\ Goto(p, "store")
  /\ UNCHANGED <<redis, typed, seen, known, history, crashes>>

Store(p) ==
  /\ pc[p] = "store"
  /\ \E c \in Codes : stored' = c
  /\ attempts' = 0
  /\ issue' = issue + 1
  /\ dead' = dead \cup Live
  /\ Leave(p)
  /\ UNCHANGED <<locked, tries, accepted, crashes>>

(***************************************************************************)
(* verify_otp: the lock, then the stored hash, then what follows from the  *)
(* comparison, each on its own.                                            *)
(***************************************************************************)
Verify(p, c) ==
  /\ pc[p] = "idle"
  /\ ~locked
  /\ Goto(p, "get")
  /\ typed' = [typed EXCEPT ![p] = c]
  /\ known' = [known EXCEPT ![p] = dead]
  /\ UNCHANGED <<redis, seen, history, crashes>>

Get(p) ==
  /\ pc[p] = "get"
  /\ \/ /\ stored = NoCode
        /\ Leave(p)
        /\ UNCHANGED tries
     \/ /\ stored # NoCode
        /\ seen' = [seen EXCEPT ![p] = issue]
        /\ tries' = [tries EXCEPT ![issue] = @ + 1]
        /\ Goto(p, IF typed[p] = stored THEN "delete" ELSE "count")
        /\ UNCHANGED <<typed, known>>
  /\ UNCHANGED <<redis, issue, dead, accepted, crashes>>

\* A success that leaves the key where it is.
DeleteNothing(p) ==
  /\ pc[p] = "delete"
  /\ accepted' = [accepted EXCEPT ![seen[p]] = @ + 1]
  /\ dead' = dead \cup {seen[p]}
  /\ Leave(p)
  /\ UNCHANGED <<redis, issue, tries, crashes>>

\* It deletes the key, whichever code that holds by now.
Delete(p) ==
  /\ pc[p] = "delete"
  /\ stored' = NoCode
  /\ attempts' = 0
  /\ accepted' = [accepted EXCEPT ![seen[p]] = @ + 1]
  /\ dead' = dead \cup Live \cup {seen[p]}
  /\ Leave(p)
  /\ UNCHANGED <<locked, issue, tries, crashes>>

\* The number of attempts compared before it is incremented.
TooManyBefore(n) == n > MaxAttempts

TooMany(n) == n >= MaxAttempts

\* The attempts left are kept instead of the attempts made.
CountDown(p) ==
  /\ pc[p] = "count"
  /\ attempts' = attempts - 1
  /\ Leave(p)
  /\ UNCHANGED <<stored, locked, history, crashes>>

\* incr, and expire: the counter outlives the code it counts for.
Count(p) ==
  /\ pc[p] = "count"
  /\ attempts' = attempts + 1
  /\ IF TooMany(attempts + 1)
       THEN Goto(p, "lockout") /\ UNCHANGED <<typed, seen, known>>
       ELSE Leave(p)
  /\ UNCHANGED <<stored, locked, history, crashes>>

Lockout(p) ==
  /\ pc[p] = "lockout"
  /\ locked' = TRUE
  /\ stored' = NoCode
  /\ attempts' = 0
  /\ dead' = dead \cup Live
  /\ Leave(p)
  /\ UNCHANGED <<issue, tries, accepted, crashes>>

(***************************************************************************)
(* The expiry of the keys.  A code lives for 90 s; the counter for 90 s    *)
(* from the last wrong attempt, so longer than the code; the lock for      *)
(* 600 s, so longer than any code stored before or while it was set.       *)
(***************************************************************************)
ExpireCode ==
  /\ stored # NoCode
  /\ stored' = NoCode
  /\ dead' = dead \cup Live
  /\ UNCHANGED <<attempts, locked, workers, issue, tries, accepted, crashes>>

\* A counter that does not outlive the code it counts for.
ExpireAttemptsEarly ==
  /\ attempts > 0
  /\ attempts' = 0
  /\ UNCHANGED <<stored, locked, workers, history, crashes>>

ExpireAttempts ==
  /\ attempts > 0
  /\ stored = NoCode
  /\ attempts' = 0
  /\ UNCHANGED <<stored, locked, workers, history, crashes>>

ExpireLock ==
  /\ locked
  /\ stored = NoCode
  /\ locked' = FALSE
  /\ UNCHANGED <<stored, attempts, workers, history, crashes>>

Crash(p) ==
  /\ pc[p] # "idle"
  /\ crashes < MaxCrashes
  /\ crashes' = crashes + 1
  /\ Leave(p)
  /\ UNCHANGED <<redis, history>>

Next ==
  \/ \E p \in Web :
       \/ Send(p) \/ Store(p)
       \/ \E c \in Codes : Verify(p, c)
       \/ Get(p) \/ Delete(p) \/ Count(p) \/ Lockout(p) \/ Crash(p)
  \/ ExpireCode \/ ExpireAttempts \/ ExpireLock

Spec == Init /\ [][Next]_vars

-----------------------------------------------------------------------------
\* "Single-use verify: the key is deleted on first success": one code lets
\* one confirmation through.  It does not when a second verification reads
\* the hash before the first has deleted it.
SingleUse == \A i \in Issues : accepted[i] <= 1

\* What does hold: a code that was used, locked out, expired or replaced is
\* of no use to any verification that begins afterwards.
DeadStaysDead == \A p \in Web : pc[p] = "delete" => seen[p] \notin known[p]

\* Past the comparison with issue i: about to delete it, or to count.
Comparing(i) == {p \in Web : pc[p] \in {"delete", "count"} /\ seen[p] = i}
LockingOut == {p \in Web : pc[p] = "lockout"}

\* No code is ever compared more often than the attempts allowed, once more
\* for each other worker already past the lock check when the last of them
\* was counted, and once more for each that died before it counted.
TriesBounded ==
  \A i \in Issues : tries[i] < MaxAttempts + Cardinality(Web) + crashes

\* Why: every try of the live code has been counted, is being counted, or
\* its worker died; and the allowed number counted, somebody is locking out.
TriesCounted ==
  stored # NoCode =>
    LET under_way == Cardinality(Comparing(issue)) + crashes IN
    /\ tries[issue] <= attempts + under_way
    /\ tries[issue] < MaxAttempts + Cardinality(LockingOut) + under_way

\* What a worker has read was the live code or is dead, and a number not yet
\* given to a code has no history.
IssuesInOrder ==
  /\ \A i \in Issues : i > issue => tries[i] = 0 /\ i \notin dead
  /\ \A i \in 1..issue : i \in dead \/ (i = issue /\ stored # NoCode)
  /\ stored # NoCode => issue > 0 /\ issue \notin dead
  /\ \A p \in Web : pc[p] \in {"delete", "count"} => seen[p] \in 1..issue
  /\ \A p \in Web : known[p] \subseteq dead
  /\ issue + Cardinality(Storing) <= MaxIssues

\* The inductive invariant; OtpProofs proves it.
OtpInv ==
  TypeOK /\ IssuesInOrder /\ DeadStaysDead /\ TriesCounted /\ TriesBounded
=============================================================================
