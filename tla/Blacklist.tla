----------------------------- MODULE Blacklist -----------------------------
(***************************************************************************)
(* apps/blacklist: blocks of users and wallets, and the admins who place   *)
(* and lift them.  A row is one block and its own audit record; rows are   *)
(* never deleted.  A block is one insert.  Lifting one loads the row       *)
(* without a lock and trusts is_active in memory; the form of the admin    *)
(* site loads it, too, and writes every field back.                        *)
(*                                                                         *)
(* Wherever a user is looked up, so is the phone: one target stands for    *)
(* both.                                                                   *)
(***************************************************************************)
EXTENDS Integers

CONSTANTS
  Admins,
  Parties,    \* users, each with one wallet
  MaxBlocks,  \* bound on the rows
  Nobody      \* unblocked_by of an active row

ASSUME BlacklistAssumption == MaxBlocks \in Nat /\ Nobody \notin Admins

Entries == 1..MaxBlocks

Targets == {"user", "wallet"} \X Parties
NoTarget == <<"none">>

VARIABLES
  blocks,    \* how many rows there are
  target,    \* per row
  liftedBy,  \* per row: unblocked_by, with unblocked_at and the reason
  task,      \* per admin: the row it has loaded, and who had lifted it
  raced      \* history: rows two admins had loaded at once

blacklist == <<blocks, target, liftedBy, task, raced>>

NoTask == [entry |-> 0, by |-> Nobody]

BlacklistTypeOK ==
  /\ blocks \in 0..MaxBlocks
  /\ target \in [Entries -> Targets \cup {NoTarget}]
  /\ liftedBy \in [Entries -> Admins \cup {Nobody}]
  /\ task \in [Admins -> [entry : 0..blocks, by : Admins \cup {Nobody}]]
  /\ raced \subseteq 1..blocks

BlacklistInit ==
  /\ blocks = 0
  /\ target = [e \in Entries |-> NoTarget]
  /\ liftedBy = [e \in Entries |-> Nobody]
  /\ task = [a \in Admins |-> NoTask]
  /\ raced = {}

Active == {e \in 1..blocks : liftedBy[e] = Nobody}

\* is_blocked, for a set of identities.
IsBlocked(ids) == \E e \in Active : target[e] \in ids

-----------------------------------------------------------------------------
\* block, by BlockView.
Block(t) ==
  /\ blocks < MaxBlocks
  /\ blocks' = blocks + 1
  /\ target' = [target EXCEPT ![blocks + 1] = t]
  /\ UNCHANGED <<liftedBy, task, raced>>

\* UnblockView: get_object_or_404; or BlacklistEntryAdmin shows the form.
Load(a, e) ==
  /\ task[a] = NoTask
  /\ e \in 1..blocks
  /\ task' = [task EXCEPT ![a] = [entry |-> e, by |-> liftedBy[e]]]
  /\ raced' = IF \E b \in Admins : task[b].entry = e THEN raced \cup {e} ELSE raced
  /\ UNCHANGED <<blocks, target, liftedBy>>

\* Whatever the row said.
MayAlways(a) == task[a] # NoTask

\* "if not entry.is_active: raise", of the row in memory.
MayLift(a) == task[a] # NoTask /\ task[a].by = Nobody

\* unblock: the update names the row by its id.
Unblock(a) ==
  /\ MayLift(a)
  /\ liftedBy' = [liftedBy EXCEPT ![task[a].entry] = a]
  /\ task' = [task EXCEPT ![a] = NoTask]
  /\ UNCHANGED <<blocks, target, raced>>

\* The form is saved as it was opened, but for the wording of the reason.
SaveForm(a) ==
  /\ task[a] # NoTask
  /\ liftedBy' = [liftedBy EXCEPT ![task[a].entry] = task[a].by]
  /\ task' = [task EXCEPT ![a] = NoTask]
  /\ UNCHANGED <<blocks, target, raced>>

\* ValueError, or the worker dies.
GiveUp(a) ==
  /\ task[a] # NoTask
  /\ task' = [task EXCEPT ![a] = NoTask]
  /\ UNCHANGED <<blocks, target, liftedBy, raced>>

BlacklistNext ==
  \/ \E t \in Targets : Block(t)
  \/ \E a \in Admins :
       \/ \E e \in Entries : Load(a, e)
       \/ Unblock(a) \/ SaveForm(a) \/ GiveUp(a)

-----------------------------------------------------------------------------
\* "The row itself is the audit record": who lifted a block, and why, is
\* overwritten or erased only by an admin who had loaded the row while another
\* had.
AuditKept ==
  [][\A e \in Entries :
       liftedBy[e] \notin {Nobody, liftedBy'[e]} => e \in raced]_blacklist
=============================================================================
