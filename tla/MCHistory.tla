----------------------------- MODULE MCHistory -----------------------------
(***************************************************************************)
(* Values for the constants of History: four entries and two ticks, so     *)
(* that timestamps tie within a page and across its end.                   *)
(***************************************************************************)
EXTENDS History

AnyEntry == [type |-> "any", from |-> 0, to |-> MaxNow, status |-> "any"]

Filters == {AnyEntry,
            [AnyEntry EXCEPT !.status = "pending"],
            [AnyEntry EXCEPT !.type = "hold", !.status = "released", !.from = 1]}

Sizes == {0, 5}

\* A debit is read like a credit, a walk and an export do not touch each other,
\* and what is posted after the walk has nobody to see it.
OneReader ==
  /\ walk = "done" => posted = {} /\ sweeping = {}
  /\ \A i \in Ids : type[i] # "debit"
  /\ walk = "new" \/ export = "none"
  /\ export # "none" => Cardinality(posted \cup sweeping \cup committed) < 4
=============================================================================
