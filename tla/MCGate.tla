------------------------------- MODULE MCGate -------------------------------
(***************************************************************************)
(* Values for the constants of Gate: two payers and one code.              *)
(***************************************************************************)
EXTENDS Gate, TLC

Interchangeable ==
  Permutations(Web) \cup Permutations(Admins) \cup Permutations(Payers)

Busy == {w \in Web : job[w] # Idle}

\* What two admins do to one row, what two blocks do to one call, and what
\* two calls do to one code.
SmallCases ==
  /\ Cardinality(rows) + Cardinality(Busy) <= 3
  /\ blocks = 2 => Cardinality(Busy) <= 1 /\ Cardinality(rows) <= 1
  /\ (\A a \in Admins : task[a] # NoTask) \/ raced # {} => Busy = {} /\ rows = {}
=============================================================================
