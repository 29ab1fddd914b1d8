------------------------------ MODULE MCGuards ------------------------------
(***************************************************************************)
(* Values for the constants of Guards: two spends fit the lowest limit one *)
(* at a time, and a higher one together.                                   *)
(***************************************************************************)
EXTENDS Guards, TLC

Interchangeable == Permutations(Web) \cup Permutations(Requests)

Limits == ("unverified" :> 3 @@ "basic" :> 4 @@ "full" :> 4)
=============================================================================
