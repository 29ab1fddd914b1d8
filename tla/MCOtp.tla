------------------------------- MODULE MCOtp -------------------------------
(***************************************************************************)
(* Values for the constants of Otp: two codes are enough for a right and a *)
(* wrong one, and a redrawn code may equal an earlier one.                 *)
(***************************************************************************)
EXTENDS Otp, TLC

Workers == Permutations(Web)
=============================================================================
