----------------------------- MODULE MCRowLocks -----------------------------
(***************************************************************************)
(* Values for the constants of RowLocks: transfers in both directions and  *)
(* payments on either wallet; the key t1 is sent twice, in two directions. *)
(***************************************************************************)
EXTENDS RowLocks, TLC

Workers == Permutations(Web)

Call(k, kind, w, v) ==
  [key |-> k, kind |-> kind, wallet |-> w, peer |-> v, amount |-> 1]

TwoWallets == {1, 2}
LockKeys == {"k1", "t1", "t2"}
LockCalls == {Call("k1", "withdraw", 1, 1), Call("k1", "topup", 2, 2),
              Call("t1", "p2p", 1, 2), Call("t1", "p2p", 2, 1),
              Call("t2", "p2p", 2, 1)}
NothingYet == [w \in TwoWallets |-> 0]
=============================================================================
