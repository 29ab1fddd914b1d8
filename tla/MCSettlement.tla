---------------------------- MODULE MCSettlement ----------------------------
(***************************************************************************)
(* Values for the constants of Settlement.                                 *)
(***************************************************************************)
EXTENDS Settlement, TLC

\* Processes are interchangeable model values; wallets are not, the code
\* orders them.
Workers == Permutations(Web)

Call(k, kind, w, v, amount) ==
  [key |-> k, kind |-> kind, wallet |-> w, peer |-> v, amount |-> amount]

OneWallet == {1}
TwoWallets == {1, 2}

PayKeys == {"k1", "k2"}
XferKeys == {"t1", "t2"}
AllKeys == PayKeys \cup XferKeys

\* The first wallet pays for one of k1, k2, t1 at a time, or for two after the
\* top-up; the second can only pay t2 in full once it has received t1.
Balances == (1 :> 3 @@ 2 :> 1)
PayOpening == (1 :> 3)

PayCalls == {Call("k1", "withdraw", 1, 1, 2),
             Call("k2", "withdraw", 1, 1, 2), Call("k2", "topup", 1, 1, 2)}
XferCalls == {Call("t1", "p2p", 1, 2, 2),
              Call("t2", "p2p", 2, 1, 3), Call("t2", "p2p", 2, 1, 1)}
AllCalls == PayCalls \cup XferCalls

\* For the run about liveness, whose cost grows with the fairness of each key.
ClosingKeys == {"k1"} \cup XferKeys
ClosingCalls == {Call("k1", "withdraw", 1, 1, 2),
                 Call("t1", "p2p", 1, 2, 2), Call("t2", "p2p", 2, 1, 1)}

\* The requests that exist, or that somebody is about to make.
InUse == {k \in Keys : status[k] # "absent"}
           \cup {job[p].key : p \in {q \in Procs : pc[q] # "idle"}}

\* No more than two requests in one behaviour.
TwoRequests == Cardinality(InUse) <= 2

\* A withdrawal against a transfer, or two opposite transfers.  Only calls of
\* users, which are not fair, are cut off.
OnePair == InUse \subseteq {"k1", "t1"} \/ InUse \subseteq XferKeys
=============================================================================
