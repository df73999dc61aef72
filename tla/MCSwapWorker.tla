---------------------------- MODULE MCSwapWorker ----------------------------
(* Small instances of SwapWorker for TLC. *)
EXTENDS SwapWorker

CONSTANTS alice, t1, a1, a2, n1, n2, k1, k2, w1

Make(kind, amount, account, receiver, expiry) ==
  [kind |-> kind, token |-> t1, requester |-> alice, amount |-> amount,
   account |-> account, receiver |-> receiver, nonce |-> 1, expiry |-> expiry]

Deposit1 == Make("deposit", 10, a1, None, 0)
Transfer1 == Make("transfer", 10, a1, a2, 1)
Withdrawal1 == Make("withdrawal", 5, a1, None, 1)
Opening1 == Make("opening", 0, a1, None, 1)

\* A deposit, and two debits for which it is not enough.
Movements == {Deposit1, Transfer1, Withdrawal1}
\* With an opening, which has no balance to show before the deposit, and a
\* deposit above the largest amount the daemon reads.
TooLarge == [Deposit1 EXCEPT !.amount = 101, !.account = a2, !.nonce = 2]
Openings == {Deposit1, TooLarge, Opening1}

NoVouchers == {}
WithdrawalIds == TasksOf("withdrawal")
Enabled == {[enabled |-> TRUE, minimumDeposit |-> 1, withdrawalFeeBps |-> 0]}
AllRoots == Seq([account : Commitments, amount : Nat, version : Nat])
NoRoot == <<>>
OverlappingMembers == [k \in CommitteeIds |-> IF k = k1 THEN {n1} ELSE {n1, n2}]
AllMembers == [k \in CommitteeIds |-> Cardinality(OverlappingMembers[k])]
=============================================================================
