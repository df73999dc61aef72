----------------------------- MODULE MCTokenSwap -----------------------------
(* Small instances of TokenSwap for TLC. *)
EXTENDS TokenSwap

CONSTANTS alice, bob, t1, a1, a2, n1, n2, k1, k2, z1, z2

Make(kind, requester, amount, account, receiver, nonce, expiry) ==
  [kind |-> kind, token |-> t1, requester |-> requester, amount |-> amount,
   account |-> account, receiver |-> receiver, nonce |-> nonce, expiry |-> expiry]

Deposit1 == Make("deposit", alice, 10, a1, None, 1, 0)
Withdrawal1 == Make("withdrawal", alice, 10, a1, None, 1, 1)
Transfer1 == Make("transfer", bob, 20, a1, a2, 1, 1)
Opening1 == Make("opening", alice, 0, a1, None, 1, 1)

\* Two users want one account: the one deposits, withdraws and opens it, the
\* other registers it and pays out of it.
SharedAccount == {Deposit1, Withdrawal1, Transfer1, Opening1}

\* A nullifier the committee signs for an amount below that of every task; the
\* contract refuses to pay nothing.
VouchersOfOne ==
  {[amount |-> n, expiry |-> 1, token |-> t1, nullifier |-> z1] : n \in {0, 5}}

\* Enabled with a fee of a tenth, and disabled without one.
OnOff == {[enabled |-> on, minimumDeposit |-> 1,
           withdrawalFeeBps |-> IF on THEN 1000 ELSE 0] : on \in BOOLEAN}

OverlappingMembers == [k \in CommitteeIds |-> IF k = k1 THEN {n1} ELSE {n1, n2}]
AllMembers == [k \in CommitteeIds |-> Cardinality(OverlappingMembers[k])]
=============================================================================
