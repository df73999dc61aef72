-------------------------- MODULE MCPrivateBalance --------------------------
(* Small instances of PrivateBalance for TLC. *)
EXTENDS PrivateBalance, TLC

CONSTANTS app, user, friend, rt, c1, k1, ver1, n1, n2,
          vSender, vReceiver, vMinimum, vAmount, i1, i2, i3, i4, o1, o2, o3, o4

OwnedByApp == [c \in ContractIds |-> app]
OneCommittee == [w \in Verifiers |-> {[id |-> k1, epoch |-> 1, members |-> {n1, n2}]}]
Balances == user :> vSender @@ friend :> vReceiver
FirstData == vSender :> i1 @@ vReceiver :> i2 @@ vMinimum :> i3 @@ vAmount :> i4

\* One transfer is allowed and the second stops at the minimum.
FirstValue == vSender :> 4 @@ vReceiver :> 1 @@ vMinimum :> 2 @@ vAmount :> 2
Outputs == [e \in ExecutionIds |-> IF RequesterOf(e) = user
                                     THEN IF NonceOf(e) = 1 THEN o1 ELSE o2
                                     ELSE IF NonceOf(e) = 1 THEN o3 ELSE o4]
AnyInputs == SUBSET DataIds
AllNodes == {n1, n2}
AllNodesOnly == {AllNodes}
=============================================================================
