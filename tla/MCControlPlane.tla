--------------------------- MODULE MCControlPlane ---------------------------
(* Small instances of ControlPlane for TLC. *)
EXTENDS ControlPlane, TLC

CONSTANTS app, user, rt, c1, c2, d1, d2, n1, n2, k1, k2, ver1, ver2

\* One publisher owns every contract.
OwnedByApp == [c \in ContractIds |-> app]

\* One selection per committee, of one node each.
SingleMembers ==
  [w \in Verifiers |->
     {[id |-> k, epoch |-> 1, members |-> {IF k = k1 THEN n1 ELSE n2}] : k \in CommitteeIds}]

\* Two overlapping committees; the verifiers accept different members for k2.
DifferingSelections ==
  [w \in Verifiers |->
     {[id |-> k, epoch |-> IF k = k1 THEN 1 ELSE 2,
       members |-> IF k = k1 THEN {n1, n2} ELSE IF w = ver1 THEN {n2} ELSE {n1}]
      : k \in CommitteeIds}]

NoneOrOneInput == {{}, {d1}}
OneInput == {{d1}}
NodeOne == {{n1}}
=============================================================================
