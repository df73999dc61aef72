-------------------------- MODULE MCManifestDaemon --------------------------
(* Small instances of ManifestDaemon for TLC. *)
EXTENDS ManifestDaemon, TLC

CONSTANTS app, user, c1, c2, key1, in1, n1, n2, k1, k2, ver1

\* The gateway publishes both contracts.
OwnedByApp == [c \in ContractIds |-> app]

\* No committee is finalized after the start.
NoSelections == [w \in Verifiers |-> {}]
CalledInputs == {Call[e].inputs : e \in ExecutionIds}
OneNode == {{n} : n \in Nodes}

First == <<user, c1, 1>>    \* createAccount: writes the balance
Second == <<user, c1, 2>>   \* deposit: reads and writes it, with an input
Third == <<user, c1, 3>>    \* getBalance: reads and opens it

\* The three calls on one cell, and an input where there is one to upload.
CallOf(e, written, holds) ==
  [selector |-> "f",
   inputs |-> IF e = Second /\ in1 \in DataIds THEN {in1} ELSE {},
   reads  |-> IF e = First THEN {} ELSE {"v"},
   writes |-> IF e = Third THEN {} ELSE IF e = Second THEN written ELSE {"v"},
   opens  |-> e = Third,
   holds  |-> e # Second \/ holds]

Accepting == [e \in ExecutionIds |-> CallOf(e, {"v"}, TRUE)]
\* The second call also writes a value that is kept in shares.
WritingBoth == [e \in ExecutionIds |-> CallOf(e, {"v", "w"}, TRUE)]

Outputs == {<<e, b>> : e \in ExecutionIds, b \in [{"v"} -> ExecutionIds] \cup [{} -> ExecutionIds]}
WithInput == {key1, in1} \cup Outputs

KeyOfUser == [u \in Users |-> key1]
Kinds == [v \in Variables |-> IF v = "w" THEN "SecretSharing" ELSE "FHE"]

UploadOf(representation) ==
  {[owner |-> user, dataId |-> in1, nonce |-> 1, deadline |-> 1,
    representation |-> representation]}
EncryptedUpload == UploadOf("FHE")
SharedUpload == UploadOf("SecretSharing")

\* Another account is faster to register an id, at a node that runs no daemon.
Taken(owner, d) ==
  [owner |-> owner, dataId |-> d, representation |-> "SecretSharing",
   fheKeyId |-> None, nodes |-> {n2}]
TakenUpload == {Taken(app, in1)}
TakenIds == {Taken(app, in1), Taken(app, key1), Taken(app, <<First, <<>>>>)}

Members == [k \in CommitteeIds |-> IF k = k1 THEN {n1} ELSE {n2}]
ActiveFirst == [n \in Daemons |-> k1]
=============================================================================
