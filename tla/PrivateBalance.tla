--------------------------- MODULE PrivateBalance ---------------------------
(***************************************************************************)
(* The private balance application over the control plane:                 *)
(* contracts/src/examples/PrivateBalanceApp.sol, the command line program  *)
(* crates/runtime/src/bin/private_balance_worker.rs and the transfer       *)
(* program of private_transfer.rs.                                         *)
(*                                                                         *)
(* Every run of the program is a process: it performs one command, one     *)
(* transaction or database statement after the other, and ends at the      *)
(* first that fails.  It may crash between any two.  Only the ciphertexts  *)
(* and the bindings in the database survive it.                            *)
(***************************************************************************)
EXTENDS ControlPlane

CONSTANTS
  Processes,
  BalanceContract,    \* confidentialContractId
  User,               \* owner of the application, DEMO_USER
  Receiver,           \* RECEIVER of the configuration
  BalanceVariable,    \* account -> its variable
  MinimumVariable, AmountVariable,
  TransferSelector,
  WorkerCommittee,    \* COMMITTEE_ID
  CommitteeMembers,   \* its members, finalized before the start
  StorageNodes,       \* NODE_1 to NODE_3
  InitialData,        \* variable -> the data id bootstrap gives it
  InitialValue,       \* variable -> the value bootstrap encrypts
  TransferOutput,     \* execution -> the data id of its result
  MaxBootstraps, MaxCrashes

HolderAccounts == {User, Receiver}
Declared == {BalanceVariable[User], BalanceVariable[Receiver], MinimumVariable, AmountVariable}
BootOrder ==
  <<BalanceVariable[User], BalanceVariable[Receiver], MinimumVariable, AmountVariable>>

ASSUME BalanceAssumption ==
  /\ User # Receiver /\ {User, Receiver} \subseteq Users
  /\ BalanceContract \in ContractIds /\ TransferSelector \in Selectors
  /\ BalanceVariable \in [HolderAccounts -> Variables]
  /\ Declared = Variables
  /\ \A i, j \in 1..4 : BootOrder[i] = BootOrder[j] => i = j
  /\ WorkerCommittee \in CommitteeIds /\ CommitteeMembers \in NodeSets
  /\ StorageNodes \in StorageSets /\ {1, 2} \subseteq InitialVersions
  /\ InputSets = SUBSET DataIds    \* a request names what it finds bound
  /\ InitialData \in [Variables -> DataIds] /\ InitialValue \in [Variables -> Nat]
  /\ MaxBootstraps \in Nat /\ MaxCrashes \in Nat /\ IsFiniteSet(ExecutionIds)

\* The initial ids are four constants, and the id of a result is a digest of
\* the execution.
ASSUME BalanceIdsAssumption ==
  /\ TransferOutput \in [ExecutionIds -> DataIds]
  /\ \A v, w \in Variables : InitialData[v] = InitialData[w] => v = w
  /\ \A e, f \in ExecutionIds : TransferOutput[e] = TransferOutput[f] => e = f
  /\ \A e \in ExecutionIds, v \in Variables : TransferOutput[e] # InitialData[v]

VARIABLES
  process,      \* what each process has done and read
  slots,        \* ppsc_demo_ciphertext_slots: <<data id, slot>> -> value
  bindings,     \* ppsc_demo_variable_bindings: variable -> [data, slot]
  bootstraps, crashes   \* how many there were

databaseVars == <<slots, bindings>>
workerVars == <<process, slots, bindings, bootstraps, crashes>>
allVars == <<vars, workerVars>>

Idle == [at |-> "idle", e |-> None, entry |-> 0, sender |-> None, receiver |-> None,
         result |-> <<0, 0>>]

NoRow == [data |-> None, slot |-> 0]
Threshold == 2

\* The contracts are deployed, the transfer program is published and the
\* committee is finalized.
BalanceInit ==
  /\ Init
  /\ process = [p \in Processes |-> Idle]
  /\ slots = <<>>
  /\ bindings = [v \in Variables |-> NoRow]
  /\ bootstraps = 0 /\ crashes = 0

Deployed ==
  /\ contracts[BalanceContract].active
  /\ <<BalanceContract, TransferSelector>> \in functions
  /\ committees[WorkerCommittee].active

\* Deployment: the constructor of the application, and the script.
Deploy ==
  /\ UNCHANGED workerVars
  /\ \/ PublishContract(ContractOwner[BalanceContract], BalanceContract, GenesisRoot)
     \/ PublishFunction(ContractOwner[BalanceContract], BalanceContract, TransferSelector)
     \/ \E s \in Selections[sortitionVerifier] :
          /\ s.id = WorkerCommittee /\ s.members = CommitteeMembers
          /\ FinalizeCommittee(runtime, s, Threshold)

-----------------------------------------------------------------------------
(* PrivateBalanceApp.sol *)

\* The call names the data its variables are bound to now.
ConditionalTransfer(sender, receiver, e, deadline) ==
  LET named == {BalanceVariable[sender], BalanceVariable[receiver], MinimumVariable, AmountVariable}
  IN /\ sender = User
     /\ RequesterOf(e) = sender /\ ContractOf(e) = BalanceContract
     /\ \A v \in named : stateVariables[v].exists
     /\ Invoke(ContractOwner[BalanceContract], e, TransferSelector,
               {stateVariables[v].dataId : v \in named}, deadline)
     /\ UNCHANGED workerVars

RequestMyBalance(sender, nonce, expiry) ==
  /\ sender = User
  /\ RequestVariablePickFor(ContractOwner[BalanceContract], BalanceVariable[sender], sender,
                            nonce, expiry)
  /\ UNCHANGED workerVars

-----------------------------------------------------------------------------
(* private_balance_worker.rs *)

At(p, step) == process[p].at = step
Go(p, record) == process' = [process EXCEPT ![p] = record]
Continue(p, step) == Go(p, [process[p] EXCEPT !.at = step])

\* A failed call ends the process, as a crash does.
End(p) ==
  /\ Go(p, Idle)
  /\ UNCHANGED <<vars, databaseVars, bootstraps, crashes>>

Crash(p) ==
  /\ process[p] # Idle /\ crashes < MaxCrashes
  /\ Go(p, Idle) /\ crashes' = crashes + 1
  /\ UNCHANGED <<vars, databaseVars, bootstraps>>

\* bootstrap begins with truncating both tables.
Bootstrap(p) ==
  /\ Deployed /\ process[p] = Idle /\ bootstraps < MaxBootstraps
  /\ Go(p, [Idle EXCEPT !.at = "insert", !.entry = 1])
  /\ slots' = <<>>
  /\ bindings' = [v \in Variables |-> NoRow]
  /\ bootstraps' = bootstraps + 1
  /\ UNCHANGED <<vars, crashes>>

Stored(d, slot) == <<d, slot>> \in DOMAIN slots
Row(d, slot, value) == [k \in {<<d, slot>>} |-> value]
With(rows, more) == [k \in DOMAIN rows \cup DOMAIN more |->
                       IF k \in DOMAIN more THEN more[k] ELSE rows[k]]

\* One entry is two rows of the database, each a statement of its own with a
\* unique key, and three transactions.
BootstrapEntry(p) ==
  LET v == BootOrder[process[p].entry]
      d == InitialData[v]
  IN \/ /\ At(p, "insert")
        /\ IF Stored(d, 0) THEN End(p)
           ELSE /\ slots' = With(slots, Row(d, 0, InitialValue[v]))
                /\ Continue(p, "name")
                /\ UNCHANGED <<vars, bindings, bootstraps, crashes>>
     \/ /\ At(p, "name")
        /\ IF bindings[v] # NoRow THEN End(p)
           ELSE /\ bindings' = [bindings EXCEPT ![v] = [data |-> d, slot |-> 0]]
                /\ Continue(p, "register")
                /\ UNCHANGED <<vars, slots, bootstraps, crashes>>
     \/ /\ At(p, "register")
        /\ \/ /\ RegisterData(runtime, IF v = BalanceVariable[Receiver] THEN Receiver ELSE User, d,
                              "SecretSharing", None, StorageNodes, 1)
              /\ Continue(p, "locate")
              /\ UNCHANGED <<databaseVars, bootstraps, crashes>>
           \/ ~Unregistered(d) /\ End(p)
     \/ /\ At(p, "locate")
        /\ RegisterDataLocations(runtime, d, StorageNodes)
        /\ Continue(p, "declare")
        /\ UNCHANGED <<databaseVars, bootstraps, crashes>>
     \/ /\ At(p, "declare")
        /\ DeclareStateVariable(runtime, BalanceContract, v, d)
        /\ Go(p, IF process[p].entry = 4 THEN Idle
                 ELSE [Idle EXCEPT !.at = "insert", !.entry = process[p].entry + 1])
        /\ UNCHANGED <<databaseVars, bootstraps, crashes>>

\* process: the bindings are read one by one, before the committee is assigned.
Process(p, e) ==
  /\ process[p] = Idle /\ Requested(e)
  /\ \A v \in Declared : bindings[v] # NoRow
  /\ Go(p, [Idle EXCEPT !.at = "bind", !.e = e, !.sender = bindings[BalanceVariable[User]]])
  /\ UNCHANGED <<vars, databaseVars, bootstraps, crashes>>

ReadReceiverBinding(p) ==
  /\ At(p, "bind")
  /\ Go(p, [process[p] EXCEPT !.at = "assign", !.receiver = bindings[BalanceVariable[Receiver]]])
  /\ UNCHANGED <<vars, databaseVars, bootstraps, crashes>>

Assign(p) ==
  LET e == process[p].e IN
  /\ At(p, "assign")
  /\ \/ /\ AssignCommittee(runtime, e, WorkerCommittee)
        /\ Continue(p, "run")
        /\ UNCHANGED <<databaseVars, bootstraps, crashes>>
     \/ executions[e].status # "Requested" /\ End(p)

Run(p) ==
  /\ At(p, "run")
  /\ MarkRunning(runtime, process[p].e)
  /\ Continue(p, "evaluate")
  /\ UNCHANGED <<databaseVars, bootstraps, crashes>>

\* Slip: at the minimum the amount is still moved.
TransferredAtMinimum(sender, receiver, minimum, amount) ==
  IF sender < minimum THEN <<sender, receiver>> ELSE <<sender - amount, receiver + amount>>

\* conditional_transfer_strictly_greater
Transferred(sender, receiver, minimum, amount) ==
  IF sender <= minimum THEN <<sender, receiver>> ELSE <<sender - amount, receiver + amount>>

MayTransfer(sender, minimum, amount) == sender <= minimum \/ sender >= amount

\* The minimum and the amount never move.
PolicyValue(v) == slots[<<InitialData[v], 0>>]

\* A bootstrap in between may have truncated the rows the process bound to.
Loadable(p) ==
  /\ Stored(process[p].sender.data, process[p].sender.slot)
  /\ Stored(process[p].receiver.data, process[p].receiver.slot)
  /\ \A v \in {MinimumVariable, AmountVariable} : Stored(InitialData[v], 0)

Evaluate(p) ==
  LET sender == process[p].sender
      receiver == process[p].receiver
      s == slots[<<sender.data, sender.slot>>]
      r == slots[<<receiver.data, receiver.slot>>]
      minimum == PolicyValue(MinimumVariable)
      amount == PolicyValue(AmountVariable)
  IN /\ At(p, "evaluate")
     /\ IF Loadable(p) /\ MayTransfer(s, minimum, amount)
        THEN /\ Go(p, [process[p] EXCEPT !.at = "submit",
                                         !.result = Transferred(s, r, minimum, amount)])
             /\ UNCHANGED <<vars, databaseVars, bootstraps, crashes>>
        ELSE End(p)

\* Both members' keys are in the program; the signatures are over the digests
\* the chain gives.
Submit(p) ==
  LET e == process[p].e IN
  /\ At(p, "submit")
  /\ \/ /\ SubmitResult(runtime, e, TransferOutput[e], "SecretSharing", None, StorageNodes, 2,
                        DerivedRoot(e), CommitteeMembers)
        /\ Continue(p, "locations")
        /\ UNCHANGED <<databaseVars, bootstraps, crashes>>
     \/ /\ ~Submittable(e) \/ ~OldRootIsCurrent(e)
        /\ End(p)

Locate(p) ==
  /\ At(p, "locations")
  /\ RegisterDataLocations(runtime, TransferOutput[process[p].e], StorageNodes)
  /\ Continue(p, "update")
  /\ UNCHANGED <<databaseVars, bootstraps, crashes>>

Update(p) ==
  /\ At(p, "update")
  /\ UpdateStateVariablesAfterResult(runtime, process[p].e,
       {BalanceVariable[User], BalanceVariable[Receiver]}, CommitteeMembers)
  /\ Continue(p, "commit")
  /\ UNCHANGED <<databaseVars, bootstraps, crashes>>

\* Slip: the receiver stays bound to the balance before.
BoundSenderOnly(d) == [bindings EXCEPT ![BalanceVariable[User]] = [data |-> d, slot |-> 0]]

BoundTo(d) ==
  [bindings EXCEPT ![BalanceVariable[User]] = [data |-> d, slot |-> 0],
                   ![BalanceVariable[Receiver]] = [data |-> d, slot |-> 1]]

\* One database transaction writes the two ciphertexts and the two bindings.
Commit(p) ==
  LET d == TransferOutput[process[p].e] IN
  /\ At(p, "commit")
  /\ ~Stored(d, 0)
  /\ slots' = With(slots, [k \in {<<d, 0>>, <<d, 1>>} |-> process[p].result[k[2] + 1]])
  /\ bindings' = BoundTo(d)
  /\ Go(p, Idle)
  /\ UNCHANGED <<vars, bootstraps, crashes>>

ProcessStep(p) ==
  \/ ReadReceiverBinding(p) \/ Assign(p) \/ Run(p) \/ Evaluate(p)
  \/ Submit(p) \/ Locate(p) \/ Update(p) \/ Commit(p)

BalanceNext ==
  \/ Deploy
  \/ \E receiver \in HolderAccounts, e \in ExecutionIds, t \in Times :
       ConditionalTransfer(User, receiver, e, t)
  \/ \E n \in PickNonces, t \in Times : RequestMyBalance(User, n, t)
  \/ \E p \in Processes :
       \/ Bootstrap(p)
       \/ BootstrapEntry(p)
       \/ \E e \in ExecutionIds : Process(p, e)
       \/ ProcessStep(p)
       \/ Crash(p)
  \/ Tick /\ UNCHANGED workerVars

BalanceSpec == BalanceInit /\ [][BalanceNext]_allVars

-----------------------------------------------------------------------------
Bootstrapped == \A v \in Declared : stateVariables[v].exists

ValueOf(v) == slots[<<bindings[v].data, bindings[v].slot>>]

Persisted == {e \in ExecutionIds : Stored(TransferOutput[e], 0)}

\* One transfer by the program of private_transfer.rs, on numbers.
Moved(before) ==
  LET minimum == InitialValue[MinimumVariable]
      amount == InitialValue[AmountVariable]
  IN IF before[1] > minimum /\ before[1] >= amount
     THEN <<before[1] - amount, before[2] + amount>> ELSE before

\* The balances after n transfers
AfterTransfers[n \in 0..Cardinality(ExecutionIds)] ==
  IF n = 0 THEN <<InitialValue[BalanceVariable[User]], InitialValue[BalanceVariable[Receiver]]>>
  ELSE Moved(AfterTransfers[n - 1])

(* With one process at a time the bound balances are those after as many    *)
(* transfers as have been persisted, each evaluated on the balances the one *)
(* before left: a crash, an execution that lost the race for the state root *)
(* or a call repeated for an execution never moves an amount twice.  A      *)
(* second bootstrap truncates the tables, and restores nothing.             *)
BalancesFollowTheTransfers ==
  Bootstrapped /\ bootstraps = 1 =>
    <<ValueOf(BalanceVariable[User]), ValueOf(BalanceVariable[Receiver])>>
      = AfterTransfers[Cardinality(Persisted)]

(* A binding of the database and the reference of the chain differ only by  *)
(* the last update of the variables, whose process is about to commit it or *)
(* crashed before it did: query answers with an error then, and never with  *)
(* another balance than the one the chain refers to.                        *)
DatabaseTrailsByOneResult ==
  Bootstrapped /\ bootstraps = 1 =>
    \A v \in {BalanceVariable[User], BalanceVariable[Receiver]} :
      \/ stateVariables[v].dataId = bindings[v].data
      \/ \E e \in updatesFinalized :
           /\ stateVariables[v].dataId = TransferOutput[e]
           /\ e \notin Persisted
           /\ (\E p \in Processes : At(p, "commit") /\ process[p].e = e) \/ crashes > 0
=============================================================================
