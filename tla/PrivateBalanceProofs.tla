------------------------ MODULE PrivateBalanceProofs ------------------------
(***************************************************************************)
(* Proofs about PrivateBalance.  The application and its worker take steps *)
(* of the control plane only, for any number of processes.  What the       *)
(* database holds is proved for one: two would both read the bindings that *)
(* one of them is about to replace.                                        *)
(***************************************************************************)
EXTENDS PrivateBalance, ControlPlaneProofs, Totals

BootPhases == {"insert", "name", "register", "locate", "declare"}
BindPhases == {"assign", "run", "evaluate"}
ResultPhases == {"submit", "locations", "update", "commit"}
TransferPhases == {"bind"} \cup BindPhases \cup ResultPhases

Binding == [data : DataIds \cup {None}, slot : {0, 1}]

ProcessState ==
  [at : {"idle"} \cup BootPhases \cup TransferPhases, e : ExecutionIds \cup {None},
   entry : Nat, sender : Binding \cup {None}, receiver : Binding \cup {None}, result : Nat \X Nat]

\* What a process in the middle of a command has.
CommandOK(s) ==
  /\ s.at \in BootPhases => s.entry \in 1..4
  /\ s.at \in TransferPhases => s.e \in ExecutionIds /\ s.sender \in Binding
  /\ s.at \in BindPhases \cup ResultPhases => s.receiver \in Binding

DatabaseTyped ==
  /\ DOMAIN slots \subseteq DataIds \X {0, 1}
  /\ \A k \in DOMAIN slots : slots[k] \in Nat
  /\ bindings \in [Variables -> Binding]

ProcessesTyped ==
  /\ process \in [Processes -> ProcessState]
  /\ \A p \in Processes : CommandOK(process[p])

WorkerTyped == DatabaseTyped /\ ProcessesTyped /\ bootstraps \in Nat /\ crashes \in Nat

SystemInv == RegistryInv /\ WorkerTyped

-----------------------------------------------------------------------------
(* One process *)

Balances == {BalanceVariable[User], BalanceVariable[Receiver]}
Policies == {MinimumVariable, AmountVariable}
Bound(v) == bindings[v] # NoRow

\* Before the first bootstrap.
NothingYet(p) ==
  bootstraps = 0 =>
    /\ process[p] = Idle /\ slots = <<>> /\ bindings = [v \in Variables |-> NoRow]
    /\ \A v \in Variables : ~stateVariables[v].exists

\* Each row is an initial one or the result of a recorded update.
RowsAreKnown ==
  \A d \in DataIds, k \in {0, 1} : Stored(d, k) =>
    \/ \E v \in Variables : d = InitialData[v]
    \/ \E e \in updatesFinalized : d = TransferOutput[e]

\* A variable that is declared is bound, to what the chain refers to or to what
\* it referred to before the last update.
Follows(p, v) ==
  stateVariables[v].exists =>
    /\ Bound(v)
    /\ v \in Balances =>
         \/ stateVariables[v].dataId = bindings[v].data
         \/ \E e \in updatesFinalized :
              /\ stateVariables[v].dataId = TransferOutput[e]
              /\ ~Stored(TransferOutput[e], 0)
              /\ (At(p, "commit") /\ process[p].e = e) \/ crashes > 0

\* The entry of a bootstrap that a process is at, and those after it.
BootOK(s) ==
  s.at \in BootPhases =>
    /\ \A i \in s.entry..4 : ~stateVariables[BootOrder[i]].exists
    /\ s.at = "name" =>
         /\ Stored(InitialData[BootOrder[s.entry]], 0)
         /\ slots[<<InitialData[BootOrder[s.entry]], 0>>] = InitialValue[BootOrder[s.entry]]
    /\ s.at \notin {"insert", "name"} =>
         bindings[BootOrder[s.entry]] = [data |-> InitialData[BootOrder[s.entry]], slot |-> 0]
    /\ \A e \in ExecutionIds : ~Stored(TransferOutput[e], 0)

\* The result that a process submits, and commits.
ResultOK(s) ==
  /\ s.at \in {"locations", "update"} =>
       executions[s.e].status = "Completed" /\ executions[s.e].outputId = TransferOutput[s.e]
  /\ s.at = "commit" =>
       /\ s.e \in updatesFinalized /\ ~Stored(TransferOutput[s.e], 0)
       /\ \A v \in Balances : stateVariables[v].dataId = TransferOutput[s.e]

TrailInv(p) ==
  /\ NothingYet(p)
  /\ bootstraps = 1 =>
       /\ RowsAreKnown /\ BootOK(process[p]) /\ ResultOK(process[p])
       /\ \A v \in Variables : Follows(p, v)

\* The balances of the database are those after the transfers persisted.
BalancesAre(values) ==
  /\ Bound(BalanceVariable[User]) =>
       Stored(bindings[BalanceVariable[User]].data, bindings[BalanceVariable[User]].slot)
         /\ ValueOf(BalanceVariable[User]) = values[1]
  /\ Bound(BalanceVariable[Receiver]) =>
       Stored(bindings[BalanceVariable[Receiver]].data, bindings[BalanceVariable[Receiver]].slot)
         /\ ValueOf(BalanceVariable[Receiver]) = values[2]

\* A variable is bound to its initial row, or to rows of a result.
BindingsAreKnown ==
  \A v \in Variables : Bound(v) =>
    \/ bindings[v].data = InitialData[v]
    \/ \E e \in ExecutionIds : bindings[v].data = TransferOutput[e]

PoliciesAreKept ==
  \A v \in Policies : Bound(v) => Stored(InitialData[v], 0) /\ PolicyValue(v) = InitialValue[v]

\* What a process has read is what the database still holds.
ReadOK(s, values) ==
  /\ s.at \in TransferPhases =>
       (\A v \in Declared : Bound(v)) /\ s.sender = bindings[BalanceVariable[User]]
  /\ s.at \in BindPhases \cup ResultPhases => s.receiver = bindings[BalanceVariable[Receiver]]
  /\ s.at \in ResultPhases => s.result = Moved(values)

BalanceInv(p) ==
  bootstraps = 1 =>
    LET values == AfterTransfers[Cardinality(Persisted)] IN
    /\ values \in Nat \X Nat
    /\ BalancesAre(values) /\ BindingsAreKnown /\ PoliciesAreKept
    /\ ReadOK(process[p], values)

-----------------------------------------------------------------------------
(* The constants *)

LEMMA TheFourVariables ==
  /\ BalanceVariable[User] \in Variables /\ BalanceVariable[Receiver] \in Variables
  /\ MinimumVariable \in Variables /\ AmountVariable \in Variables
  /\ \A i \in 1..4 : BootOrder[i] \in Variables
  /\ BootOrder[1] = BalanceVariable[User] /\ BootOrder[2] = BalanceVariable[Receiver]
  /\ BootOrder[3] = MinimumVariable /\ BootOrder[4] = AmountVariable
  /\ BalanceVariable[User] # BalanceVariable[Receiver]
  /\ MinimumVariable \notin Balances /\ AmountVariable \notin Balances
  /\ MinimumVariable # AmountVariable
  /\ Variables = Balances \cup Policies
<1>1. /\ BootOrder[1] = BalanceVariable[User] /\ BootOrder[2] = BalanceVariable[Receiver]
      /\ BootOrder[3] = MinimumVariable /\ BootOrder[4] = AmountVariable
  BY DEF BootOrder
<1>2. \A i, j \in 1..4 : BootOrder[i] = BootOrder[j] => i = j
  BY BalanceAssumption
<1>3. 1 \in 1..4 /\ 2 \in 1..4 /\ 3 \in 1..4 /\ 4 \in 1..4
  OBVIOUS
<1>4. /\ BootOrder[1] # BootOrder[2] /\ BootOrder[1] # BootOrder[3] /\ BootOrder[1] # BootOrder[4]
      /\ BootOrder[2] # BootOrder[3] /\ BootOrder[2] # BootOrder[4] /\ BootOrder[3] # BootOrder[4]
  <2> HIDE DEF BootOrder
  <2>1. QED BY <1>2, <1>3
<1>5. Variables = {BalanceVariable[User], BalanceVariable[Receiver], MinimumVariable, AmountVariable}
  BY BalanceAssumption DEF Declared
<1>6. \A i \in 1..4 : i = 1 \/ i = 2 \/ i = 3 \/ i = 4
  OBVIOUS
<1>7. \A i \in 1..4 : BootOrder[i] \in Variables
  BY <1>1, <1>5, <1>6
<1>8. QED
  BY <1>1, <1>4, <1>5, <1>7 DEF Balances, Policies

LEMMA TheParties ==
  /\ {User, Receiver} \subseteq Users /\ Users \subseteq Accounts
  /\ BalanceContract \in ContractIds /\ ContractOwner[BalanceContract] \in Accounts
  /\ TransferSelector \in Selectors /\ WorkerCommittee \in CommitteeIds
  /\ CommitteeMembers \in NodeSets /\ StorageNodes \in StorageSets /\ StorageNodes \in NodeSets
  /\ 1 \in InitialVersions /\ 2 \in InitialVersions
  /\ InitialData \in [Variables -> DataIds] /\ InitialValue \in [Variables -> Nat]
  /\ TransferOutput \in [ExecutionIds -> DataIds]
  /\ "SecretSharing" \in Representations /\ RuntimeAccounts \subseteq Accounts
BY BalanceAssumption, BalanceIdsAssumption, AccountsAssumption, DataAssumption
   DEF Representations

-----------------------------------------------------------------------------
(* The application is a client of the control plane *)

(* Deployment calls.                                                        *)
LEMMA DeployCalls == RegistryInv /\ Deploy => Next
<1> SUFFICES ASSUME RegistryInv, Deploy PROVE Next
  OBVIOUS
<1>1. CASE PublishContract(ContractOwner[BalanceContract], BalanceContract, GenesisRoot)
  BY <1>1, TheParties DEF Next, OwnerNext
<1>2. CASE PublishFunction(ContractOwner[BalanceContract], BalanceContract, TransferSelector)
  BY <1>2, TheParties DEF Next, OwnerNext
<1>3. ASSUME NEW s \in Selections[sortitionVerifier], s.members = CommitteeMembers,
             FinalizeCommittee(runtime, s, Threshold)
      PROVE  Next
  <2>1. /\ Cardinality(CommitteeMembers) <= Cardinality(Nodes) /\ Cardinality(Nodes) \in Nat
        /\ Cardinality(CommitteeMembers) \in Nat
    <3>1. IsFiniteSet(Nodes) /\ CommitteeMembers \subseteq Nodes
      BY TheParties, SelectionsAssumption DEF NodeSets
    <3>2. QED
      BY <3>1, FS_Subset, FS_CardinalityType
  <2>2. Threshold \in 1..Cardinality(CommitteeMembers)
    BY <1>3 DEF FinalizeCommittee, ValidThreshold
  <2>3. Threshold \in 1..Cardinality(Nodes)
    BY <2>1, <2>2 DEF Threshold
  <2>4. runtime \in Accounts
    BY TheParties DEF RegistryInv, TypeOK
  <2>5. RuntimeNext(runtime)
    BY <1>3, <2>3 DEF RuntimeNext
  <2>6. QED
    BY <2>4, <2>5 DEF Next
<1>4. QED
  BY <1>1, <1>2, <1>3 DEF Deploy

(* A transfer names data ids only: every declared variable resolves.        *)
LEMMA TransferCalls ==
  ASSUME RegistryInv, NEW receiver \in HolderAccounts, NEW e \in ExecutionIds, NEW t \in Times,
         ConditionalTransfer(User, receiver, e, t)
  PROVE  Next
<1> DEFINE named == {BalanceVariable[User], BalanceVariable[receiver], MinimumVariable, AmountVariable}
           inputs == {stateVariables[v].dataId : v \in named}
<1>1. named \subseteq Variables
  BY TheFourVariables DEF HolderAccounts
<1>2. \A v \in named : stateVariables[v].dataId \in DataIds
  BY <1>1 DEF ConditionalTransfer, RegistryInv, BindingsResolve
<1>3. inputs \in InputSets
  BY <1>2, BalanceAssumption
<1>4. Invoke(ContractOwner[BalanceContract], e, TransferSelector, inputs, t)
  BY DEF ConditionalTransfer
<1> HIDE DEF inputs
<1>5. OwnerNext(ContractOwner[BalanceContract])
  BY <1>3, <1>4, TheParties DEF OwnerNext
<1>6. QED
  BY <1>5, TheParties DEF Next

LEMMA PickCalls ==
  ASSUME NEW n \in PickNonces, NEW t \in Times, RequestMyBalance(User, n, t)
  PROVE  Next
<1>1. OwnerNext(ContractOwner[BalanceContract])
  BY TheFourVariables, TheParties DEF RequestMyBalance, OwnerNext
<1>2. QED
  BY <1>1, TheParties DEF Next

(* The transactions of bootstrap.                                           *)
LEMMA EntryCalls ==
  ASSUME RegistryInv, WorkerTyped, NEW p \in Processes, BootstrapEntry(p)
  PROVE  [Next]_vars
<1> DEFINE v == BootOrder[process[p].entry]
           d == InitialData[v]
           owner == IF v = BalanceVariable[Receiver] THEN Receiver ELSE User
<1>1. process[p].at \in BootPhases => process[p].entry \in 1..4
  BY DEF WorkerTyped, ProcessesTyped, CommandOK
<1>2. process[p].at \in BootPhases => v \in Variables /\ d \in DataIds
  BY <1>1, TheFourVariables, TheParties
<1>3. runtime \in Accounts /\ owner \in Users
  BY TheParties DEF RegistryInv, TypeOK
<1> HIDE DEF v, d, owner
<1>4. CASE UNCHANGED vars
  BY <1>4
<1>5. CASE At(p, "register") /\ RegisterData(runtime, owner, d, "SecretSharing", None, StorageNodes, 1)
  <2>1. d \in DataIds
    BY <1>2, <1>5 DEF At, BootPhases
  <2>2. OwnerNext(runtime)
    BY <1>3, <1>5, <2>1, TheParties, AccountsAssumption DEF OwnerNext
  <2>3. QED
    BY <1>3, <2>2 DEF Next
<1>6. CASE End(p)
  BY <1>6 DEF End
<1>7. CASE At(p, "locate") /\ RegisterDataLocations(runtime, d, StorageNodes)
  <2>1. d \in DataIds
    BY <1>2, <1>7 DEF At, BootPhases
  <2>2. OwnerNext(runtime)
    BY <1>3, <1>7, <2>1, TheParties DEF OwnerNext
  <2>3. QED
    BY <1>3, <2>2 DEF Next
<1>8. CASE At(p, "declare") /\ DeclareStateVariable(runtime, BalanceContract, v, d)
  <2>1. d \in DataIds /\ v \in Variables
    BY <1>2, <1>8 DEF At, BootPhases
  <2>2. RuntimeNext(runtime)
    BY <1>8, <2>1, TheParties DEF RuntimeNext
  <2>3. QED
    BY <1>3, <2>2 DEF Next
<1>9. QED
  BY <1>4, <1>5, <1>6, <1>7, <1>8 DEF BootstrapEntry, v, d, owner

(* The transactions of process.                                             *)
LEMMA StepCalls ==
  ASSUME RegistryInv, WorkerTyped, NEW p \in Processes, ProcessStep(p)
  PROVE  [Next]_vars
<1> DEFINE e == process[p].e
<1>1. process[p].at \in TransferPhases => e \in ExecutionIds
  BY DEF WorkerTyped, ProcessesTyped, CommandOK
<1>2. runtime \in Accounts
  BY TheParties DEF RegistryInv, TypeOK
<1> HIDE DEF e
<1> USE DEF At, TransferPhases, BindPhases, ResultPhases
<1>3. CASE UNCHANGED vars
  BY <1>3
<1>4. CASE At(p, "assign") /\ AssignCommittee(runtime, e, WorkerCommittee)
  <2>1. RuntimeNext(runtime)
    BY <1>1, <1>4, TheParties DEF RuntimeNext
  <2>2. QED
    BY <1>2, <2>1 DEF Next
<1>5. CASE At(p, "run") /\ MarkRunning(runtime, e)
  <2>1. RuntimeNext(runtime)
    BY <1>1, <1>5 DEF RuntimeNext
  <2>2. QED
    BY <1>2, <2>1 DEF Next
<1>6. CASE /\ At(p, "submit")
           /\ SubmitResult(runtime, e, TransferOutput[e], "SecretSharing", None, StorageNodes, 2,
                           DerivedRoot(e), CommitteeMembers)
  <2>1. e \in ExecutionIds
    BY <1>1, <1>6
  <2>2. DerivedRoot(e) \in Roots /\ TransferOutput[e] \in DataIds
    BY <2>1, TheParties DEF DerivedRoot, Roots
  <2>3. RuntimeNext(runtime)
    <3> DEFINE d == TransferOutput[e]
               root == DerivedRoot(e)
    <3>1. /\ d \in DataIds /\ root \in Roots
          /\ SubmitResult(runtime, e, d, "SecretSharing", None, StorageNodes, 2, root, CommitteeMembers)
      BY <1>6, <2>2
    <3> HIDE DEF d, root
    <3>2. QED
      BY <2>1, <3>1, TheParties DEF RuntimeNext
  <2>4. QED
    BY <1>2, <2>3 DEF Next
<1>7. CASE At(p, "locations") /\ RegisterDataLocations(runtime, TransferOutput[e], StorageNodes)
  <2>1. TransferOutput[e] \in DataIds
    BY <1>1, <1>7, TheParties
  <2>2. OwnerNext(runtime)
    BY <1>7, <2>1, TheParties DEF OwnerNext
  <2>3. QED
    BY <1>2, <2>2 DEF Next
<1>8. CASE /\ At(p, "update")
           /\ UpdateStateVariablesAfterResult(runtime, e,
                {BalanceVariable[User], BalanceVariable[Receiver]}, CommitteeMembers)
  <2>1. {BalanceVariable[User], BalanceVariable[Receiver]} \in SUBSET Variables
    BY TheFourVariables
  <2>2. RuntimeNext(runtime)
    BY <1>1, <1>8, <2>1, TheParties DEF RuntimeNext
  <2>3. QED
    BY <1>2, <2>2 DEF Next
<1>9. QED
  BY <1>3, <1>4, <1>5, <1>6, <1>7, <1>8
     DEF ProcessStep, ReadReceiverBinding, Assign, Run, Evaluate, Submit, Locate, Update, Commit,
         End, e

(* Every step of the system is a call of the control plane or none.         *)
LEMMA StepsAreCalls == RegistryInv /\ WorkerTyped /\ [BalanceNext]_allVars => [Next]_vars
<1> SUFFICES ASSUME RegistryInv, WorkerTyped, [BalanceNext]_allVars PROVE [Next]_vars
  OBVIOUS
<1>1. CASE UNCHANGED allVars
  BY <1>1 DEF allVars
<1>2. ASSUME NEW p \in Processes,
             \/ Bootstrap(p) \/ Crash(p) \/ \E e \in ExecutionIds : Process(p, e)
      PROVE  UNCHANGED vars
  BY <1>2 DEF Bootstrap, Crash, Process
<1>3. CASE Tick /\ UNCHANGED workerVars
  BY <1>3 DEF Next
<1>4. QED
  BY <1>1, <1>2, <1>3, DeployCalls, TransferCalls, PickCalls, EntryCalls, StepCalls DEF BalanceNext

-----------------------------------------------------------------------------
(* What the worker keeps has its type. *)

LEMMA BindingFacts ==
  /\ NoRow \in Binding /\ \A d \in DataIds, k \in {0, 1} : [data |-> d, slot |-> k] \in Binding
  /\ Idle \in ProcessState /\ CommandOK(Idle)
  /\ \A i \in 1..4 : [Idle EXCEPT !.at = "insert", !.entry = i] \in ProcessState
                     /\ CommandOK([Idle EXCEPT !.at = "insert", !.entry = i])
<1> USE DEF BootPhases, TransferPhases, BindPhases, ResultPhases
<1>1. NoRow \in Binding /\ \A d \in DataIds, k \in {0, 1} : [data |-> d, slot |-> k] \in Binding
  BY DEF NoRow, Binding
<1>2. Idle \in ProcessState
  <2>1. <<0, 0>> \in Nat \X Nat
    OBVIOUS
  <2>2. QED
    BY <2>1 DEF Idle, ProcessState
<1>3. CommandOK(Idle)
  BY DEF Idle, CommandOK
<1>4. ASSUME NEW i \in 1..4
      PROVE  /\ [Idle EXCEPT !.at = "insert", !.entry = i] \in ProcessState
             /\ CommandOK([Idle EXCEPT !.at = "insert", !.entry = i])
  <2> DEFINE t == [Idle EXCEPT !.at = "insert", !.entry = i]
  <2>1. t \in ProcessState
    <3>1. i \in Nat /\ "insert" \in {"idle"} \cup BootPhases \cup TransferPhases
      OBVIOUS
    <3>2. QED
      BY <1>2, <3>1 DEF ProcessState, Idle
  <2>2. t.at = "insert" /\ t.entry = i
    BY DEF Idle
  <2> HIDE DEF t
  <2>3. CommandOK(t)
    BY <2>2 DEF CommandOK
  <2>4. QED
    BY <2>1, <2>3 DEF t
<1>5. QED
  BY <1>1, <1>2, <1>3, <1>4

(* A process goes on: the others stay where they are.                       *)
LEMMA ProcessesGo ==
  ASSUME ProcessesTyped, NEW p \in Processes, NEW s \in ProcessState, CommandOK(s), Go(p, s)
  PROVE  ProcessesTyped'
<1>1. process' \in [Processes -> ProcessState]
  BY DEF Go, ProcessesTyped
<1>2. process'[p] = s /\ \A q \in Processes \ {p} : process'[q] = process[q]
  BY DEF Go, ProcessesTyped
<1>3. \A q \in Processes : CommandOK(process'[q])
  BY <1>2 DEF ProcessesTyped
<1>4. QED
  BY <1>1, <1>3 DEF ProcessesTyped

LEMMA EntryTyped ==
  ASSUME WorkerTyped, NEW p \in Processes, BootstrapEntry(p)
  PROVE  WorkerTyped'
<1> DEFINE s == process[p]
           v == BootOrder[s.entry]
           d == InitialData[v]
<1>1. s \in ProcessState /\ CommandOK(s)
  BY DEF WorkerTyped, ProcessesTyped
<1>2. s.at \in BootPhases => s.entry \in 1..4 /\ v \in Variables /\ d \in DataIds
  BY <1>1, TheFourVariables, TheParties DEF CommandOK
<1> HIDE DEF s
<1>3. ASSUME s.at \in BootPhases, NEW step \in BootPhases, Continue(p, step)
      PROVE  ProcessesTyped'
  <2>1. [s EXCEPT !.at = step] \in ProcessState /\ CommandOK([s EXCEPT !.at = step])
    BY <1>1, <1>2, <1>3 DEF ProcessState, CommandOK, BootPhases, TransferPhases, BindPhases,
                            ResultPhases
  <2>2. QED
    BY <1>3, <2>1, ProcessesGo DEF Continue, WorkerTyped, s
<1>4. ASSUME Go(p, Idle) PROVE ProcessesTyped'
  BY <1>4, ProcessesGo, BindingFacts DEF WorkerTyped
<1>5. CASE /\ At(p, "insert") /\ slots' = With(slots, Row(d, 0, InitialValue[v]))
           /\ Continue(p, "name") /\ UNCHANGED <<vars, bindings, bootstraps, crashes>>
  <2>1. v \in Variables /\ d \in DataIds /\ s.at \in BootPhases
    BY <1>2, <1>5 DEF At, BootPhases, s
  <2>2. InitialValue[v] \in Nat /\ <<d, 0>> \in DataIds \X {0, 1}
    BY <2>1, TheParties
  <2> HIDE DEF v, d
  <2>3. DatabaseTyped'
    BY <1>5, <2>1, <2>2 DEF WorkerTyped, DatabaseTyped, With, Row
  <2>4. QED
    BY <1>3, <1>5, <2>1, <2>3 DEF WorkerTyped, BootPhases
<1>9. CASE /\ At(p, "name") /\ bindings' = [bindings EXCEPT ![v] = [data |-> d, slot |-> 0]]
           /\ Continue(p, "register") /\ UNCHANGED <<vars, slots, bootstraps, crashes>>
  <2>1. v \in Variables /\ d \in DataIds /\ s.at \in BootPhases
    BY <1>2, <1>9 DEF At, BootPhases, s
  <2>2. [data |-> d, slot |-> 0] \in Binding
    BY <2>1, BindingFacts
  <2> HIDE DEF v, d
  <2>3. DatabaseTyped'
    BY <1>9, <2>1, <2>2 DEF WorkerTyped, DatabaseTyped
  <2>4. QED
    BY <1>3, <1>9, <2>1, <2>3 DEF WorkerTyped, BootPhases
<1>10. CASE End(p)
  BY <1>4, <1>10 DEF WorkerTyped, End, databaseVars, DatabaseTyped
<1>6. CASE /\ At(p, "register") \/ At(p, "locate")
           /\ \/ \E step \in BootPhases : Continue(p, step)
              \/ End(p)
           /\ UNCHANGED <<databaseVars, bootstraps, crashes>>
  BY <1>3, <1>4, <1>6
     DEF At, BootPhases, WorkerTyped, End, databaseVars, DatabaseTyped, s
<1>7. CASE /\ At(p, "declare")
           /\ Go(p, IF process[p].entry = 4 THEN Idle
                    ELSE [Idle EXCEPT !.at = "insert", !.entry = process[p].entry + 1])
           /\ UNCHANGED <<databaseVars, bootstraps, crashes>>
  <2>1. s.entry \in 1..4
    BY <1>2, <1>7 DEF At, BootPhases, s
  <2>2. ProcessesTyped'
    <3>1. CASE s.entry = 4
      BY <1>4, <1>7, <3>1 DEF s
    <3>2. CASE s.entry # 4
      <4>1. s.entry + 1 \in 1..4
        BY <2>1, <3>2
      <4> DEFINE t == [Idle EXCEPT !.at = "insert", !.entry = s.entry + 1]
      <4>2. t \in ProcessState /\ CommandOK(t)
        BY <4>1, BindingFacts
      <4>3. Go(p, t)
        BY <1>7, <3>2 DEF s
      <4> HIDE DEF t
      <4>4. QED
        BY <4>2, <4>3, ProcessesGo DEF WorkerTyped
    <3>3. QED
      BY <3>1, <3>2
  <2>3. QED
    BY <1>7, <2>2 DEF WorkerTyped, databaseVars, DatabaseTyped
<1>8. QED
  BY <1>5, <1>6, <1>7, <1>9, <1>10 DEF BootstrapEntry, BootPhases, End, v, d, s

(* A balance is moved only where the sender has it: no value is negative.   *)
LEMMA TransfersAreNatural ==
  ASSUME NEW a \in Nat, NEW b \in Nat, NEW minimum \in Nat, NEW amount \in Nat,
         MayTransfer(a, minimum, amount)
  PROVE  Transferred(a, b, minimum, amount) \in Nat \X Nat
BY DEF MayTransfer, Transferred

LEMMA StepTyped ==
  ASSUME WorkerTyped, NEW p \in Processes, ProcessStep(p)
  PROVE  WorkerTyped'
<1> DEFINE s == process[p]
           d == TransferOutput[s.e]
           \* the process goes on, or ends
           Proceeds(step) == Continue(p, step) /\ UNCHANGED <<databaseVars, bootstraps, crashes>>
<1> USE DEF At
<1>1. s \in ProcessState /\ CommandOK(s)
  BY DEF WorkerTyped, ProcessesTyped
<1>2. ASSUME NEW t \in ProcessState, CommandOK(t), Go(p, t), UNCHANGED <<databaseVars, bootstraps, crashes>>
      PROVE  WorkerTyped'
  <2>1. ProcessesTyped'
    BY <1>2, ProcessesGo DEF WorkerTyped
  <2>2. QED
    BY <1>2, <2>1 DEF WorkerTyped, databaseVars, DatabaseTyped
<1> HIDE DEF s
<1>3. CASE End(p)
  BY <1>2, <1>3, BindingFacts DEF End
<1>4. CASE ReadReceiverBinding(p)
  <2> DEFINE t == [s EXCEPT !.at = "assign", !.receiver = bindings[BalanceVariable[Receiver]]]
  <2>1. bindings[BalanceVariable[Receiver]] \in Binding
    BY TheFourVariables DEF WorkerTyped, DatabaseTyped
  <2>2. s.at = "bind"
    BY <1>4 DEF ReadReceiverBinding, s
  <2>3. t \in ProcessState /\ CommandOK(t)
    BY <1>1, <2>1, <2>2
       DEF ProcessState, CommandOK, BootPhases, TransferPhases, BindPhases, ResultPhases
  <2>4. Go(p, t) /\ UNCHANGED <<databaseVars, bootstraps, crashes>>
    BY <1>4 DEF ReadReceiverBinding, s
  <2> HIDE DEF t
  <2>5. QED
    BY <1>2, <2>3, <2>4
<1>5. ASSUME s.at \in BindPhases \cup ResultPhases, NEW step \in BindPhases \cup ResultPhases,
             Proceeds(step)
      PROVE  WorkerTyped'
  <2> DEFINE t == [s EXCEPT !.at = step]
  <2>1. t \in ProcessState /\ CommandOK(t)
    BY <1>1, <1>5 DEF ProcessState, CommandOK, BootPhases, TransferPhases, BindPhases, ResultPhases
  <2>2. Go(p, t) /\ UNCHANGED <<databaseVars, bootstraps, crashes>>
    BY <1>5 DEF Continue, s
  <2> HIDE DEF t
  <2>3. QED
    BY <1>2, <2>1, <2>2
<1>6. CASE Assign(p) \/ Run(p) \/ Submit(p) \/ Locate(p) \/ Update(p)
  BY <1>3, <1>5, <1>6
     DEF Assign, Run, Submit, Locate, Update, BindPhases, ResultPhases, s
<1>7. CASE Evaluate(p)
  <2> DEFINE a == slots[<<s.sender.data, s.sender.slot>>]
             b == slots[<<s.receiver.data, s.receiver.slot>>]
             minimum == PolicyValue(MinimumVariable)
             amount == PolicyValue(AmountVariable)
             t == [s EXCEPT !.at = "submit", !.result = Transferred(a, b, minimum, amount)]
  <2>1. CASE Loadable(p) /\ MayTransfer(a, minimum, amount)
    <3>1. a \in Nat /\ b \in Nat /\ minimum \in Nat /\ amount \in Nat
      BY <2>1 DEF Loadable, Stored, PolicyValue, WorkerTyped, DatabaseTyped, s
    <3>2. Transferred(a, b, minimum, amount) \in Nat \X Nat
      <4> HIDE DEF a, b, minimum, amount
      <4>1. QED BY <2>1, <3>1, TransfersAreNatural
    <3>3. s.at = "evaluate"
      BY <1>7 DEF Evaluate, s
    <3>4. t \in ProcessState /\ CommandOK(t)
      <4> HIDE DEF a, b, minimum, amount
      <4>1. QED
        BY <1>1, <3>2, <3>3
           DEF ProcessState, CommandOK, BootPhases, TransferPhases, BindPhases, ResultPhases
    <3>5. Go(p, t) /\ UNCHANGED <<databaseVars, bootstraps, crashes>>
      BY <1>7, <2>1 DEF Evaluate, s
    <3> HIDE DEF t
    <3>6. QED
      BY <1>2, <3>4, <3>5
  <2>2. QED
    BY <1>3, <1>7, <2>1 DEF Evaluate, s
<1>8. CASE Commit(p)
  <2> DEFINE new == [k \in {<<d, 0>>, <<d, 1>>} |-> s.result[k[2] + 1]]
  <2>1. s.at = "commit"
    BY <1>8 DEF Commit, s
  <2>2. d \in DataIds /\ s.result \in Nat \X Nat
    BY <1>1, <2>1, TheParties
       DEF CommandOK, TransferPhases, ResultPhases, ProcessState
  <2>3. new[<<d, 0>>] = s.result[1] /\ new[<<d, 1>>] = s.result[2]
        /\ DOMAIN new = {<<d, 0>>, <<d, 1>>}
    OBVIOUS
  <2>4. \A k \in DOMAIN new : k \in DataIds \X {0, 1} /\ new[k] \in Nat
    <3>1. new[<<d, 0>>] \in Nat /\ new[<<d, 1>>] \in Nat
      BY <2>2, <2>3
    <3> HIDE DEF new
    <3>2. QED BY <2>2, <2>3, <3>1
  <2>5. slots' = With(slots, new) /\ bindings' = BoundTo(d) /\ Go(p, Idle)
        /\ UNCHANGED <<bootstraps, crashes>>
    BY <1>8 DEF Commit, s
  <2>6. [data |-> d, slot |-> 0] \in Binding /\ [data |-> d, slot |-> 1] \in Binding
    BY <2>2, BindingFacts
  <2> HIDE DEF new, d
  <2>7. DatabaseTyped'
    <3>1. DOMAIN slots' \subseteq DataIds \X {0, 1} /\ \A k \in DOMAIN slots' : slots'[k] \in Nat
      BY <2>4, <2>5 DEF WorkerTyped, DatabaseTyped, With
    <3>2. bindings' \in [Variables -> Binding]
      BY <2>5, <2>6 DEF WorkerTyped, DatabaseTyped, BoundTo
    <3>3. QED
      BY <3>1, <3>2 DEF DatabaseTyped
  <2>8. ProcessesTyped'
    BY <2>5, ProcessesGo, BindingFacts DEF WorkerTyped
  <2>9. QED
    BY <2>5, <2>7, <2>8 DEF WorkerTyped
<1>9. QED
  BY <1>4, <1>6, <1>7, <1>8 DEF ProcessStep

(* Each step of the system leaves what the worker keeps typed.              *)
LEMMA WorkerStep == WorkerTyped /\ [BalanceNext]_allVars => WorkerTyped'
<1> SUFFICES ASSUME WorkerTyped, [BalanceNext]_allVars PROVE WorkerTyped'
  OBVIOUS
<1>1. CASE UNCHANGED workerVars
  BY <1>1 DEF workerVars, WorkerTyped, DatabaseTyped, ProcessesTyped
<1>2. ASSUME NEW p \in Processes, Bootstrap(p) PROVE WorkerTyped'
  <2> DEFINE t == [Idle EXCEPT !.at = "insert", !.entry = 1]
  <2>1. t \in ProcessState /\ CommandOK(t) /\ Go(p, t)
    BY <1>2, BindingFacts DEF Bootstrap
  <2> HIDE DEF t
  <2>2. ProcessesTyped'
    BY <2>1, ProcessesGo DEF WorkerTyped
  <2>3. DatabaseTyped'
    BY <1>2, BindingFacts DEF Bootstrap, DatabaseTyped
  <2>4. QED
    BY <1>2, <2>2, <2>3 DEF Bootstrap, WorkerTyped
<1>3. ASSUME NEW p \in Processes, NEW e \in ExecutionIds, Process(p, e) PROVE WorkerTyped'
  <2> DEFINE t == [Idle EXCEPT !.at = "bind", !.e = e, !.sender = bindings[BalanceVariable[User]]]
  <2>1. bindings[BalanceVariable[User]] \in Binding
    BY TheFourVariables DEF WorkerTyped, DatabaseTyped
  <2>2. t \in ProcessState
    BY <2>1, BindingFacts DEF ProcessState, TransferPhases
  <2>3. t.at = "bind" /\ t.e = e /\ t.sender = bindings[BalanceVariable[User]]
    BY DEF Idle
  <2>4. Go(p, t) /\ UNCHANGED <<databaseVars, bootstraps, crashes>>
    BY <1>3 DEF Process
  <2> HIDE DEF t
  <2>5. CommandOK(t)
    BY <2>1, <2>3 DEF CommandOK, BootPhases, BindPhases, ResultPhases
  <2>6. ProcessesTyped'
    BY <2>2, <2>4, <2>5, ProcessesGo DEF WorkerTyped
  <2>7. QED
    BY <2>4, <2>6 DEF WorkerTyped, databaseVars, DatabaseTyped
<1>4. ASSUME NEW p \in Processes, Crash(p) PROVE WorkerTyped'
  <2>1. ProcessesTyped'
    BY <1>4, ProcessesGo, BindingFacts DEF Crash, WorkerTyped
  <2>2. QED
    BY <1>4, <2>1 DEF Crash, WorkerTyped, databaseVars, DatabaseTyped
<1>5. QED
  BY <1>1, <1>2, <1>3, <1>4, EntryTyped, StepTyped
     DEF BalanceNext, Deploy, ConditionalTransfer, RequestMyBalance, allVars

LEMMA SystemStep == SystemInv /\ [BalanceNext]_allVars => SystemInv' /\ [Next]_vars
BY StepsAreCalls, WorkerStep, RegistryStep DEF SystemInv

LEMMA SystemInit == BalanceInit => SystemInv
<1> SUFFICES ASSUME BalanceInit PROVE SystemInv
  OBVIOUS
<1>1. RegistryInv
  BY RegistryInit DEF BalanceInit
<1>2. WorkerTyped
  BY BindingFacts DEF BalanceInit, WorkerTyped, DatabaseTyped, ProcessesTyped
<1>3. QED
  BY <1>1, <1>2 DEF SystemInv

LEMMA SystemAlways == BalanceSpec => []SystemInv
BY SystemInit, SystemStep, PTL DEF BalanceSpec

(* Whatever the application and any number of workers do, and wherever they *)
(* crash, is a behaviour of the control plane: all its theorems hold of it. *)
THEOREM BalanceIsAClient == BalanceSpec => Spec
<1>1. BalanceInit => Init
  BY DEF BalanceInit
<1>2. QED
  BY <1>1, SystemAlways, SystemStep, PTL DEF BalanceSpec, Spec

-----------------------------------------------------------------------------
(* What the database holds while there is one process *)

(* A completed execution is never written again.                            *)
LEMMA CompletedKept ==
  ASSUME RegistryInv, [Next]_vars, NEW e \in ExecutionIds, Completed(e)
  PROVE  executions'[e] = executions[e]
<1>1. executions \in [ExecutionIds -> Execution]
  BY DEF RegistryInv, TypeOK
<1>2. executions[e].status = "Completed"
  BY DEF Completed
<1>3. ASSUME NEW sender \in Accounts, NEW f \in ExecutionIds, NEW s \in Selectors,
             NEW inputs \in InputSets, NEW t \in Times, Invoke(sender, f, s, inputs, t)
      PROVE  executions'[e] = executions[e]
  BY <1>1, <1>2, <1>3 DEF Invoke
<1>4. ASSUME NEW sender \in Accounts, NEW f \in ExecutionIds, NEW k \in CommitteeIds,
             AssignCommittee(sender, f, k) \/ BeginHandoff(sender, f, k)
      PROVE  executions'[e] = executions[e]
  BY <1>1, <1>2, <1>4 DEF AssignCommittee, BeginHandoff
<1>5. ASSUME NEW sender \in Accounts, NEW f \in ExecutionIds, MarkRunning(sender, f)
      PROVE  executions'[e] = executions[e]
  BY <1>1, <1>2, <1>5 DEF MarkRunning
<1>6. ASSUME NEW sender \in Accounts, NEW f \in ExecutionIds, NEW signers \in NodeSets,
             FinalizeHandoff(sender, f, signers)
      PROVE  executions'[e] = executions[e]
  BY <1>1, <1>2, <1>6 DEF FinalizeHandoff
<1>7. ASSUME NEW sender \in Accounts, NEW f \in ExecutionIds, NEW d \in DataIds,
             NEW r \in Representations, NEW key \in DataIds \cup {None},
             NEW nodes \in StorageSets, NEW version \in InitialVersions,
             NEW root \in Roots, NEW signers \in NodeSets,
             SubmitResult(sender, f, d, r, key, nodes, version, root, signers)
      PROVE  executions'[e] = executions[e]
  BY <1>1, <1>2, <1>7 DEF SubmitResult, Submittable
<1>8. QED
  BY <1>3, <1>4, <1>5, <1>6, <1>7, WritersOfExecutions

(* A step that writes neither the database nor the variables of the chain:  *)
(* what remains to be shown is about the process.                           *)
LEMMA TrailKept ==
  ASSUME NEW p, TrailInv(p), UNCHANGED <<bindingVars, databaseVars, bootstraps>>,
         bootstraps = 0 => process'[p] = process[p],
         At(p, "commit") => process'[p] = process[p] \/ crashes' > 0,
         crashes > 0 => crashes' > 0,
         bootstraps = 1 => BootOK(process[p])' /\ ResultOK(process[p])'
  PROVE  TrailInv(p)'
<1>1. /\ slots' = slots /\ bindings' = bindings /\ bootstraps' = bootstraps
      /\ stateVariables' = stateVariables /\ updatesFinalized' = updatesFinalized
  BY DEF bindingVars, databaseVars
<1>2. NothingYet(p)'
  BY <1>1 DEF TrailInv, NothingYet
<1>3. ASSUME bootstraps = 1, NEW v \in Variables PROVE Follows(p, v)'
  <2>1. Follows(p, v)
    BY <1>3 DEF TrailInv
  <2>2. ASSUME NEW e \in updatesFinalized, (At(p, "commit") /\ process[p].e = e) \/ crashes > 0
        PROVE  (At(p, "commit") /\ process[p].e = e)' \/ (crashes > 0)'
    BY <2>2 DEF At
  <2>3. QED
    BY <1>1, <2>1, <2>2 DEF Follows, Bound, Stored
<1>4. bootstraps = 1 => RowsAreKnown'
  BY <1>1 DEF TrailInv, RowsAreKnown, Stored
<1>5. QED
  BY <1>1, <1>2, <1>3, <1>4 DEF TrailInv

(* Calls that are not the process's, and the commands it ends.              *)
LEMMA TrailOfOthers ==
  ASSUME NEW p \in Processes, SystemInv, TrailInv(p), [Next]_vars,
         UNCHANGED <<bindingVars, workerVars>>
  PROVE  TrailInv(p)'
<1>1. /\ process' = process /\ bindings' = bindings /\ slots' = slots
      /\ stateVariables' = stateVariables /\ updatesFinalized' = updatesFinalized
      /\ crashes' = crashes /\ bootstraps' = bootstraps
  BY DEF workerVars, bindingVars
<1>2. CommandOK(process[p])
  BY DEF SystemInv, WorkerTyped, ProcessesTyped
<1>3. ASSUME bootstraps = 1 PROVE BootOK(process[p])'
  BY <1>1, <1>3 DEF TrailInv, BootOK, Stored
<1>4. ASSUME bootstraps = 1 PROVE ResultOK(process[p])'
  <2> DEFINE s == process[p]
  <2>1. ResultOK(s)
    BY <1>4 DEF TrailInv
  <2>2. ASSUME s.at \in {"locations", "update"}
        PROVE  executions'[s.e] = executions[s.e]
    <3>1. s.e \in ExecutionIds /\ Completed(s.e)
      BY <1>2, <2>1, <2>2 DEF CommandOK, TransferPhases, ResultPhases, ResultOK, Completed
    <3> HIDE DEF s
    <3>2. QED
      BY <3>1, CompletedKept DEF SystemInv
  <2>3. QED
    BY <1>1, <2>1, <2>2 DEF ResultOK, Stored
<1>5. QED
  BY <1>1, <1>3, <1>4, TrailKept DEF databaseVars, bindingVars

LEMMA TrailOfEnds ==
  ASSUME NEW p \in Processes, SystemInv, TrailInv(p), End(p) \/ Crash(p), ~At(p, "commit") \/ Crash(p)
  PROVE  TrailInv(p)'
<1>1. process'[p] = Idle /\ UNCHANGED <<bindingVars, databaseVars, bootstraps>>
  BY DEF End, Crash, Go, SystemInv, WorkerTyped, ProcessesTyped, vars, bindingVars
<1>2. bootstraps = 0 => process[p] = Idle
  BY DEF TrailInv, NothingYet
<1>3. Crash(p) => crashes' > 0
  BY DEF Crash, SystemInv, WorkerTyped
<1>4. crashes > 0 => crashes' > 0
  BY DEF Crash, End, SystemInv, WorkerTyped
<1>5. BootOK(process[p])' /\ ResultOK(process[p])'
  BY <1>1 DEF BootOK, ResultOK, Idle, BootPhases
<1>6. QED
  BY <1>1, <1>2, <1>3, <1>4, <1>5, TrailKept

(* The entries of a bootstrap.                                              *)
LEMMA TrailOfInsert ==
  ASSUME NEW p \in Processes, SystemInv, TrailInv(p), BootstrapEntry(p), At(p, "insert"), ~End(p)
  PROVE  TrailInv(p)'
<1> DEFINE s == process[p]
           v == BootOrder[s.entry]
           d == InitialData[v]
<1>1. /\ s.at = "insert" /\ s.entry \in 1..4 /\ v \in Variables /\ d \in DataIds
      /\ process \in [Processes -> ProcessState] /\ s \in ProcessState
  BY TheFourVariables, TheParties
     DEF At, SystemInv, WorkerTyped, ProcessesTyped, CommandOK, BootPhases
<1>2. /\ slots' = With(slots, Row(d, 0, InitialValue[v]))
      /\ Continue(p, "name") /\ UNCHANGED <<vars, bindings, bootstraps, crashes>>
  BY <1>1 DEF BootstrapEntry, At
<1>3. process'[p] = [s EXCEPT !.at = "name"]
  BY <1>1, <1>2 DEF Continue, Go
<1>4. process'[p].at = "name" /\ process'[p].entry = s.entry
  <2> HIDE DEF s
  <2>1. QED BY <1>1, <1>3 DEF ProcessState
<1>5. /\ stateVariables' = stateVariables /\ updatesFinalized' = updatesFinalized
      /\ bootstraps' = bootstraps /\ crashes' = crashes /\ bindings' = bindings
  BY <1>2 DEF vars
<1>6. \A e \in ExecutionIds, k \in {0, 1} : Stored(TransferOutput[e], k)' = Stored(TransferOutput[e], k)
  <2>1. \A e \in ExecutionIds : TransferOutput[e] # d
    BY <1>1, BalanceIdsAssumption
  <2> HIDE DEF d
  <2>2. QED BY <1>2, <2>1 DEF Stored, With, Row
<1>7. bootstraps # 0
  BY <1>1 DEF TrailInv, NothingYet, Idle
<1>8. ASSUME bootstraps = 1 PROVE RowsAreKnown'
  <2>1. \A f \in DataIds, k \in {0, 1} : Stored(f, k)' => Stored(f, k) \/ f = d
    <3> HIDE DEF d
    <3>1. QED BY <1>2 DEF Stored, With, Row
  <2>2. RowsAreKnown
    BY <1>8 DEF TrailInv
  <2>3. QED
    BY <1>1, <1>5, <2>1, <2>2 DEF RowsAreKnown
<1>9. ASSUME bootstraps = 1 PROVE BootOK(process[p])' /\ ResultOK(process[p])'
  <2>1. BootOK(s)
    BY <1>9 DEF TrailInv
  <2>2. <<d, 0>> \in DOMAIN slots' /\ slots'[<<d, 0>>] = InitialValue[v]
    <3> HIDE DEF d
    <3>1. QED BY <1>2 DEF With, Row
  <2>3. BootOK(process[p])'
    BY <1>1, <1>4, <1>5, <1>6, <2>1, <2>2 DEF BootOK, BootPhases, Stored
  <2>4. QED
    BY <1>4, <2>3 DEF ResultOK
<1>10. ASSUME bootstraps = 1, NEW w \in Variables PROVE Follows(p, w)'
  <2>1. Follows(p, w) /\ updatesFinalized \subseteq ExecutionIds
    BY <1>10 DEF TrailInv, SystemInv, RegistryInv, TypeOK
  <2>2. ~At(p, "commit")
    BY <1>1 DEF At
  <2>3. QED
    BY <1>5, <1>6, <2>1, <2>2 DEF Follows, Bound
<1>11. QED
  BY <1>5, <1>7, <1>8, <1>9, <1>10 DEF TrailInv, NothingYet

LEMMA TrailOfName ==
  ASSUME NEW p \in Processes, SystemInv, TrailInv(p), BootstrapEntry(p), At(p, "name"), ~End(p)
  PROVE  TrailInv(p)'
<1> DEFINE s == process[p]
           v == BootOrder[s.entry]
           d == InitialData[v]
<1>1. /\ s.at = "name" /\ s.entry \in 1..4 /\ v \in Variables /\ d \in DataIds
      /\ bindings \in [Variables -> Binding] /\ process \in [Processes -> ProcessState]
      /\ s \in ProcessState
  BY TheFourVariables, TheParties
     DEF At, SystemInv, WorkerTyped, ProcessesTyped, CommandOK, BootPhases, DatabaseTyped
<1>2. /\ bindings' = [bindings EXCEPT ![v] = [data |-> d, slot |-> 0]]
      /\ Continue(p, "register") /\ UNCHANGED <<vars, slots, bootstraps, crashes>>
  BY <1>1 DEF BootstrapEntry, At
<1>3. process'[p] = [s EXCEPT !.at = "register"]
  BY <1>1, <1>2 DEF Continue, Go
<1>4. process'[p].at = "register" /\ process'[p].entry = s.entry
  <2> HIDE DEF s
  <2>1. QED BY <1>1, <1>3 DEF ProcessState
<1>5. /\ stateVariables' = stateVariables /\ updatesFinalized' = updatesFinalized
      /\ bootstraps' = bootstraps /\ crashes' = crashes /\ slots' = slots
  BY <1>2 DEF vars
<1>6. bootstraps # 0
  BY <1>1 DEF TrailInv, NothingYet, Idle
<1>7. ASSUME bootstraps = 1 PROVE RowsAreKnown' /\ BootOK(process[p])' /\ ResultOK(process[p])'
  <2>1. BootOK(s) /\ RowsAreKnown
    BY <1>7 DEF TrailInv
  <2>2. bindings'[v] = [data |-> d, slot |-> 0]
    BY <1>1, <1>2
  <2>3. BootOK(process[p])'
    BY <1>1, <1>4, <1>5, <2>1, <2>2 DEF BootOK, BootPhases, Stored
  <2>4. RowsAreKnown'
    BY <1>5, <2>1 DEF RowsAreKnown, Stored
  <2>5. QED
    BY <1>4, <2>3, <2>4 DEF ResultOK
<1>8. ASSUME bootstraps = 1, NEW w \in Variables PROVE Follows(p, w)'
  <2>1. CASE w = v
    <3>1. ~stateVariables[v].exists
      BY <1>1, <1>8 DEF TrailInv, BootOK, BootPhases
    <3>2. QED
      BY <1>5, <2>1, <3>1 DEF Follows
  <2>2. CASE w # v
    <3>1. bindings'[w] = bindings[w]
      BY <1>1, <1>2, <2>2
    <3>2. Follows(p, w) /\ ~At(p, "commit")
      BY <1>1, <1>8 DEF TrailInv, At
    <3>3. QED
      BY <1>5, <3>1, <3>2 DEF Follows, Bound, Stored
  <2>3. QED
    BY <2>1, <2>2
<1>9. QED
  BY <1>5, <1>6, <1>7, <1>8 DEF TrailInv, NothingYet

LEMMA TrailOfRegister ==
  ASSUME NEW p \in Processes, SystemInv, TrailInv(p), BootstrapEntry(p),
         At(p, "register") \/ At(p, "locate")
  PROVE  TrailInv(p)'
<1> DEFINE s == process[p]
<1>1. s \in ProcessState /\ process \in [Processes -> ProcessState] /\ s.at \in {"register", "locate"}
  BY DEF SystemInv, WorkerTyped, ProcessesTyped, At
<1>2. CASE End(p)
  BY <1>1, <1>2, TrailOfEnds DEF At
<1>3. CASE ~End(p)
  <2>1. /\ UNCHANGED <<bindingVars, databaseVars, bootstraps, crashes>>
        /\ Continue(p, "locate") \/ Continue(p, "declare")
    BY <1>1, <1>3 DEF BootstrapEntry, At, RegisterData, RegisterDataLocations
  <2>2. PICK step \in {"locate", "declare"} : process'[p] = [s EXCEPT !.at = step]
    BY <1>1, <2>1 DEF Continue, Go
  <2>3. process'[p].at \in {"locate", "declare"} /\ process'[p].entry = s.entry
    <3> HIDE DEF s
    <3>1. QED BY <1>1, <2>2 DEF ProcessState
  <2>4. bootstraps # 0
    BY <1>1 DEF TrailInv, NothingYet, Idle
  <2>5. ASSUME bootstraps = 1 PROVE BootOK(process[p])' /\ ResultOK(process[p])'
    <3>1. BootOK(s)
      BY <2>5 DEF TrailInv
    <3>2. /\ slots' = slots /\ bindings' = bindings /\ stateVariables' = stateVariables
      BY <2>1 DEF databaseVars, bindingVars
    <3>3. BootOK(process[p])'
      BY <1>1, <2>3, <3>1, <3>2 DEF BootOK, BootPhases, Stored
    <3>4. QED
      BY <2>3, <3>3 DEF ResultOK
  <2>6. ~At(p, "commit")
    BY <1>1 DEF At
  <2>7. QED
    BY <2>1, <2>4, <2>5, <2>6, TrailKept
<1>4. QED
  BY <1>2, <1>3

LEMMA TrailOfDeclare ==
  ASSUME NEW p \in Processes, SystemInv, TrailInv(p), BootstrapEntry(p), At(p, "declare")
  PROVE  TrailInv(p)'
<1> DEFINE s == process[p]
           v == BootOrder[s.entry]
           d == InitialData[v]
<1>1. /\ s.at = "declare" /\ s.entry \in 1..4 /\ v \in Variables /\ d \in DataIds
      /\ process \in [Processes -> ProcessState]
      /\ stateVariables \in [Variables -> StateVariable]
  BY TheFourVariables, TheParties
     DEF At, SystemInv, WorkerTyped, ProcessesTyped, CommandOK, BootPhases, RegistryInv, TypeOK
<1>2. /\ DeclareStateVariable(runtime, BalanceContract, v, d)
      /\ Go(p, IF process[p].entry = 4 THEN Idle
               ELSE [Idle EXCEPT !.at = "insert", !.entry = process[p].entry + 1])
      /\ UNCHANGED <<databaseVars, bootstraps, crashes>>
  BY <1>1 DEF BootstrapEntry, At
<1>3. /\ updatesFinalized' = updatesFinalized /\ slots' = slots /\ bindings' = bindings
      /\ bootstraps' = bootstraps /\ crashes' = crashes
      /\ stateVariables'[v].exists /\ stateVariables'[v].dataId = d
      /\ \A w \in Variables \ {v} : stateVariables'[w] = stateVariables[w]
  BY <1>1, <1>2 DEF DeclareStateVariable, databaseVars
<1>4. /\ process'[p].at # "commit"
      /\ process'[p].at \in BootPhases =>
           /\ process'[p].at = "insert" /\ s.entry # 4 /\ process'[p].entry = s.entry + 1
      /\ process'[p].at \notin {"locations", "update", "commit"}
  BY <1>1, <1>2 DEF Go, Idle, BootPhases
<1>5. bootstraps # 0
  BY <1>1 DEF TrailInv, NothingYet, Idle
<1>6. ASSUME bootstraps = 1
      PROVE  BootOK(s) /\ RowsAreKnown /\ \A w \in Variables : Follows(p, w)
  BY <1>6 DEF TrailInv
<1>7. ASSUME bootstraps = 1 PROVE BootOK(process[p])'
  <2>1. ASSUME NEW i \in (s.entry + 1)..4 PROVE ~stateVariables'[BootOrder[i]].exists
    <3>1. i \in s.entry..4 /\ i # s.entry /\ i \in 1..4
      BY <1>1
    <3>2. BootOrder[i] # v
      BY <1>1, <3>1, BalanceAssumption
    <3>3. BootOrder[i] \in Variables
      BY <3>1, TheFourVariables
    <3>4. ~stateVariables[BootOrder[i]].exists
      BY <1>1, <1>6, <1>7, <3>1 DEF BootOK, BootPhases
    <3>5. QED
      BY <1>3, <3>2, <3>3, <3>4
  <2>2. \A e \in ExecutionIds : ~Stored(TransferOutput[e], 0)'
    BY <1>1, <1>3, <1>6, <1>7 DEF BootOK, BootPhases, Stored
  <2>3. QED
    BY <1>4, <2>1, <2>2 DEF BootOK
<1>8. ASSUME bootstraps = 1, NEW w \in Variables PROVE Follows(p, w)'
  <2>1. CASE w = v
    <3>1. bindings[v] = [data |-> d, slot |-> 0]
      BY <1>1, <1>6, <1>8 DEF BootOK, BootPhases
    <3>2. bindings[v] # NoRow
      BY <1>1, <3>1, NullFacts DEF NoRow
    <3>3. QED
      BY <1>3, <2>1, <3>1, <3>2 DEF Follows, Bound
  <2>2. CASE w # v
    <3>1. Follows(p, w) /\ ~At(p, "commit")
      BY <1>1, <1>6, <1>8 DEF At
    <3>2. stateVariables'[w] = stateVariables[w]
      BY <1>3, <2>2
    <3>3. QED
      BY <1>3, <3>1, <3>2 DEF Follows, Bound, Stored
  <2>3. QED
    BY <2>1, <2>2
<1>9. ASSUME bootstraps = 1 PROVE RowsAreKnown' /\ ResultOK(process[p])'
  BY <1>3, <1>4, <1>6, <1>9 DEF RowsAreKnown, Stored, ResultOK
<1>10. QED
  BY <1>3, <1>5, <1>7, <1>8, <1>9 DEF TrailInv, NothingYet

(* The steps of a transfer before its update.                               *)
LEMMA TrailOfReads ==
  ASSUME NEW p \in Processes, SystemInv, TrailInv(p),
         \/ \E e \in ExecutionIds : Process(p, e)
         \/ ReadReceiverBinding(p) \/ Assign(p) \/ Run(p) \/ Evaluate(p)
  PROVE  TrailInv(p)'
<1> DEFINE s == process[p]
<1>1. s \in ProcessState /\ process \in [Processes -> ProcessState] /\ Idle \in ProcessState
  BY BindingFacts DEF SystemInv, WorkerTyped, ProcessesTyped
<1>2. CASE End(p) /\ ~At(p, "commit")
  BY <1>2, TrailOfEnds
<1>3. ASSUME UNCHANGED <<bindingVars, databaseVars, bootstraps, crashes>>,
             process'[p].at \in {"bind", "submit"} \cup BindPhases, ~At(p, "commit"), bootstraps # 0
      PROVE  TrailInv(p)'
  <2>1. BootOK(process[p])' /\ ResultOK(process[p])'
    BY <1>3 DEF BootOK, ResultOK, BootPhases, BindPhases
  <2>2. QED
    BY <1>3, <2>1, TrailKept
<1>4. ASSUME NEW e \in ExecutionIds, Process(p, e) PROVE TrailInv(p)'
  <2>1. process'[p].at = "bind"
    <3>1. process'[p] = [Idle EXCEPT !.at = "bind", !.e = e, !.sender = bindings[BalanceVariable[User]]]
      BY <1>1, <1>4 DEF Process, Go
    <3>2. QED
      BY <3>1 DEF Idle
  <2>2. bootstraps # 0
    <3>1. BalanceVariable[User] \in Variables /\ BalanceVariable[User] \in Declared
      BY TheFourVariables DEF Declared
    <3>2. QED
      BY <1>4, <3>1 DEF Process, TrailInv, NothingYet
  <2>3. ~At(p, "commit")
    <3>1. process[p] = Idle /\ Idle.at = "idle"
      BY <1>4 DEF Process, Idle
    <3>2. QED
      BY <3>1 DEF At
  <2>4. QED
    BY <1>3, <1>4, <2>1, <2>2, <2>3 DEF Process, vars, bindingVars
<1>5. CASE ReadReceiverBinding(p)
  <2>1. s.at = "bind" /\ process'[p] = [s EXCEPT !.at = "assign",
                                               !.receiver = bindings[BalanceVariable[Receiver]]]
    BY <1>1, <1>5 DEF ReadReceiverBinding, Go, At
  <2>2. process'[p].at = "assign"
    <3> HIDE DEF s
    <3>1. QED BY <1>1, <2>1 DEF ProcessState
  <2>3. bootstraps # 0 /\ ~At(p, "commit")
    BY <2>1 DEF TrailInv, NothingYet, Idle, At
  <2>4. QED
    BY <1>3, <1>5, <2>2, <2>3 DEF ReadReceiverBinding, vars, bindingVars, BindPhases
<1>6. CASE (Assign(p) \/ Run(p)) /\ ~End(p)
  <2>1. /\ s.at \in {"assign", "run"}
        /\ Continue(p, "run") \/ Continue(p, "evaluate")
        /\ UNCHANGED <<bindingVars, databaseVars, bootstraps, crashes>>
    BY <1>6 DEF Assign, Run, At, AssignCommittee, MarkRunning
  <2>2. PICK step \in {"run", "evaluate"} : process'[p] = [s EXCEPT !.at = step]
    BY <1>1, <2>1 DEF Continue, Go
  <2>3. process'[p].at \in {"run", "evaluate"}
    <3> HIDE DEF s
    <3>1. QED BY <1>1, <2>2 DEF ProcessState
  <2>4. bootstraps # 0 /\ ~At(p, "commit")
    BY <2>1 DEF TrailInv, NothingYet, Idle, At
  <2>5. QED
    BY <1>3, <2>1, <2>3, <2>4 DEF BindPhases
<1>7. CASE Evaluate(p) /\ ~End(p)
  <2>1. /\ s.at = "evaluate"
        /\ \E values : Go(p, [s EXCEPT !.at = "submit", !.result = values])
        /\ UNCHANGED <<bindingVars, databaseVars, bootstraps, crashes>>
    BY <1>7 DEF Evaluate, At, vars, bindingVars
  <2>2. PICK values : process'[p] = [s EXCEPT !.at = "submit", !.result = values]
    BY <1>1, <2>1 DEF Go
  <2>3. process'[p].at = "submit"
    <3> HIDE DEF s
    <3>1. QED BY <1>1, <2>2 DEF ProcessState
  <2>4. bootstraps # 0 /\ ~At(p, "commit")
    BY <2>1 DEF TrailInv, NothingYet, Idle, At
  <2>5. QED
    BY <1>3, <2>1, <2>3, <2>4
<1>8. Assign(p) \/ Run(p) \/ Evaluate(p) => ~At(p, "commit")
  BY DEF Assign, Run, Evaluate, At
<1>9. QED
  BY <1>2, <1>4, <1>5, <1>6, <1>7, <1>8

(* The result that is submitted is the one that the process updates with.   *)
LEMMA TrailOfSubmit ==
  ASSUME NEW p \in Processes, SystemInv, SystemInv', TrailInv(p), [Next]_vars,
         Submit(p) \/ Locate(p)
  PROVE  TrailInv(p)'
<1> DEFINE s == process[p]
<1>1. /\ s \in ProcessState /\ process \in [Processes -> ProcessState] /\ CommandOK(s)
      /\ executions \in [ExecutionIds -> Execution]
  BY DEF SystemInv, WorkerTyped, ProcessesTyped, RegistryInv, TypeOK
<1>2. s.at \in {"submit", "locations"}
  BY DEF Submit, Locate, At
<1>3. CASE End(p)
  BY <1>2, <1>3, TrailOfEnds DEF At
<1>4. s.e \in ExecutionIds
  BY <1>1, <1>2 DEF CommandOK, TransferPhases, ResultPhases
<1>5. CASE ~End(p)
  <2>1. UNCHANGED <<bindingVars, databaseVars, bootstraps, crashes>>
    BY <1>5 DEF Submit, Locate, SubmitResult, RegisterDataLocations
  <2>2. Continue(p, "locations") \/ Continue(p, "update")
    BY <1>5 DEF Submit, Locate
  <2>3. PICK step \in {"locations", "update"} : process'[p] = [s EXCEPT !.at = step]
    BY <1>1, <2>2 DEF Continue, Go
  <2>4. process'[p].at \in {"locations", "update"} /\ process'[p].e = s.e
    <3> HIDE DEF s
    <3>1. QED BY <1>1, <2>3 DEF ProcessState
  <2>5. bootstraps # 0 /\ ~At(p, "commit")
    BY <1>2 DEF TrailInv, NothingYet, Idle, At
  <2>6. ASSUME bootstraps = 1
        PROVE  /\ executions'[s.e].status = "Completed"
               /\ executions'[s.e].outputId = TransferOutput[s.e]
    <3>1. CASE Submit(p)
      <4>1. executions' = [executions EXCEPT ![s.e] =
              CompletedExecution(@, TransferOutput[s.e], DerivedRoot(s.e))]
        BY <1>5, <3>1 DEF Submit, SubmitResult
      <4>2. executions'[s.e] =
              CompletedExecution(executions[s.e], TransferOutput[s.e], DerivedRoot(s.e))
        BY <1>1, <1>4, <4>1
      <4>3. executions[s.e] \in Execution
        BY <1>1, <1>4
      <4>4. QED
        BY <4>2, <4>3 DEF CompletedExecution, Execution
    <3>2. CASE Locate(p)
      <4>1. executions' = executions /\ s.at = "locations"
        BY <3>2 DEF Locate, RegisterDataLocations, At
      <4>2. ResultOK(s)
        BY <2>6 DEF TrailInv
      <4>3. QED
        BY <4>1, <4>2 DEF ResultOK
    <3>3. QED
      BY <3>1, <3>2
  <2>7. bootstraps = 1 => BootOK(process[p])' /\ ResultOK(process[p])'
    <3> HIDE DEF s
    <3>1. QED BY <2>4, <2>6 DEF BootOK, ResultOK, BootPhases
  <2>8. QED
    BY <2>1, <2>5, <2>7, TrailKept
<1>6. QED
  BY <1>3, <1>5

(* The update of the variables: the database trails by this result.         *)
LEMMA TrailOfUpdate ==
  ASSUME NEW p \in Processes, SystemInv, TrailInv(p), Update(p)
  PROVE  TrailInv(p)'
<1> DEFINE s == process[p]
           e == process[p].e
           d == TransferOutput[e]
<1>1. /\ s \in ProcessState /\ process \in [Processes -> ProcessState]
      /\ s.at = "update" /\ e \in ExecutionIds /\ d \in DataIds
      /\ stateVariables \in [Variables -> StateVariable] /\ updatesFinalized \subseteq ExecutionIds
  <2>1. CommandOK(s) /\ s.at = "update"
    BY DEF SystemInv, WorkerTyped, ProcessesTyped, Update, At
  <2>2. e \in ExecutionIds
    BY <2>1 DEF CommandOK, TransferPhases, ResultPhases
  <2>3. QED
    BY <2>1, <2>2, TheParties DEF SystemInv, WorkerTyped, ProcessesTyped, RegistryInv, TypeOK
<1>2. /\ UpdateStateVariablesAfterResult(runtime, e, Balances, CommitteeMembers)
      /\ Continue(p, "commit") /\ UNCHANGED <<databaseVars, bootstraps, crashes>>
  BY DEF Update, Balances
<1>3. bootstraps # 0
  BY <1>1 DEF TrailInv, NothingYet, Idle
<1>4. process'[p].at = "commit" /\ process'[p].e = e
  <2>1. process'[p] = [s EXCEPT !.at = "commit"]
    BY <1>1, <1>2 DEF Continue, Go
  <2>2. s.e = e
    OBVIOUS
  <2> HIDE DEF s, e
  <2>3. QED BY <1>1, <2>1, <2>2 DEF ProcessState
<1> SUFFICES ASSUME bootstraps = 1 PROVE TrailInv(p)'
  BY <1>2, <1>3 DEF TrailInv, NothingYet
<1>5. executions[e].outputId = d /\ RowsAreKnown /\ \A v \in Variables : Follows(p, v)
  BY <1>1 DEF TrailInv, ResultOK
<1> HIDE DEF s, e, d
<1>6. /\ e \notin updatesFinalized /\ updatesFinalized' = updatesFinalized \cup {e}
      /\ slots' = slots /\ bindings' = bindings /\ crashes' = crashes /\ bootstraps' = bootstraps
      /\ \A v \in Variables \ Balances : stateVariables'[v] = stateVariables[v]
      /\ \A v \in Balances : stateVariables[v].exists
  BY <1>2 DEF UpdateStateVariablesAfterResult, databaseVars
<1>7. \A v \in Balances : stateVariables'[v].dataId = d
  <2>1. ASSUME NEW v \in Balances PROVE stateVariables'[v].dataId = d
    <3>1. v \in Variables
      BY TheFourVariables DEF Balances
    <3>2. stateVariables'[v] = Rebound(stateVariables[v], d) /\ stateVariables[v] \in StateVariable
      BY <1>1, <1>2, <1>5, <3>1 DEF UpdateStateVariablesAfterResult
    <3>3. QED
      BY <3>2 DEF Rebound, StateVariable
  <2>2. QED
    BY <2>1
<1>8. ~Stored(d, 0)
  <2>1. ASSUME Stored(d, 0) PROVE FALSE
    <3>1. \/ \E v \in Variables : d = InitialData[v]
          \/ \E f \in updatesFinalized : d = TransferOutput[f]
      BY <1>1, <1>5, <2>1 DEF RowsAreKnown
    <3>2. QED
      BY <1>1, <1>6, <3>1, BalanceIdsAssumption DEF d
  <2>2. QED
    BY <2>1
<1>9. ASSUME NEW v \in Variables PROVE Follows(p, v)'
  <2>1. CASE v \in Balances
    <3>1. Bound(v)
      BY <1>5, <1>6, <2>1 DEF Follows
    <3>2. /\ e \in updatesFinalized' /\ stateVariables'[v].dataId = TransferOutput[e]
          /\ <<TransferOutput[e], 0>> \notin DOMAIN slots'
          /\ process'[p].at = "commit" /\ process'[p].e = e
      BY <1>1, <1>4, <1>6, <1>7, <1>8, <2>1 DEF d, Stored
    <3>3. QED
      BY <1>6, <3>1, <3>2 DEF Follows, Bound, Stored, At
  <2>2. CASE v \notin Balances
    BY <1>5, <1>6, <2>2 DEF Follows, Bound
  <2>3. QED
    BY <2>1, <2>2
<1>10. RowsAreKnown' /\ BootOK(process[p])'
  BY <1>4, <1>5, <1>6 DEF RowsAreKnown, Stored, BootOK, BootPhases
<1>11. ResultOK(process[p])'
  BY <1>4, <1>6, <1>7, <1>8 DEF ResultOK, Stored, d
<1>12. QED
  BY <1>3, <1>6, <1>9, <1>10, <1>11 DEF TrailInv, NothingYet

(* The commit: the database has what the chain refers to.                   *)
LEMMA TrailOfCommit ==
  ASSUME NEW p \in Processes, SystemInv, TrailInv(p), Commit(p)
  PROVE  TrailInv(p)'
<1> DEFINE s == process[p]
           e == process[p].e
           d == TransferOutput[e]
           new == [k \in {<<d, 0>>, <<d, 1>>} |-> process[p].result[k[2] + 1]]
<1>1. /\ process \in [Processes -> ProcessState] /\ s.at = "commit"
      /\ e \in ExecutionIds /\ d \in DataIds /\ bindings \in [Variables -> Binding]
  <2>1. CommandOK(s) /\ s.at = "commit"
    BY DEF SystemInv, WorkerTyped, ProcessesTyped, Commit, At
  <2>2. e \in ExecutionIds
    BY <2>1 DEF CommandOK, TransferPhases, ResultPhases
  <2>3. QED
    BY <2>1, <2>2, TheParties DEF SystemInv, WorkerTyped, ProcessesTyped, DatabaseTyped
<1>2. /\ slots' = With(slots, new) /\ bindings' = BoundTo(d) /\ Go(p, Idle)
      /\ UNCHANGED <<vars, bootstraps, crashes>> /\ DOMAIN new = {<<d, 0>>, <<d, 1>>}
  BY DEF Commit
<1> HIDE DEF new
<1>3. bootstraps # 0
  BY <1>1 DEF TrailInv, NothingYet, Idle
<1>4. process'[p] = Idle
  BY <1>1, <1>2 DEF Go
<1>5. /\ stateVariables' = stateVariables /\ updatesFinalized' = updatesFinalized
      /\ bootstraps' = bootstraps
  BY <1>2 DEF vars
<1> SUFFICES ASSUME bootstraps = 1 PROVE TrailInv(p)'
  BY <1>3, <1>5 DEF TrailInv, NothingYet
<1>6. /\ RowsAreKnown /\ e \in updatesFinalized
      /\ \A v \in Variables : Follows(p, v)
      /\ \A v \in Balances : stateVariables[v].dataId = d
  BY <1>1 DEF TrailInv, ResultOK
<1> HIDE DEF s, e, d
<1>7. RowsAreKnown'
  <2>1. \A f \in DataIds, k \in {0, 1} : Stored(f, k)' => Stored(f, k) \/ f = d
    BY <1>2 DEF Stored, With
  <2>2. QED
    BY <1>5, <1>6, <2>1 DEF RowsAreKnown, d
<1>8. \A v \in Balances : bindings'[v].data = d
  BY <1>1, <1>2, TheFourVariables DEF BoundTo, Balances
<1>9. \A v \in Variables \ Balances : bindings'[v] = bindings[v]
  BY <1>1, <1>2 DEF BoundTo, Balances
<1>10. ASSUME NEW v \in Variables PROVE Follows(p, v)'
  <2>1. CASE v \in Balances
    <3>1. Bound(v)'
      BY <1>1, <1>8, <2>1, NullFacts DEF Bound, NoRow
    <3>2. QED
      BY <1>5, <1>6, <1>8, <2>1, <3>1 DEF Follows
  <2>2. CASE v \notin Balances
    BY <1>5, <1>6, <1>9, <2>2 DEF Follows, Bound
  <2>3. QED
    BY <2>1, <2>2
<1>11. BootOK(process[p])' /\ ResultOK(process[p])'
  BY <1>4 DEF BootOK, ResultOK, Idle, BootPhases
<1>12. QED
  BY <1>3, <1>5, <1>7, <1>10, <1>11 DEF TrailInv, NothingYet

LEMMA TrailStep ==
  ASSUME NEW p, Processes = {p}, SystemInv, TrailInv(p), [BalanceNext]_allVars
  PROVE  TrailInv(p)'
<1>1. p \in Processes /\ SystemInv' /\ [Next]_vars
  BY SystemStep
<1>2. CASE UNCHANGED allVars
  BY <1>1, <1>2, TrailOfOthers DEF allVars, vars, bindingVars
<1>3. CASE \/ Deploy
           \/ \E receiver \in HolderAccounts, e \in ExecutionIds, t \in Times :
                ConditionalTransfer(User, receiver, e, t)
           \/ \E n \in PickNonces, t \in Times : RequestMyBalance(User, n, t)
           \/ Tick /\ UNCHANGED workerVars
  <2>1. UNCHANGED <<bindingVars, workerVars>>
    BY <1>3 DEF Deploy, PublishContract, PublishFunction, FinalizeCommittee, ConditionalTransfer,
                Invoke, RequestMyBalance, RequestVariablePickFor, AddPick, Tick
  <2>2. QED
    BY <1>1, <2>1, TrailOfOthers
<1>4. CASE Bootstrap(p)
  <2>1. /\ bootstraps' = bootstraps + 1 /\ stateVariables' = stateVariables
        /\ slots' = <<>> /\ process'[p] = [Idle EXCEPT !.at = "insert", !.entry = 1]
        /\ bootstraps \in Nat
    BY <1>1, <1>4 DEF Bootstrap, Go, SystemInv, WorkerTyped, ProcessesTyped, vars
  <2>2. bootstraps' # 0 /\ (bootstraps' = 1 => bootstraps = 0)
    BY <2>1
  <2>3. process'[p].at = "insert" /\ process'[p].entry = 1
    BY <2>1 DEF Idle
  <2>4. DOMAIN slots' = {}
    BY <2>1
  <2>5. ASSUME bootstraps = 0 PROVE \A v \in Variables : ~stateVariables'[v].exists
    BY <2>1, <2>5 DEF TrailInv, NothingYet
  <2>6. ASSUME bootstraps = 0
        PROVE  /\ RowsAreKnown' /\ BootOK(process[p])' /\ ResultOK(process[p])'
               /\ \A v \in Variables : Follows(p, v)'
    <3>1. RowsAreKnown' /\ ResultOK(process[p])'
      BY <2>3, <2>4 DEF RowsAreKnown, Stored, ResultOK
    <3>2. BootOK(process[p])'
      BY <2>3, <2>4, <2>5, <2>6, TheFourVariables DEF BootOK, Stored
    <3>3. QED
      BY <2>5, <2>6, <3>1, <3>2 DEF Follows
  <2>7. QED
    BY <2>2, <2>6 DEF TrailInv, NothingYet
<1>5. CASE BootstrapEntry(p)
  <2>1. CASE End(p) /\ (At(p, "insert") \/ At(p, "name"))
    BY <1>1, <2>1, TrailOfEnds DEF At
  <2>2. QED
    BY <1>1, <1>5, <2>1, TrailOfInsert, TrailOfName, TrailOfRegister, TrailOfDeclare
       DEF BootstrapEntry
<1>6. CASE \/ \E e \in ExecutionIds : Process(p, e)
           \/ ReadReceiverBinding(p) \/ Assign(p) \/ Run(p) \/ Evaluate(p)
  BY <1>1, <1>6, TrailOfReads
<1>7. CASE Submit(p) \/ Locate(p)
  BY <1>1, <1>7, TrailOfSubmit
<1>8. CASE Update(p)
  BY <1>1, <1>8, TrailOfUpdate
<1>9. CASE Commit(p)
  BY <1>1, <1>9, TrailOfCommit
<1>10. CASE Crash(p)
  BY <1>1, <1>10, TrailOfEnds
<1>11. ASSUME NEW q \in Processes PROVE q = p
  OBVIOUS
<1>12. QED
  BY <1>2, <1>3, <1>4, <1>5, <1>6, <1>7, <1>8, <1>9, <1>10, <1>11 DEF BalanceNext, ProcessStep

LEMMA TrailAlways ==
  ASSUME NEW p, Processes = {p}
  PROVE  BalanceSpec => [](SystemInv /\ TrailInv(p))
<1>1. BalanceInit => TrailInv(p)
  BY DEF BalanceInit, Init, TrailInv, NothingYet
<1>2. SystemInv /\ TrailInv(p) /\ [BalanceNext]_allVars => TrailInv(p)'
  BY TrailStep
<1>3. QED
  BY <1>1, <1>2, SystemInit, SystemStep, PTL DEF BalanceSpec

(* Wherever the one process crashes and whatever it repeats, the database   *)
(* is behind the chain by no more than the result whose commit it owes.     *)
THEOREM TrailsByOneResult ==
  ASSUME NEW p, Processes = {p}
  PROVE  BalanceSpec => []DatabaseTrailsByOneResult
<1>1. SystemInv /\ TrailInv(p) => DatabaseTrailsByOneResult
  <2> SUFFICES ASSUME SystemInv, TrailInv(p), Bootstrapped, bootstraps = 1, NEW v \in Balances
               PROVE  \/ stateVariables[v].dataId = bindings[v].data
                      \/ \E e \in updatesFinalized :
                           /\ stateVariables[v].dataId = TransferOutput[e]
                           /\ e \notin Persisted
                           /\ (\E q \in Processes : At(q, "commit") /\ process[q].e = e)
                                \/ crashes > 0
    BY DEF DatabaseTrailsByOneResult, Balances
  <2>1. v \in Variables /\ v \in Declared
    BY TheFourVariables DEF Balances, Declared
  <2>2. Follows(p, v) /\ stateVariables[v].exists /\ p \in Processes
    BY <2>1 DEF TrailInv, Bootstrapped
  <2>3. QED
    BY <2>2 DEF Follows, Persisted
<1>2. QED
  BY <1>1, TrailAlways, PTL

-----------------------------------------------------------------------------
(* The balances after so many transfers *)

InitialBalances ==
  <<InitialValue[BalanceVariable[User]], InitialValue[BalanceVariable[Receiver]]>>

\* The first k of them, as a function that satisfies the recursion.
FirstBalances(f, k) ==
  f = [n \in 0..k |-> IF n = 0 THEN InitialBalances ELSE Moved(f[n - 1])]

(* If there were none for some k there would be a least, and the function   *)
(* for the number before extends to it.                                     *)
LEMMA BalancesExist ==
  ASSUME NEW N \in Nat
  PROVE  \E f : FirstBalances(f, N)
<1> DEFINE Failing == {k \in Nat : ~\E f : FirstBalances(f, k)}
<1>1. CASE Failing = {}
  BY <1>1
<1>2. CASE Failing # {}
  <2>1. PICK k \in Failing : \A j \in Failing : k <= j
    <3>1. Failing \subseteq Nat
      OBVIOUS
    <3> HIDE DEF Failing
    <3>2. QED BY <1>2, <3>1, LeastNumber
  <2>2. k \in Nat /\ ~\E f : FirstBalances(f, k)
    BY <2>1
  <2>3. k # 0
    <3> DEFINE f == [n \in 0..0 |-> InitialBalances]
    <3>1. f = [n \in 0..0 |-> IF n = 0 THEN InitialBalances ELSE Moved(f[n - 1])]
      OBVIOUS
    <3>2. FirstBalances(f, 0)
      BY <3>1 DEF FirstBalances
    <3>3. QED
      BY <2>2, <3>2
  <2>4. k - 1 \in Nat /\ k - 1 \notin Failing
    BY <2>1, <2>2, <2>3
  <2>5. PICK f : FirstBalances(f, k - 1)
    BY <2>4
  <2> DEFINE g == [n \in 0..k |-> IF n = k THEN Moved(f[k - 1]) ELSE f[n]]
  <2>6. \A n \in 0..(k - 1) : f[n] = IF n = 0 THEN InitialBalances ELSE Moved(f[n - 1])
    BY <2>5 DEF FirstBalances
  <2>7. ASSUME NEW n \in 0..k
        PROVE  g[n] = IF n = 0 THEN InitialBalances ELSE Moved(g[n - 1])
    <3>1. CASE n = k
      <4>1. k - 1 \in 0..k /\ k - 1 # k
        BY <2>2, <2>3
      <4>2. g[k - 1] = f[k - 1] /\ g[n] = Moved(f[k - 1])
        BY <3>1, <4>1
      <4>3. QED
        BY <2>3, <3>1, <4>2
    <3>2. CASE n # k /\ n # 0
      <4>1. n \in 0..(k - 1) /\ n - 1 \in 0..k /\ n - 1 # k
        BY <2>2, <3>2
      <4>2. g[n] = f[n] /\ g[n - 1] = f[n - 1]
        BY <3>2, <4>1
      <4>3. QED
        BY <2>6, <3>2, <4>1, <4>2
    <3>3. CASE n = 0
      <4>1. 0 \in 0..(k - 1) /\ g[0] = f[0]
        BY <2>2, <2>3
      <4>2. QED
        BY <2>6, <3>3, <4>1
    <3>4. QED
      BY <3>1, <3>2, <3>3
  <2>8. g = [n \in 0..k |-> g[n]]
    OBVIOUS
  <2> HIDE DEF g
  <2>9. FirstBalances(g, k)
    BY <2>7, <2>8 DEF FirstBalances
  <2>10. QED
    BY <2>2, <2>9
<1>3. QED
  BY <1>1, <1>2

LEMMA TransfersOneByOne ==
  /\ Cardinality(ExecutionIds) \in Nat
  /\ AfterTransfers[0] = InitialBalances
  /\ \A n \in Nat : n + 1 <= Cardinality(ExecutionIds) =>
       AfterTransfers[n + 1] = Moved(AfterTransfers[n])
<1> DEFINE N == Cardinality(ExecutionIds)
<1>1. N \in Nat
  BY BalanceAssumption, FS_CardinalityType
<1>2. \E f : FirstBalances(f, N)
  <2> HIDE DEF N
  <2>1. QED BY <1>1, BalancesExist
<1>3. AfterTransfers = CHOOSE f : FirstBalances(f, N)
  BY DEF AfterTransfers, FirstBalances, InitialBalances
<1> HIDE DEF N
<1>4. FirstBalances(AfterTransfers, N)
  BY <1>2, <1>3
<1>5. \A n \in 0..N :
        AfterTransfers[n] = IF n = 0 THEN InitialBalances ELSE Moved(AfterTransfers[n - 1])
  BY <1>4 DEF FirstBalances
<1>6. 0 \in 0..N
  BY <1>1
<1>7. ASSUME NEW n \in Nat, n + 1 <= N
      PROVE  AfterTransfers[n + 1] = Moved(AfterTransfers[n])
  <2>1. n + 1 \in 0..N /\ n + 1 # 0 /\ (n + 1) - 1 = n
    BY <1>1, <1>7
  <2>2. AfterTransfers[n + 1] = Moved(AfterTransfers[(n + 1) - 1])
    BY <1>5, <2>1
  <2>3. QED
    BY <2>1, <2>2
<1>8. QED
  BY <1>1, <1>5, <1>6, <1>7 DEF N

(* What the program computes on the values loaded is one transfer.          *)
LEMMA TransferredIsMoved ==
  ASSUME NEW values \in Nat \X Nat,
         MayTransfer(values[1], InitialValue[MinimumVariable], InitialValue[AmountVariable])
  PROVE  Transferred(values[1], values[2], InitialValue[MinimumVariable], InitialValue[AmountVariable])
           = Moved(values)
<1>1. values = <<values[1], values[2]>> /\ values[1] \in Nat /\ values[2] \in Nat
  OBVIOUS
<1>2. InitialValue[MinimumVariable] \in Nat /\ InitialValue[AmountVariable] \in Nat
  BY TheFourVariables, TheParties
<1>3. QED
  BY <1>1, <1>2 DEF MayTransfer, Transferred, Moved

-----------------------------------------------------------------------------
(* The balances of one process *)

(* The rows and the bindings stay: what remains is what the process read.   *)
LEMMA BalancesKept ==
  ASSUME NEW p, BalanceInv(p), UNCHANGED <<databaseVars, bootstraps>>,
         bootstraps = 1 => ReadOK(process[p], AfterTransfers[Cardinality(Persisted)])'
  PROVE  BalanceInv(p)'
<1>1. slots' = slots /\ bindings' = bindings /\ bootstraps' = bootstraps
  BY DEF databaseVars
<1>2. Persisted' = Persisted
  BY <1>1 DEF Persisted, Stored
<1>3. \A values : BalancesAre(values) => BalancesAre(values)'
  BY <1>1 DEF BalancesAre, Bound, Stored, ValueOf
<1>4. BindingsAreKnown => BindingsAreKnown'
  BY <1>1 DEF BindingsAreKnown, Bound
<1>5. PoliciesAreKept => PoliciesAreKept'
  BY <1>1 DEF PoliciesAreKept, Bound, Stored, PolicyValue
<1>6. QED
  BY <1>1, <1>2, <1>3, <1>4, <1>5 DEF BalanceInv

(* A process that goes on keeps what it has read.                           *)
LEMMA BalanceOfMoves ==
  ASSUME NEW p, BalanceInv(p), UNCHANGED <<databaseVars, bootstraps>>,
         \/ process'[p].at \notin TransferPhases
         \/ /\ process'[p].sender = process[p].sender /\ process'[p].receiver = process[p].receiver
            /\ process'[p].result = process[p].result
            /\ \/ process'[p].at = process[p].at
               \/ process[p].at \in BindPhases /\ process'[p].at \in BindPhases
               \/ process[p].at \in ResultPhases /\ process'[p].at \in ResultPhases
  PROVE  BalanceInv(p)'
<1>1. slots' = slots /\ bindings' = bindings /\ bootstraps' = bootstraps
  BY DEF databaseVars
<1>2. Persisted' = Persisted
  BY <1>1 DEF Persisted, Stored
<1>3. PICK values : values = AfterTransfers[Cardinality(Persisted)]
  OBVIOUS
<1>4. ASSUME bootstraps = 1 PROVE ReadOK(process[p], values)'
  <2>1. CASE process'[p].at \notin TransferPhases
    BY <2>1 DEF ReadOK, TransferPhases
  <2>2. CASE process'[p].at \in TransferPhases
    <3>1. ReadOK(process[p], values)
      BY <1>3, <1>4 DEF BalanceInv
    <3>2. QED
      BY <1>1, <2>2, <3>1 DEF ReadOK, Bound, TransferPhases, BindPhases, ResultPhases
  <2>3. QED
    BY <2>1, <2>2
<1>5. QED
  BY <1>2, <1>3, <1>4, BalancesKept DEF ReadOK

(* An end, a crash and the transactions of the chain.                       *)
LEMMA BalanceOfCalls ==
  ASSUME NEW p \in Processes, SystemInv, BalanceInv(p),
         \/ End(p) \/ Crash(p) \/ Assign(p) \/ Run(p) \/ Submit(p) \/ Locate(p) \/ Update(p)
         \/ BootstrapEntry(p) /\ ~At(p, "insert") /\ ~At(p, "name")
  PROVE  BalanceInv(p)'
<1> DEFINE s == process[p]
<1>1. s \in ProcessState /\ process \in [Processes -> ProcessState]
  BY DEF SystemInv, WorkerTyped, ProcessesTyped
<1>2. ASSUME process'[p] = Idle, UNCHANGED <<databaseVars, bootstraps>> PROVE BalanceInv(p)'
  <2>1. process'[p].at \notin TransferPhases
    BY <1>2 DEF Idle, TransferPhases, BindPhases, ResultPhases
  <2>2. QED
    BY <1>2, <2>1, BalanceOfMoves
<1>3. CASE End(p) \/ Crash(p)
  BY <1>1, <1>2, <1>3 DEF End, Crash, Go
<1>4. ASSUME NEW step \in BindPhases, s.at \in BindPhases, Continue(p, step),
             UNCHANGED <<databaseVars, bootstraps>>
      PROVE  BalanceInv(p)'
  <2>1. process'[p] = [s EXCEPT !.at = step]
    BY <1>1, <1>4 DEF Continue, Go
  <2>2. /\ process'[p].at = step /\ process'[p].sender = s.sender
        /\ process'[p].receiver = s.receiver /\ process'[p].result = s.result
    <3> HIDE DEF s
    <3>1. QED BY <1>1, <2>1 DEF ProcessState
  <2>3. QED
    BY <1>4, <2>2, BalanceOfMoves
<1>5. ASSUME NEW step \in ResultPhases, s.at \in ResultPhases, Continue(p, step),
             UNCHANGED <<databaseVars, bootstraps>>
      PROVE  BalanceInv(p)'
  <2>1. process'[p] = [s EXCEPT !.at = step]
    BY <1>1, <1>5 DEF Continue, Go
  <2>2. /\ process'[p].at = step /\ process'[p].sender = s.sender
        /\ process'[p].receiver = s.receiver /\ process'[p].result = s.result
    <3> HIDE DEF s
    <3>1. QED BY <1>1, <2>1 DEF ProcessState
  <2>3. QED
    BY <1>5, <2>2, BalanceOfMoves
<1>6. CASE (Assign(p) \/ Run(p)) /\ ~End(p)
  BY <1>4, <1>6 DEF Assign, Run, At, BindPhases
<1>7. CASE (Submit(p) \/ Locate(p) \/ Update(p)) /\ ~End(p)
  BY <1>5, <1>7 DEF Submit, Locate, Update, At, ResultPhases
<1>8. CASE BootstrapEntry(p) /\ ~At(p, "insert") /\ ~At(p, "name") /\ ~End(p)
  <2>1. UNCHANGED <<databaseVars, bootstraps>>
    BY <1>8 DEF BootstrapEntry
  <2>2. process'[p].at \notin TransferPhases
    <3>1. CASE Continue(p, "locate") \/ Continue(p, "declare")
      <4>1. PICK step \in {"locate", "declare"} : process'[p] = [s EXCEPT !.at = step]
        BY <1>1, <3>1 DEF Continue, Go
      <4>2. process'[p].at = step
        <5> HIDE DEF s
        <5>1. QED BY <1>1, <4>1 DEF ProcessState
      <4>3. QED
        BY <4>2 DEF TransferPhases, BindPhases, ResultPhases
    <3>2. CASE Go(p, IF process[p].entry = 4 THEN Idle
                     ELSE [Idle EXCEPT !.at = "insert", !.entry = process[p].entry + 1])
      BY <1>1, <3>2 DEF Go, Idle, TransferPhases, BindPhases, ResultPhases
    <3>3. QED
      BY <1>8, <3>1, <3>2 DEF BootstrapEntry
  <2>3. QED
    BY <2>1, <2>2, BalanceOfMoves
<1>9. QED
  BY <1>3, <1>6, <1>7, <1>8

(* What a process reads of the bindings.                                    *)
LEMMA BalanceOfReads ==
  ASSUME NEW p \in Processes, SystemInv, BalanceInv(p),
         (\E e \in ExecutionIds : Process(p, e)) \/ ReadReceiverBinding(p)
  PROVE  BalanceInv(p)'
<1> DEFINE s == process[p]
<1>1. s \in ProcessState /\ process \in [Processes -> ProcessState]
  BY DEF SystemInv, WorkerTyped, ProcessesTyped
<1>2. UNCHANGED <<databaseVars, bootstraps>> /\ bindings' = bindings
  BY DEF Process, ReadReceiverBinding, databaseVars
<1>3. PICK values : values = AfterTransfers[Cardinality(Persisted)]'
  OBVIOUS
<1>4. ASSUME NEW e \in ExecutionIds, Process(p, e) PROVE ReadOK(process[p], values)'
  <2>1. process'[p] = [Idle EXCEPT !.at = "bind", !.e = e, !.sender = bindings[BalanceVariable[User]]]
    BY <1>1, <1>4 DEF Process, Go
  <2>2. process'[p].at = "bind" /\ process'[p].sender = bindings[BalanceVariable[User]]
    BY <2>1 DEF Idle
  <2>3. \A v \in Declared : Bound(v)
    BY <1>4 DEF Process, Bound
  <2>4. QED
    BY <1>2, <2>2, <2>3 DEF ReadOK, Bound, BindPhases, ResultPhases
<1>5. ASSUME ReadReceiverBinding(p), bootstraps = 1 PROVE ReadOK(process[p], values)'
  <2>1. s.at = "bind" /\ process'[p] = [s EXCEPT !.at = "assign",
                                               !.receiver = bindings[BalanceVariable[Receiver]]]
    BY <1>1, <1>5 DEF ReadReceiverBinding, Go, At
  <2>2. /\ process'[p].at = "assign" /\ process'[p].sender = s.sender
        /\ process'[p].receiver = bindings[BalanceVariable[Receiver]]
    <3> HIDE DEF s
    <3>1. QED BY <1>1, <2>1 DEF ProcessState
  <2>3. (\A v \in Declared : Bound(v)) /\ s.sender = bindings[BalanceVariable[User]]
    BY <1>5, <2>1 DEF BalanceInv, ReadOK, TransferPhases
  <2>4. QED
    BY <1>2, <2>2, <2>3 DEF ReadOK, Bound, ResultPhases
<1>6. bootstraps = 1 => ReadOK(process[p], values)'
  BY <1>4, <1>5
<1>7. bootstraps = 1 => ReadOK(process[p], AfterTransfers[Cardinality(Persisted)])'
  BY <1>3, <1>6 DEF ReadOK
<1>8. QED
  BY <1>2, <1>7, BalancesKept

(* The evaluation is one transfer on the balances that are persisted.       *)
LEMMA BalanceOfEvaluate ==
  ASSUME NEW p \in Processes, SystemInv, BalanceInv(p), Evaluate(p)
  PROVE  BalanceInv(p)'
<1> DEFINE s == process[p]
           a == slots[<<s.sender.data, s.sender.slot>>]
           b == slots[<<s.receiver.data, s.receiver.slot>>]
           minimum == PolicyValue(MinimumVariable)
           amount == PolicyValue(AmountVariable)
           result == Transferred(a, b, minimum, amount)
<1>1. s \in ProcessState /\ process \in [Processes -> ProcessState] /\ s.at = "evaluate"
  BY DEF SystemInv, WorkerTyped, ProcessesTyped, Evaluate, At
<1>2. CASE End(p)
  BY <1>2, BalanceOfCalls
<1>3. CASE ~End(p)
  <2>1. /\ MayTransfer(a, minimum, amount) /\ UNCHANGED <<databaseVars, bootstraps>>
        /\ Go(p, [s EXCEPT !.at = "submit", !.result = result])
    BY <1>3 DEF Evaluate
  <2>2. process'[p] = [s EXCEPT !.at = "submit", !.result = result]
    BY <1>1, <2>1 DEF Go
  <2> HIDE DEF result
  <2>3. /\ process'[p].at = "submit" /\ process'[p].sender = s.sender
        /\ process'[p].receiver = s.receiver /\ process'[p].result = result
    <3> HIDE DEF s
    <3>1. QED BY <1>1, <2>2 DEF ProcessState
  <2>4. slots' = slots /\ bindings' = bindings
    BY <2>1 DEF databaseVars
  <2>5. Persisted' = Persisted
    BY <2>4 DEF Persisted, Stored
  <2>6. PICK values : values = AfterTransfers[Cardinality(Persisted)]
    OBVIOUS
  <2>7. ASSUME bootstraps = 1 PROVE ReadOK(process[p], values)'
    <3>1. /\ values \in Nat \X Nat /\ BalancesAre(values) /\ PoliciesAreKept
          /\ ReadOK(s, values)
      BY <2>6, <2>7 DEF BalanceInv
    <3>2. /\ \A v \in Declared : Bound(v)
          /\ s.sender = bindings[BalanceVariable[User]]
          /\ s.receiver = bindings[BalanceVariable[Receiver]]
      BY <1>1, <3>1 DEF ReadOK, TransferPhases, BindPhases
    <3>3. /\ Bound(BalanceVariable[User]) /\ Bound(BalanceVariable[Receiver])
          /\ Bound(MinimumVariable) /\ Bound(AmountVariable)
      BY <3>2 DEF Declared
    <3>4. a = values[1] /\ b = values[2]
      BY <3>1, <3>2, <3>3 DEF BalancesAre, ValueOf
    <3>5. minimum = InitialValue[MinimumVariable] /\ amount = InitialValue[AmountVariable]
      BY <3>1, <3>3 DEF PoliciesAreKept, Policies
    <3>6. result = Moved(values)
      BY <2>1, <3>1, <3>4, <3>5, TransferredIsMoved DEF result
    <3>7. QED
      BY <2>3, <2>4, <3>2, <3>6 DEF ReadOK, Bound
  <2>8. bootstraps = 1 => ReadOK(process[p], AfterTransfers[Cardinality(Persisted)])'
    BY <2>5, <2>6, <2>7 DEF ReadOK
  <2>9. QED
    BY <2>1, <2>8, BalancesKept
<1>4. QED
  BY <1>2, <1>3

(* The row that a bootstrap inserts is new: no other is written.            *)
LEMMA BalanceOfInsert ==
  ASSUME NEW p \in Processes, SystemInv, BalanceInv(p), BootstrapEntry(p), At(p, "insert"), ~End(p)
  PROVE  BalanceInv(p)'
<1> DEFINE s == process[p]
           v == BootOrder[s.entry]
           d == InitialData[v]
<1>1. /\ s.at = "insert" /\ v \in Variables
      /\ process \in [Processes -> ProcessState] /\ s \in ProcessState
  BY TheFourVariables DEF At, SystemInv, WorkerTyped, ProcessesTyped, CommandOK, BootPhases
<1>2. /\ ~Stored(d, 0) /\ slots' = With(slots, Row(d, 0, InitialValue[v]))
      /\ Continue(p, "name") /\ UNCHANGED <<vars, bindings, bootstraps, crashes>>
  BY <1>1 DEF BootstrapEntry, At
<1>3. process'[p].at = "name"
  <2>1. process'[p] = [s EXCEPT !.at = "name"]
    BY <1>1, <1>2 DEF Continue, Go
  <2> HIDE DEF s
  <2>2. QED BY <1>1, <2>1 DEF ProcessState
<1>4. SUFFICES ASSUME bootstraps = 1 PROVE BalanceInv(p)'
  BY <1>2 DEF BalanceInv
<1>5. \A e \in ExecutionIds : TransferOutput[e] # d
  BY <1>1, BalanceIdsAssumption
<1> HIDE DEF s, d
<1>6. \A f, k : Stored(f, k) => Stored(f, k)' /\ slots'[<<f, k>>] = slots[<<f, k>>]
  BY <1>2 DEF With, Row, Stored
<1>7. Persisted' = Persisted
  <2>1. \A e \in ExecutionIds : Stored(TransferOutput[e], 0)' = Stored(TransferOutput[e], 0)
    BY <1>2, <1>5 DEF With, Row, Stored
  <2>2. QED
    BY <2>1 DEF Persisted
<1>8. PICK values : values = AfterTransfers[Cardinality(Persisted)]
  OBVIOUS
<1>9. values \in Nat \X Nat /\ BalancesAre(values) /\ BindingsAreKnown /\ PoliciesAreKept
  BY <1>4, <1>8 DEF BalanceInv
<1>10. bindings' = bindings
  BY <1>2
<1>11. BalancesAre(values)'
  BY <1>6, <1>9, <1>10 DEF BalancesAre, Bound, ValueOf
<1>12. BindingsAreKnown'
  BY <1>9, <1>10 DEF BindingsAreKnown, Bound
<1>13. PoliciesAreKept'
  BY <1>6, <1>9, <1>10 DEF PoliciesAreKept, Bound, PolicyValue
<1>14. ReadOK(process[p], values)'
  BY <1>3 DEF ReadOK, TransferPhases, BindPhases, ResultPhases
<1>15. AfterTransfers[Cardinality(Persisted')] = values
  BY <1>7, <1>8
<1>16. QED
  BY <1>9, <1>11, <1>12, <1>13, <1>14, <1>15 DEF BalanceInv

(* Before the last entry of a bootstrap nothing has been persisted.         *)
LEMMA BalanceOfName ==
  ASSUME NEW p \in Processes, SystemInv, TrailInv(p), BalanceInv(p), BootstrapEntry(p),
         At(p, "name"), ~End(p)
  PROVE  BalanceInv(p)'
<1> DEFINE s == process[p]
           v == BootOrder[s.entry]
           d == InitialData[v]
<1>1. /\ s.at = "name" /\ v \in Variables /\ d \in DataIds
      /\ bindings \in [Variables -> Binding] /\ process \in [Processes -> ProcessState]
      /\ s \in ProcessState
  BY TheFourVariables, TheParties
     DEF At, SystemInv, WorkerTyped, ProcessesTyped, CommandOK, BootPhases, DatabaseTyped
<1>2. /\ bindings' = [bindings EXCEPT ![v] = [data |-> d, slot |-> 0]]
      /\ Continue(p, "register") /\ UNCHANGED <<vars, slots, bootstraps, crashes>>
  BY <1>1 DEF BootstrapEntry, At
<1>3. process'[p].at = "register"
  <2>1. process'[p] = [s EXCEPT !.at = "register"]
    BY <1>1, <1>2 DEF Continue, Go
  <2> HIDE DEF s
  <2>2. QED BY <1>1, <2>1 DEF ProcessState
<1>4. SUFFICES ASSUME bootstraps = 1 PROVE BalanceInv(p)'
  BY <1>2 DEF BalanceInv
<1>5. /\ Stored(d, 0) /\ slots[<<d, 0>>] = InitialValue[v]
      /\ \A e \in ExecutionIds : ~Stored(TransferOutput[e], 0)
  BY <1>1, <1>4 DEF TrailInv, BootOK, BootPhases
<1> HIDE DEF s, d
<1>6. /\ bindings'[v] = [data |-> d, slot |-> 0] /\ slots' = slots
      /\ \A w \in Variables \ {v} : bindings'[w] = bindings[w]
  BY <1>1, <1>2
<1>7. Persisted = {} /\ Persisted' = {}
  BY <1>5, <1>6 DEF Persisted, Stored
<1>8. AfterTransfers[Cardinality(Persisted)] = InitialBalances
  BY <1>7, TransfersOneByOne, FS_EmptySet
<1>9. /\ InitialBalances \in Nat \X Nat /\ BalancesAre(InitialBalances)
      /\ BindingsAreKnown /\ PoliciesAreKept
  BY <1>4, <1>8 DEF BalanceInv
<1>10. BalancesAre(InitialBalances)'
  <2>1. /\ InitialBalances[1] = InitialValue[BalanceVariable[User]]
        /\ InitialBalances[2] = InitialValue[BalanceVariable[Receiver]]
    BY DEF InitialBalances
  <2>2. ASSUME NEW w \in Variables, NEW x,
               Bound(w) => Stored(bindings[w].data, bindings[w].slot) /\ ValueOf(w) = x,
               w = v => InitialValue[v] = x, Bound(w)'
        PROVE  (Stored(bindings[w].data, bindings[w].slot) /\ ValueOf(w) = x)'
    <3>1. CASE w = v
      BY <1>5, <1>6, <2>2, <3>1 DEF Stored, ValueOf
    <3>2. CASE w # v
      BY <1>6, <2>2, <3>2 DEF Stored, ValueOf, Bound
    <3>3. QED
      BY <3>1, <3>2
  <2>3. BalanceVariable[User] \in Variables /\ BalanceVariable[Receiver] \in Variables
    BY TheFourVariables
  <2>4. QED
    BY <1>9, <2>1, <2>2, <2>3 DEF BalancesAre
<1>11. BindingsAreKnown'
  <2>1. ASSUME NEW w \in Variables, Bound(w)'
        PROVE  \/ bindings'[w].data = InitialData[w]
               \/ \E e \in ExecutionIds : bindings'[w].data = TransferOutput[e]
    <3>1. CASE w = v
      BY <1>6, <3>1 DEF d
    <3>2. CASE w # v
      BY <1>6, <1>9, <2>1, <3>2 DEF BindingsAreKnown, Bound
    <3>3. QED
      BY <3>1, <3>2
  <2>2. QED
    BY <2>1 DEF BindingsAreKnown
<1>12. PoliciesAreKept'
  <2>1. ASSUME NEW w \in Policies, Bound(w)'
        PROVE  (Stored(InitialData[w], 0) /\ PolicyValue(w) = InitialValue[w])'
    <3>1. CASE w = v
      BY <1>5, <1>6, <3>1 DEF Stored, PolicyValue, d
    <3>2. CASE w # v
      BY <1>6, <1>9, <2>1, <3>2, TheFourVariables
         DEF Stored, PolicyValue, PoliciesAreKept, Bound, Policies
    <3>3. QED
      BY <3>1, <3>2
  <2>2. QED
    BY <2>1 DEF PoliciesAreKept
<1>13. ReadOK(process[p], InitialBalances)'
  BY <1>3 DEF ReadOK, TransferPhases, BindPhases, ResultPhases
<1>14. AfterTransfers[Cardinality(Persisted')] = InitialBalances
  BY <1>7, <1>8
<1>15. QED
  BY <1>9, <1>10, <1>11, <1>12, <1>13, <1>14 DEF BalanceInv

(* A commit persists one transfer more, and binds both balances to it.      *)
LEMMA BalanceOfCommit ==
  ASSUME NEW p \in Processes, SystemInv, TrailInv(p), BalanceInv(p), Commit(p)
  PROVE  BalanceInv(p)'
<1> DEFINE s == process[p]
           new == [k \in {<<TransferOutput[s.e], 0>>, <<TransferOutput[s.e], 1>>} |-> s.result[k[2] + 1]]
<1>1. /\ process \in [Processes -> ProcessState] /\ s.at = "commit" /\ s.e \in ExecutionIds
      /\ s.result \in Nat \X Nat /\ bindings \in [Variables -> Binding]
  <2>1. CommandOK(s) /\ s.at = "commit" /\ s \in ProcessState
    BY DEF SystemInv, WorkerTyped, ProcessesTyped, Commit, At
  <2>2. s.e \in ExecutionIds
    BY <2>1 DEF CommandOK, TransferPhases, ResultPhases
  <2>3. s.result \in Nat \X Nat
    <3> HIDE DEF s
    <3>1. QED BY <2>1 DEF ProcessState
  <2>4. QED
    BY <2>1, <2>2, <2>3 DEF SystemInv, WorkerTyped, ProcessesTyped, DatabaseTyped
<1>2. PICK e, d, result : e = s.e /\ d = TransferOutput[e] /\ result = s.result
  OBVIOUS
<1>3. e \in ExecutionIds /\ d \in DataIds /\ result \in Nat \X Nat
  BY <1>1, <1>2, TheParties
<1>4. /\ slots' = With(slots, new) /\ bindings' = BoundTo(d) /\ Go(p, Idle)
      /\ ~Stored(d, 0) /\ UNCHANGED bootstraps
  BY <1>2 DEF Commit
<1>5. DOMAIN new = {<<d, 0>>, <<d, 1>>} /\ new[<<d, 0>>] = result[1] /\ new[<<d, 1>>] = result[2]
  BY <1>2
<1> SUFFICES ASSUME bootstraps = 1 PROVE BalanceInv(p)'
  BY <1>4 DEF BalanceInv
<1> HIDE DEF new, s
<1>6. /\ \A f, k : f # d =>
           /\ (<<f, k>> \in DOMAIN slots') = (<<f, k>> \in DOMAIN slots)
           /\ slots'[<<f, k>>] = slots[<<f, k>>] \/ <<f, k>> \notin DOMAIN slots
      /\ <<d, 0>> \in DOMAIN slots' /\ slots'[<<d, 0>>] = result[1]
      /\ <<d, 1>> \in DOMAIN slots' /\ slots'[<<d, 1>>] = result[2]
  BY <1>4, <1>5 DEF With
<1>7. /\ bindings'[BalanceVariable[User]] = [data |-> d, slot |-> 0]
      /\ bindings'[BalanceVariable[Receiver]] = [data |-> d, slot |-> 1]
      /\ \A v \in Variables \ Balances : bindings'[v] = bindings[v]
  BY <1>1, <1>4, TheFourVariables DEF BoundTo, Balances
<1>8. process'[p] = Idle
  BY <1>1, <1>4 DEF Go
<1>9. \A f \in ExecutionIds : f # e => TransferOutput[f] # d
  BY <1>2, <1>3, BalanceIdsAssumption
<1>10. \A v \in Variables : InitialData[v] # d
  BY <1>2, <1>3, BalanceIdsAssumption
<1>11. Persisted' = Persisted \cup {e} /\ e \notin Persisted
  BY <1>2, <1>3, <1>4, <1>6, <1>9 DEF Persisted, Stored
<1> DEFINE n == Cardinality(Persisted)
<1>12. n \in Nat /\ n + 1 <= Cardinality(ExecutionIds) /\ Cardinality(Persisted') = n + 1
  <2>1. IsFiniteSet(ExecutionIds) /\ Persisted \subseteq ExecutionIds /\ Persisted' \subseteq ExecutionIds
    BY BalanceAssumption DEF Persisted
  <2>2. IsFiniteSet(Persisted) /\ n \in Nat /\ Cardinality(Persisted') <= Cardinality(ExecutionIds)
    BY <2>1, FS_Subset, FS_CardinalityType
  <2>3. Cardinality(Persisted \cup {e}) = n + 1
    <3>1. Cardinality(Persisted \cup {e}) =
            IF e \in Persisted THEN Cardinality(Persisted) ELSE Cardinality(Persisted) + 1
      BY <2>2, FS_AddElement
    <3>2. QED
      BY <1>11, <3>1
  <2>4. QED
    BY <1>11, <2>2, <2>3
<1>13. PICK values : values = AfterTransfers[n]
  OBVIOUS
<1>14. /\ BindingsAreKnown /\ PoliciesAreKept /\ ReadOK(s, values)
  BY <1>13 DEF BalanceInv, s
<1>15. result = Moved(values)
  BY <1>1, <1>2, <1>14 DEF ReadOK, ResultPhases
<1>16. AfterTransfers[Cardinality(Persisted')] = result
  <2> HIDE DEF n
  <2>1. QED BY <1>12, <1>13, <1>15, TransfersOneByOne
<1>17. BalancesAre(result)'
  BY <1>6, <1>7 DEF BalancesAre, Stored, ValueOf
<1>18. BindingsAreKnown'
  <2>1. ASSUME NEW v \in Variables, Bound(v)'
        PROVE  \/ bindings'[v].data = InitialData[v]
               \/ \E f \in ExecutionIds : bindings'[v].data = TransferOutput[f]
    <3>1. CASE v \in Balances
      BY <1>2, <1>3, <1>7, <3>1 DEF Balances
    <3>2. CASE v \notin Balances
      BY <1>7, <1>14, <2>1, <3>2 DEF BindingsAreKnown, Bound
    <3>3. QED
      BY <3>1, <3>2
  <2>2. QED
    BY <2>1 DEF BindingsAreKnown
<1>19. PoliciesAreKept'
  <2>1. ASSUME NEW v \in Policies, Bound(v)'
        PROVE  (Stored(InitialData[v], 0) /\ PolicyValue(v) = InitialValue[v])'
    <3>1. v \in Variables \ Balances
      BY TheFourVariables DEF Policies
    <3>2. Bound(v) /\ InitialData[v] # d
      BY <1>7, <1>10, <2>1, <3>1 DEF Bound
    <3>3. Stored(InitialData[v], 0) /\ PolicyValue(v) = InitialValue[v]
      BY <1>14, <3>2 DEF PoliciesAreKept
    <3>4. QED
      BY <1>6, <3>2, <3>3 DEF Stored, PolicyValue
  <2>2. QED
    BY <2>1 DEF PoliciesAreKept
<1>20. ReadOK(process[p], result)'
  BY <1>8 DEF ReadOK, Idle, TransferPhases, BindPhases, ResultPhases
<1>21. QED
  BY <1>3, <1>16, <1>17, <1>18, <1>19, <1>20 DEF BalanceInv

LEMMA BalanceStep ==
  ASSUME NEW p, Processes = {p}, SystemInv, TrailInv(p), BalanceInv(p), [BalanceNext]_allVars
  PROVE  BalanceInv(p)'
<1>1. p \in Processes /\ \A q \in Processes : q = p
  OBVIOUS
<1>2. ASSUME UNCHANGED workerVars PROVE BalanceInv(p)'
  BY <1>2, BalanceOfMoves DEF workerVars, databaseVars
<1>3. CASE Bootstrap(p)
  <2>1. /\ bootstraps' = bootstraps + 1 /\ bootstraps \in Nat
        /\ DOMAIN slots' = {} /\ \A v \in Variables : bindings'[v] = NoRow
        /\ process'[p] = [Idle EXCEPT !.at = "insert", !.entry = 1]
    BY <1>1, <1>3 DEF Bootstrap, Go, SystemInv, WorkerTyped, ProcessesTyped
  <2>2. process'[p].at = "insert"
    BY <2>1 DEF Idle
  <2>3. \A v \in Variables : ~Bound(v)'
    BY <2>1 DEF Bound
  <2>4. Persisted' = {}
    BY <2>1 DEF Persisted, Stored
  <2>5. AfterTransfers[Cardinality(Persisted')] = InitialBalances
    BY <2>4, TransfersOneByOne, FS_EmptySet
  <2>6. InitialBalances \in Nat \X Nat
    BY TheFourVariables, TheParties DEF InitialBalances
  <2>7. /\ BalancesAre(InitialBalances)' /\ BindingsAreKnown' /\ PoliciesAreKept'
        /\ ReadOK(process[p], InitialBalances)'
    BY <2>2, <2>3, TheFourVariables
       DEF BalancesAre, BindingsAreKnown, PoliciesAreKept, ReadOK, TransferPhases, BindPhases,
           ResultPhases
  <2>8. QED
    BY <2>5, <2>6, <2>7 DEF BalanceInv
<1>4. CASE BootstrapEntry(p)
  BY <1>1, <1>4, BalanceOfInsert, BalanceOfName, BalanceOfCalls
<1>5. CASE \/ \E e \in ExecutionIds : Process(p, e)
           \/ ReadReceiverBinding(p)
  BY <1>1, <1>5, BalanceOfReads
<1>6. CASE Evaluate(p)
  BY <1>1, <1>6, BalanceOfEvaluate
<1>7. CASE Assign(p) \/ Run(p) \/ Submit(p) \/ Locate(p) \/ Update(p) \/ Crash(p)
  BY <1>1, <1>7, BalanceOfCalls
<1>8. CASE Commit(p)
  BY <1>1, <1>8, BalanceOfCommit
<1>9. QED
  BY <1>1, <1>2, <1>3, <1>4, <1>5, <1>6, <1>7, <1>8
     DEF BalanceNext, ProcessStep, Deploy, ConditionalTransfer, RequestMyBalance, allVars

(* One process moves an amount once per transfer that it persists, whatever *)
(* it crashes between and whichever executions lose the race for the root.  *)
THEOREM BalancesAlwaysFollow ==
  ASSUME NEW p, Processes = {p}
  PROVE  BalanceSpec => []BalancesFollowTheTransfers
<1>1. BalanceInit => BalanceInv(p)
  BY DEF BalanceInit, BalanceInv
<1>2. SystemInv /\ TrailInv(p) /\ BalanceInv(p) /\ [BalanceNext]_allVars => BalanceInv(p)'
  BY BalanceStep
<1>3. TrailInv(p) /\ BalanceInv(p) => BalancesFollowTheTransfers
  <2> SUFFICES ASSUME TrailInv(p), BalanceInv(p), Bootstrapped, bootstraps = 1
               PROVE  <<ValueOf(BalanceVariable[User]), ValueOf(BalanceVariable[Receiver])>>
                        = AfterTransfers[Cardinality(Persisted)]
    BY DEF BalancesFollowTheTransfers
  <2>1. PICK values : values = AfterTransfers[Cardinality(Persisted)]
    OBVIOUS
  <2>2. Bound(BalanceVariable[User]) /\ Bound(BalanceVariable[Receiver])
    BY TheFourVariables DEF Bootstrapped, Declared, TrailInv, Follows
  <2>3. values \in Nat \X Nat /\ BalancesAre(values)
    BY <2>1 DEF BalanceInv
  <2>4. /\ ValueOf(BalanceVariable[User]) = values[1]
        /\ ValueOf(BalanceVariable[Receiver]) = values[2]
    BY <2>2, <2>3 DEF BalancesAre
  <2>5. QED
    BY <2>1, <2>3, <2>4
<1>4. QED
  BY <1>1, <1>2, <1>3, TrailAlways, PTL DEF BalanceSpec
=============================================================================
