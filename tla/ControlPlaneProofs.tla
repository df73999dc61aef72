------------------------- MODULE ControlPlaneProofs -------------------------
(***************************************************************************)
(* Proofs about ControlPlane, for every value of its constants.            *)
(***************************************************************************)
EXTENDS ControlPlane, FiniteSetTheorems, TLAPS

\* A registered reference has an owner, a representation and a version.
ReferencesAreWhole ==
  \A d \in DataIds : Available(d) =>
    /\ dataReferences[d].owner \in Accounts
    /\ dataReferences[d].representation \in Representations
    /\ dataReferences[d].version >= 1

\* The output of a completed execution is a registered reference.
OutputsAreRegistered ==
  \A e \in ExecutionIds : Completed(e) =>
    executions[e].outputId \in DataIds /\ Available(executions[e].outputId)

\* The parts of the invariant that types alone depend on.
RegistryInv ==
  /\ TypeOK
  /\ ReferencesAreWhole
  /\ OutputsAreRegistered
  /\ BindingsResolve
  /\ KeysOpenForOwner

(* An account id is never the null id.                                      *)
LEMMA NullFacts ==
  /\ None \notin DataIds /\ None \notin CommitteeIds /\ None \notin Roots
  /\ None \notin Representations
  /\ ZeroRoot \in Roots /\ GenesisRoot \in Roots
BY NullAssumption DEF Roots

(* The constructor's state satisfies the invariant.                         *)
LEMMA RegistryInit == Init => RegistryInv
<1> SUFFICES ASSUME Init PROVE RegistryInv
  OBVIOUS
<1> USE AccountsAssumption, BoundsAssumption, NullFacts DEF Init
<1>1. TypeOK
  BY DEF TypeOK, ConfidentialContract, DataReference, Committee, Request,
         Execution, ExecutionStatus, StateVariable, PickRequest
<1>2. ReferencesAreWhole /\ OutputsAreRegistered /\ BindingsResolve /\ KeysOpenForOwner
  BY DEF ReferencesAreWhole, OutputsAreRegistered, BindingsResolve,
         KeysOpenForOwner, Available, Completed, Representations
<1>3. QED
  BY <1>1, <1>2 DEF RegistryInv

(* Records keep their types under the field updates of the actions.         *)
LEMMA ContractUpdate ==
  ASSUME NEW r \in ConfidentialContract, NEW root \in Roots
  PROVE  [r EXCEPT !.stateRoot = root, !.version = @ + 1] \in ConfidentialContract
<1>1. r.version \in Nat
  BY DEF ConfidentialContract
<1>2. r.version + 1 \in Nat
  BY <1>1
<1>3. QED
  BY <1>2 DEF ConfidentialContract

LEMMA ReferenceUpdate ==
  ASSUME NEW r \in DataReference, NEW nodes \in SUBSET Nodes, NEW epoch \in Nat
  PROVE  MovedReference(r, nodes, epoch) \in DataReference
<1>1. r.version \in Nat
  BY DEF DataReference
<1>2. r.version + 1 \in Nat
  BY <1>1
<1>3. QED
  BY <1>2 DEF DataReference, MovedReference

LEMMA HandedOffUpdate ==
  ASSUME NEW x \in Execution
  PROVE  HandedOff(x) \in Execution
<1>1. x.round \in Nat
  BY DEF Execution
<1>2. x.round + 1 \in Nat
  BY <1>1
<1>3. QED
  BY <1>2 DEF Execution, ExecutionStatus, HandedOff

(* Registering an input keeps the registry whole.                           *)
LEMMA RegisterDataStep ==
  ASSUME RegistryInv,
         NEW sender \in Accounts, NEW owner \in DataOwners, NEW d \in DataIds,
         NEW representation \in Representations, NEW fheKeyId \in DataIds \cup {None},
         NEW nodes \in StorageSets, NEW version \in InitialVersions,
         RegisterData(sender, owner, d, representation, fheKeyId, nodes, version)
  PROVE  RegistryInv'
<1> USE AccountsAssumption, DataAssumption, NullFacts DEF RegisterData
<1>1. TypeOK'
  BY DEF RegistryInv, TypeOK, DataReference, NodeSets, codeVars, chainVars,
         requestVars, bindingVars
<1>2. ReferencesAreWhole'
  BY DEF RegistryInv, TypeOK, ReferencesAreWhole, Available
<1>3. OutputsAreRegistered'
  BY DEF RegistryInv, TypeOK, OutputsAreRegistered, Available, Completed
<1>4. BindingsResolve'
  BY DEF RegistryInv, TypeOK, BindingsResolve, Available, Unregistered, bindingVars
<1>5. KeysOpenForOwner'
  BY DEF RegistryInv, TypeOK, KeysOpenForOwner, Available, Unregistered, ValidKey
<1>6. QED
  BY <1>1, <1>2, <1>3, <1>4, <1>5 DEF RegistryInv

(* A migration rewrites the root, the epoch and the version of a reference.  *)
LEMMA UpdateDataLocationsStep ==
  ASSUME RegistryInv,
         NEW sender \in Accounts, NEW d \in DataIds, NEW e \in ExecutionIds,
         NEW nodes \in NodeSets, NEW signers \in NodeSets,
         UpdateDataLocationsAfterHandoff(sender, d, e, nodes, signers)
  PROVE  RegistryInv'
<1> USE DEF UpdateDataLocationsAfterHandoff
<1>1. committees[executions[e].currentCommitteeId] \in Committee
  BY DEF RegistryInv, TypeOK, VerifyThreshold
<1>2. dataReferences[d] \in DataReference
  BY DEF RegistryInv, TypeOK
<1> DEFINE k == executions[e].currentCommitteeId
<1>3. dataReferences'[d] \in DataReference
  <2>1. dataReferences'[d] = MovedReference(dataReferences[d], nodes, committees[k].epoch)
    BY DEF RegistryInv, TypeOK
  <2>2. committees[k].epoch \in Nat
    BY <1>1 DEF Committee
  <2>3. nodes \in SUBSET Nodes
    BY DEF NodeSets
  <2>4. QED
    BY <1>2, <2>1, <2>2, <2>3, ReferenceUpdate
<1>4. TypeOK'
  BY <1>3 DEF RegistryInv, TypeOK, NodeSets, codeVars, chainVars, requestVars, bindingVars
<1>5. \A f \in DataIds :
        /\ Available(f)' = Available(f)
        /\ dataReferences'[f].owner = dataReferences[f].owner
        /\ dataReferences'[f].representation = dataReferences[f].representation
        /\ dataReferences'[f].fheKeyId = dataReferences[f].fheKeyId
        /\ dataReferences'[f].version \in Nat
        /\ dataReferences'[f].version >= dataReferences[f].version
  BY <1>2 DEF RegistryInv, TypeOK, DataReference, Available, MovedReference
<1>6. ReferencesAreWhole'
  BY <1>5 DEF RegistryInv, TypeOK, DataReference, ReferencesAreWhole
<1>7. OutputsAreRegistered'
  BY <1>5 DEF RegistryInv, OutputsAreRegistered, Completed
<1>8. BindingsResolve'
  BY <1>5 DEF RegistryInv, TypeOK, DataReference, StateVariable, BindingsResolve, bindingVars
<1>9. KeysOpenForOwner'
  BY <1>5 DEF RegistryInv, KeysOpenForOwner
<1>10. QED
  BY <1>4, <1>6, <1>7, <1>8, <1>9 DEF RegistryInv

(* An accepted result registers its output and closes the execution.        *)
LEMMA SubmitResultStep ==
  ASSUME RegistryInv,
         NEW sender \in Accounts, NEW e \in ExecutionIds, NEW d \in DataIds,
         NEW representation \in Representations, NEW fheKeyId \in DataIds \cup {None},
         NEW nodes \in StorageSets, NEW version \in InitialVersions,
         NEW root \in Roots, NEW signers \in NodeSets,
         SubmitResult(sender, e, d, representation, fheKeyId, nodes, version, root, signers)
  PROVE  RegistryInv'
<1> USE AccountsAssumption, DataAssumption, NullFacts DEF SubmitResult
<1>1. RequesterOf(e) \in Accounts /\ ContractOf(e) \in ContractIds
  BY DEF ExecutionIds, RequesterOf, ContractOf
<1>2. committees[executions[e].currentCommitteeId].epoch \in Nat
  BY DEF RegistryInv, TypeOK, Committee, VerifyThreshold
<1>3. contracts' \in [ContractIds -> ConfidentialContract]
  <2>1. contracts[ContractOf(e)] \in ConfidentialContract
    BY <1>1 DEF RegistryInv, TypeOK
  <2>2. [contracts[ContractOf(e)] EXCEPT !.stateRoot = root, !.version = @ + 1]
          \in ConfidentialContract
    BY <2>1, ContractUpdate
  <2>3. QED
    BY <1>1, <2>2 DEF RegistryInv, TypeOK
<1>4. dataReferences' \in [DataIds -> DataReference]
  BY <1>1, <1>2 DEF RegistryInv, TypeOK, DataReference, NodeSets
<1>5. executions' \in [ExecutionIds -> Execution]
  <2>1. executions[e] \in Execution
    BY DEF RegistryInv, TypeOK
  <2>2. CompletedExecution(executions[e], d, root) \in Execution
    BY <2>1 DEF Execution, ExecutionStatus, CompletedExecution
  <2>3. QED
    BY <2>2 DEF RegistryInv, TypeOK
<1>6. TypeOK'
  BY <1>3, <1>4, <1>5 DEF RegistryInv, TypeOK, chainVars, requestVars, bindingVars
<1>7. ReferencesAreWhole'
  BY <1>1 DEF RegistryInv, TypeOK, ReferencesAreWhole, Available
<1>8. OutputsAreRegistered'
  BY DEF RegistryInv, TypeOK, OutputsAreRegistered, Available, Completed, CompletedExecution
<1>9. BindingsResolve'
  BY DEF RegistryInv, TypeOK, BindingsResolve, Available, Unregistered, bindingVars
<1>10. KeysOpenForOwner'
  BY DEF RegistryInv, TypeOK, KeysOpenForOwner, Available, Unregistered, ValidKey
<1>11. QED
  BY <1>6, <1>7, <1>8, <1>9, <1>10 DEF RegistryInv

(* Declared and updated variables are bound to registered references.       *)
LEMMA DeclareStateVariableStep ==
  ASSUME RegistryInv,
         NEW sender \in Accounts, NEW c \in ContractIds, NEW v \in Variables,
         NEW d \in DataIds, DeclareStateVariable(sender, c, v, d)
  PROVE  RegistryInv'
<1> USE DEF DeclareStateVariable
<1>1. stateVariables' \in [Variables -> StateVariable]
  BY DEF RegistryInv, TypeOK, StateVariable, DataReference
<1>2. TypeOK'
  BY <1>1 DEF RegistryInv, TypeOK, chainVars, codeVars, dataVars, requestVars
<1>3. ReferencesAreWhole' /\ OutputsAreRegistered' /\ KeysOpenForOwner'
  BY DEF RegistryInv, ReferencesAreWhole, OutputsAreRegistered, KeysOpenForOwner,
         Available, Completed, dataVars
<1>4. BindingsResolve'
  BY DEF RegistryInv, TypeOK, DataReference, BindingsResolve, ReferencesAreWhole,
         Available, dataVars
<1>5. QED
  BY <1>2, <1>3, <1>4 DEF RegistryInv

(* An update of the bindings points at the execution's output.              *)
LEMMA UpdateStateVariablesStep ==
  ASSUME RegistryInv,
         NEW sender \in Accounts, NEW e \in ExecutionIds,
         NEW updates \in SUBSET Variables, NEW signers \in NodeSets,
         UpdateStateVariablesAfterResult(sender, e, updates, signers)
  PROVE  RegistryInv'
<1> USE DEF UpdateStateVariablesAfterResult
<1> DEFINE d == executions[e].outputId
<1>1. d \in DataIds /\ Available(d)
  BY DEF RegistryInv, OutputsAreRegistered, Completed
<1>2. \A v \in Variables : Rebound(stateVariables[v], d) \in StateVariable
  <2> SUFFICES ASSUME NEW v \in Variables
               PROVE  Rebound(stateVariables[v], d) \in StateVariable
    OBVIOUS
  <2>1. stateVariables[v] \in StateVariable /\ dataReferences[d] \in DataReference
    BY <1>1 DEF RegistryInv, TypeOK
  <2>2. QED
    BY <1>1, <2>1 DEF StateVariable, DataReference, Rebound
<1>3. TypeOK'
  BY <1>2 DEF RegistryInv, TypeOK, chainVars, codeVars, dataVars, requestVars
<1>4. ReferencesAreWhole' /\ OutputsAreRegistered' /\ KeysOpenForOwner'
  BY DEF RegistryInv, ReferencesAreWhole, OutputsAreRegistered, KeysOpenForOwner,
         Available, Completed, dataVars
<1>5. \A v \in updates :
        /\ stateVariables'[v].dataId = d
        /\ stateVariables'[v].representation = dataReferences[d].representation
        /\ stateVariables'[v].version = dataReferences[d].version
  BY DEF RegistryInv, TypeOK, StateVariable, Rebound
<1>6. \A v \in Variables \ updates : stateVariables'[v] = stateVariables[v]
  OBVIOUS
<1>7. dataReferences[d].version \in 1..dataReferences[d].version
  BY <1>1 DEF RegistryInv, TypeOK, DataReference, ReferencesAreWhole
<1>8. dataVars' = dataVars
  OBVIOUS
<1>9. BindingsResolve'
  BY <1>1, <1>5, <1>6, <1>7, <1>8 DEF RegistryInv, BindingsResolve, Available, dataVars
<1>10. QED
  BY <1>3, <1>4, <1>9 DEF RegistryInv

(* A step that leaves the references and the bindings alone and completes   *)
(* no execution keeps the registry whole.                                   *)
LEMMA RegistryFrame ==
  ASSUME RegistryInv, TypeOK',
         UNCHANGED <<dataReferences, stateVariables>>,
         \A e \in ExecutionIds : Completed(e)' =>
           Completed(e) /\ executions'[e].outputId = executions[e].outputId
  PROVE  RegistryInv'
<1>1. ReferencesAreWhole' /\ BindingsResolve' /\ KeysOpenForOwner'
  BY DEF RegistryInv, ReferencesAreWhole, BindingsResolve, KeysOpenForOwner, Available
<1>2. OutputsAreRegistered'
  BY DEF RegistryInv, OutputsAreRegistered, Available
<1>3. QED
  BY <1>1, <1>2 DEF RegistryInv

(* The steps of the administrator and of a publisher.                       *)
LEMMA PublicationStep ==
  ASSUME RegistryInv, NEW sender \in Accounts,
         \/ AdminNext(sender)
         \/ \E c \in ContractIds, root \in {GenesisRoot, ZeroRoot} :
              PublishContract(sender, c, root)
         \/ \E c \in ContractIds, s \in Selectors : PublishFunction(sender, c, s)
         \/ \E d \in DataIds, nodes \in NodeSets : RegisterDataLocations(sender, d, nodes)
         \/ Tick
  PROVE  RegistryInv'
<1> USE DEF chainVars, codeVars, dataVars, requestVars, bindingVars
<1>1. CASE AdminNext(sender)
  <2>1. TypeOK'
    BY <1>1 DEF RegistryInv, TypeOK, AdminNext, SetRuntime, SetSortitionVerifier
  <2>2. QED
    BY <1>1, <2>1, RegistryFrame DEF AdminNext, SetRuntime, SetSortitionVerifier, Completed
<1>2. ASSUME NEW c \in ContractIds, NEW root \in {GenesisRoot, ZeroRoot},
             PublishContract(sender, c, root)
      PROVE  RegistryInv'
  <2>1. [active |-> TRUE, stateRoot |-> root, version |-> 1] \in ConfidentialContract
    BY NullFacts DEF ConfidentialContract
  <2>2. TypeOK'
    BY <1>2, <2>1 DEF RegistryInv, TypeOK, PublishContract
  <2>3. QED
    BY <1>2, <2>2, RegistryFrame DEF PublishContract, Completed
<1>3. ASSUME NEW c \in ContractIds, NEW s \in Selectors, PublishFunction(sender, c, s)
      PROVE  RegistryInv'
  <2>1. TypeOK'
    BY <1>3 DEF RegistryInv, TypeOK, PublishFunction
  <2>2. QED
    BY <1>3, <2>1, RegistryFrame DEF PublishFunction, Completed
<1>4. ASSUME NEW d \in DataIds, NEW nodes \in NodeSets,
             RegisterDataLocations(sender, d, nodes)
      PROVE  RegistryInv'
  <2>1. TypeOK'
    BY <1>4 DEF RegistryInv, TypeOK, RegisterDataLocations, NodeSets
  <2>2. QED
    BY <1>4, <2>1, RegistryFrame DEF RegisterDataLocations, Completed
<1>5. CASE Tick
  <2>1. TypeOK'
    BY <1>5, BoundsAssumption DEF RegistryInv, TypeOK, Tick
  <2>2. QED
    BY <1>5, <2>1, RegistryFrame DEF Tick, Completed
<1>6. QED
  BY <1>1, <1>2, <1>3, <1>4, <1>5

(* The verifier's selection becomes a committee.                            *)
LEMMA FinalizeCommitteeStep ==
  ASSUME RegistryInv, NEW sender \in Accounts,
         NEW selection \in Selections[sortitionVerifier],
         NEW threshold \in 1..Cardinality(Nodes),
         FinalizeCommittee(sender, selection, threshold)
  PROVE  RegistryInv'
<1> USE DEF FinalizeCommittee, chainVars, codeVars, dataVars, requestVars, bindingVars
<1>1. selection \in Selection
  BY SelectionsAssumption DEF RegistryInv, TypeOK
<1>2. threshold \in Nat
  BY SelectionsAssumption, FS_CardinalityType
<1>3. TypeOK'
  BY <1>1, <1>2 DEF RegistryInv, TypeOK, Selection, NodeSets, Committee
<1>4. QED
  BY <1>3, RegistryFrame DEF Completed

(* A request fixes its inputs, its root and its deadline.                   *)
LEMMA InvokeStep ==
  ASSUME RegistryInv, NEW sender \in Accounts, NEW e \in ExecutionIds,
         NEW selector \in Selectors, NEW inputs \in InputSets, NEW deadline \in Times,
         Invoke(sender, e, selector, inputs, deadline)
  PROVE  RegistryInv'
<1> USE DEF Invoke, chainVars, codeVars, dataVars, requestVars, bindingVars
<1>1. /\ RequesterOf(e) \in Users /\ NonceOf(e) \in Nonces /\ ContractOf(e) \in ContractIds
      /\ contracts[ContractOf(e)].stateRoot \in Roots
  BY DEF ExecutionIds, RequesterOf, NonceOf, ContractOf, RegistryInv, TypeOK,
         ConfidentialContract
<1>2. requests' \in [ExecutionIds -> Request]
  <2>1. deadline \in Nat /\ inputs \in SUBSET DataIds
    BY BoundsAssumption, DataAssumption DEF Times
  <2>2. QED
    BY <1>1, <2>1 DEF RegistryInv, TypeOK, Request
<1>3. executions' \in [ExecutionIds -> Execution]
  <2>1. executions[e] \in Execution
    BY DEF RegistryInv, TypeOK
  <2>2. [executions[e] EXCEPT !.status = "Requested"] \in Execution
    BY <2>1 DEF Execution, ExecutionStatus
  <2>3. QED
    BY <2>2 DEF RegistryInv, TypeOK
<1>4. executionIds' \in Seq(ExecutionIds)
  BY DEF RegistryInv, TypeOK
<1>5. nonceUsed' \subseteq Users \X Nonces
  BY <1>1 DEF RegistryInv, TypeOK
<1>6. TypeOK'
  BY <1>2, <1>3, <1>4, <1>5 DEF RegistryInv, TypeOK
<1>7. QED
  BY <1>6, RegistryFrame DEF RegistryInv, TypeOK, Completed

(* The runtime's steps of an execution's life before its result.            *)
LEMMA ExecutionStep ==
  ASSUME RegistryInv, NEW sender \in Accounts, NEW e \in ExecutionIds,
         \/ \E k \in CommitteeIds : AssignCommittee(sender, e, k)
         \/ MarkRunning(sender, e)
         \/ \E k \in CommitteeIds : BeginHandoff(sender, e, k)
         \/ \E signers \in NodeSets : FinalizeHandoff(sender, e, signers)
  PROVE  RegistryInv'
<1> USE DEF chainVars, codeVars, dataVars, requestVars, bindingVars
<1>1. executions[e] \in Execution
  BY DEF RegistryInv, TypeOK
<1>2. ASSUME NEW k \in CommitteeIds, AssignCommittee(sender, e, k)
      PROVE  RegistryInv'
  <2>1. [executions[e] EXCEPT !.status = "CommitteeAssigned", !.currentCommitteeId = k]
          \in Execution
    BY <1>1 DEF Execution, ExecutionStatus
  <2>2. executions' = [executions EXCEPT ![e] =
          [executions[e] EXCEPT !.status = "CommitteeAssigned", !.currentCommitteeId = k]]
    BY <1>2 DEF RegistryInv, TypeOK, AssignCommittee
  <2>3. executions' \in [ExecutionIds -> Execution]
    BY <2>1, <2>2 DEF RegistryInv, TypeOK
  <2>4. UNCHANGED <<chainVars, codeVars, dataVars, committees, requestVars,
                    bindingVars, pickRequests>>
    BY <1>2 DEF AssignCommittee
  <2>5. TypeOK'
    BY <2>3, <2>4 DEF RegistryInv, TypeOK
  <2>6. \A f \in ExecutionIds : Completed(f)' =>
          Completed(f) /\ executions'[f].outputId = executions[f].outputId
    BY <1>1, <2>1, <2>2 DEF RegistryInv, TypeOK, Execution, Completed
  <2>7. QED
    BY <2>4, <2>5, <2>6, RegistryFrame
<1>3. CASE MarkRunning(sender, e)
  <2>1. [executions[e] EXCEPT !.status = "Running"] \in Execution
    BY <1>1 DEF Execution, ExecutionStatus
  <2>2. TypeOK'
    BY <1>3, <2>1 DEF RegistryInv, TypeOK, MarkRunning
  <2>3. QED
    BY <1>3, <2>2, RegistryFrame DEF RegistryInv, TypeOK, MarkRunning, Completed
<1>4. ASSUME NEW k \in CommitteeIds, BeginHandoff(sender, e, k)
      PROVE  RegistryInv'
  <2>1. [executions[e] EXCEPT !.status = "Handoff", !.nextCommitteeId = k] \in Execution
    BY <1>1 DEF Execution, ExecutionStatus
  <2>2. executions' = [executions EXCEPT ![e] =
          [executions[e] EXCEPT !.status = "Handoff", !.nextCommitteeId = k]]
    BY <1>4 DEF RegistryInv, TypeOK, BeginHandoff
  <2>3. executions' \in [ExecutionIds -> Execution]
    BY <2>1, <2>2 DEF RegistryInv, TypeOK
  <2>4. UNCHANGED <<chainVars, codeVars, dataVars, committees, requestVars,
                    bindingVars, pickRequests>>
    BY <1>4 DEF BeginHandoff
  <2>5. TypeOK'
    BY <2>3, <2>4 DEF RegistryInv, TypeOK
  <2>6. \A f \in ExecutionIds : Completed(f)' =>
          Completed(f) /\ executions'[f].outputId = executions[f].outputId
    BY <1>1, <2>1, <2>2 DEF RegistryInv, TypeOK, Execution, Completed
  <2>7. QED
    BY <2>4, <2>5, <2>6, RegistryFrame
<1>5. ASSUME NEW signers \in NodeSets, FinalizeHandoff(sender, e, signers)
      PROVE  RegistryInv'
  <2>1. HandedOff(executions[e]) \in Execution
    BY <1>1, HandedOffUpdate
  <2>2. TypeOK'
    BY <1>5, <2>1 DEF RegistryInv, TypeOK, FinalizeHandoff
  <2>3. QED
    BY <1>5, <2>2, RegistryFrame
       DEF RegistryInv, TypeOK, FinalizeHandoff, HandedOff, Completed
<1>6. QED
  BY <1>2, <1>3, <1>4, <1>5

(* A pick adds one request.                                                 *)
LEMMA PickStep ==
  ASSUME RegistryInv, NEW sender \in Accounts,
         NEW nonce \in PickNonces, NEW expiry \in Times,
         \/ \E d \in DataIds : RequestPick(sender, d, nonce, expiry)
         \/ \E v \in Variables, u \in Users :
              RequestVariablePickFor(sender, v, u, nonce, expiry)
  PROVE  RegistryInv'
<1> USE DEF chainVars, codeVars, dataVars, requestVars, bindingVars, AddPick
<1>1. expiry \in Nat
  BY BoundsAssumption DEF Times
<1>2. ASSUME NEW d \in DataIds, RequestPick(sender, d, nonce, expiry)
      PROVE  RegistryInv'
  <2>1. TypeOK'
    BY <1>1, <1>2 DEF RegistryInv, TypeOK, RequestPick, PickRequest
  <2>2. QED
    BY <1>2, <2>1, RegistryFrame DEF RequestPick, Completed
<1>3. ASSUME NEW v \in Variables, NEW u \in Users,
             RequestVariablePickFor(sender, v, u, nonce, expiry)
      PROVE  RegistryInv'
  <2>1. stateVariables[v].dataId \in DataIds /\ stateVariables[v].version \in Nat
    BY <1>3 DEF RegistryInv, TypeOK, StateVariable, BindingsResolve, RequestVariablePickFor
  <2>2. TypeOK'
    BY <1>1, <1>3, <2>1, AccountsAssumption
       DEF RegistryInv, TypeOK, RequestVariablePickFor, PickRequest
  <2>3. QED
    BY <1>3, <2>2, RegistryFrame DEF RequestVariablePickFor, Completed
<1>4. QED
  BY <1>2, <1>3

(* Every step keeps the registry whole.                                     *)
LEMMA RegistryStep == RegistryInv /\ [Next]_vars => RegistryInv'
<1> SUFFICES ASSUME RegistryInv, [Next]_vars PROVE RegistryInv'
  OBVIOUS
<1>1. CASE UNCHANGED vars
  <2>1. TypeOK'
    BY <1>1 DEF RegistryInv, TypeOK, vars
  <2>2. QED
    BY <1>1, <2>1, RegistryFrame DEF vars, Completed
<1>2. CASE Tick
  BY <1>2, PublicationStep, AccountsAssumption
<1>3. ASSUME NEW sender \in Accounts, AdminNext(sender)
      PROVE  RegistryInv'
  BY <1>3, PublicationStep
<1>4. ASSUME NEW sender \in Accounts, OwnerNext(sender)
      PROVE  RegistryInv'
  BY <1>4, PublicationStep, RegisterDataStep, InvokeStep, PickStep DEF OwnerNext
<1>5. ASSUME NEW sender \in Accounts, RuntimeNext(sender)
      PROVE  RegistryInv'
  BY <1>5, DeclareStateVariableStep, FinalizeCommitteeStep, ExecutionStep,
     UpdateDataLocationsStep, SubmitResultStep, UpdateStateVariablesStep DEF RuntimeNext
<1>6. QED
  BY <1>1, <1>2, <1>3, <1>4, <1>5 DEF Next

LEMMA RegistryAlways == Spec => []RegistryInv
BY RegistryInit, RegistryStep, PTL DEF Spec

(* Every reachable state has its type: no call writes an id, a version, a   *)
(* node set or a status that the mappings of the contract do not hold.      *)
THEOREM TypeCorrect == Spec => []TypeOK
<1>1. RegistryInv => TypeOK
  BY DEF RegistryInv
<1>2. QED
  BY <1>1, RegistryAlways, PTL

(* A declared variable resolves in every reachable state, whatever results, *)
(* migrations and updates are interleaved.                                  *)
THEOREM VariablesResolve == Spec => []BindingsResolve
<1>1. RegistryInv => BindingsResolve
  BY DEF RegistryInv
<1>2. QED
  BY <1>1, RegistryAlways, PTL

(* A ciphertext is opened by shares of its own owner in every reachable     *)
(* state, whether a user or a committee registered it.                      *)
THEOREM KeysBelongToOwner == Spec => []KeysOpenForOwner
<1>1. RegistryInv => KeysOpenForOwner
  BY DEF RegistryInv
<1>2. QED
  BY <1>1, RegistryAlways, PTL

-----------------------------------------------------------------------------
(* Who writes what: every other call leaves the variable alone.             *)
LEMMA WritersOfReferences ==
  ASSUME [Next]_vars
  PROVE  \/ UNCHANGED dataVars
         \/ \E sender \in Accounts, u \in DataOwners, d \in DataIds, r \in Representations,
              key \in DataIds \cup {None}, nodes \in StorageSets, version \in InitialVersions :
                RegisterData(sender, u, d, r, key, nodes, version)
         \/ \E sender \in Accounts, d \in DataIds, nodes \in NodeSets :
                RegisterDataLocations(sender, d, nodes)
         \/ \E sender \in Accounts, d \in DataIds, e \in ExecutionIds, nodes, signers \in NodeSets :
                UpdateDataLocationsAfterHandoff(sender, d, e, nodes, signers)
         \/ \E sender \in Accounts, e \in ExecutionIds, d \in DataIds, r \in Representations,
              key \in DataIds \cup {None}, nodes \in StorageSets, version \in InitialVersions,
              root \in Roots, signers \in NodeSets :
                SubmitResult(sender, e, d, r, key, nodes, version, root, signers)
<1>1. ASSUME NEW sender \in Accounts, AdminNext(sender) PROVE UNCHANGED dataVars
  BY <1>1 DEF AdminNext, SetRuntime, SetSortitionVerifier
<1>2. ASSUME NEW sender \in Accounts, OwnerNext(sender)
      PROVE  \/ UNCHANGED dataVars
             \/ \E u \in DataOwners, d \in DataIds, r \in Representations,
                  key \in DataIds \cup {None}, nodes \in StorageSets, version \in InitialVersions :
                    RegisterData(sender, u, d, r, key, nodes, version)
             \/ \E d \in DataIds, nodes \in NodeSets : RegisterDataLocations(sender, d, nodes)
  BY <1>2 DEF OwnerNext, PublishContract, PublishFunction, Invoke, RequestPick,
              RequestVariablePickFor, AddPick
<1>3. ASSUME NEW sender \in Accounts, RuntimeNext(sender)
      PROVE  \/ UNCHANGED dataVars
             \/ \E d \in DataIds, e \in ExecutionIds, nodes, signers \in NodeSets :
                  UpdateDataLocationsAfterHandoff(sender, d, e, nodes, signers)
             \/ \E e \in ExecutionIds, d \in DataIds, r \in Representations,
                  key \in DataIds \cup {None}, nodes \in StorageSets, version \in InitialVersions,
                  root \in Roots, signers \in NodeSets :
                    SubmitResult(sender, e, d, r, key, nodes, version, root, signers)
  BY <1>3 DEF RuntimeNext, DeclareStateVariable, FinalizeCommittee, AssignCommittee,
              MarkRunning, BeginHandoff, FinalizeHandoff, UpdateStateVariablesAfterResult
<1>4. QED
  BY <1>1, <1>2, <1>3 DEF Next, vars, dataVars, Tick

LEMMA WritersOfExecutions ==
  ASSUME [Next]_vars
  PROVE  \/ UNCHANGED <<requests, executions>>
         \/ \E sender \in Accounts, e \in ExecutionIds, s \in Selectors,
              inputs \in InputSets, t \in Times : Invoke(sender, e, s, inputs, t)
         \/ \E sender \in Accounts, e \in ExecutionIds, k \in CommitteeIds :
              AssignCommittee(sender, e, k) \/ BeginHandoff(sender, e, k)
         \/ \E sender \in Accounts, e \in ExecutionIds : MarkRunning(sender, e)
         \/ \E sender \in Accounts, e \in ExecutionIds, signers \in NodeSets :
              FinalizeHandoff(sender, e, signers)
         \/ \E sender \in Accounts, e \in ExecutionIds, d \in DataIds, r \in Representations,
              key \in DataIds \cup {None}, nodes \in StorageSets, version \in InitialVersions,
              root \in Roots, signers \in NodeSets :
                SubmitResult(sender, e, d, r, key, nodes, version, root, signers)
<1> USE DEF requestVars
<1>1. ASSUME NEW sender \in Accounts, AdminNext(sender)
      PROVE  UNCHANGED <<requests, executions>>
  BY <1>1 DEF AdminNext, SetRuntime, SetSortitionVerifier
<1>2. ASSUME NEW sender \in Accounts, OwnerNext(sender)
      PROVE  \/ UNCHANGED <<requests, executions>>
             \/ \E e \in ExecutionIds, s \in Selectors, inputs \in InputSets, t \in Times :
                  Invoke(sender, e, s, inputs, t)
  BY ZenonT(30), <1>2 DEF OwnerNext, PublishContract, PublishFunction, RegisterData,
              RegisterDataLocations, RequestPick, RequestVariablePickFor, AddPick
<1>3. ASSUME NEW sender \in Accounts, RuntimeNext(sender)
      PROVE  \/ UNCHANGED <<requests, executions>>
             \/ \E e \in ExecutionIds, k \in CommitteeIds :
                  AssignCommittee(sender, e, k) \/ BeginHandoff(sender, e, k)
             \/ \E e \in ExecutionIds : MarkRunning(sender, e)
             \/ \E e \in ExecutionIds, signers \in NodeSets : FinalizeHandoff(sender, e, signers)
             \/ \E e \in ExecutionIds, d \in DataIds, r \in Representations,
                  key \in DataIds \cup {None}, nodes \in StorageSets, version \in InitialVersions,
                  root \in Roots, signers \in NodeSets :
                    SubmitResult(sender, e, d, r, key, nodes, version, root, signers)
  BY <1>3 DEF RuntimeNext, DeclareStateVariable, FinalizeCommittee,
              UpdateDataLocationsAfterHandoff, UpdateStateVariablesAfterResult
<1>4. QED
  BY <1>1, <1>2, <1>3 DEF Next, vars, Tick

LEMMA WritersOfCommittees ==
  ASSUME [Next]_vars
  PROVE  \/ UNCHANGED committees
         \/ \E sender \in Accounts, s \in Selections[sortitionVerifier] :
              \E t \in 1..Cardinality(Nodes) : FinalizeCommittee(sender, s, t)
<1>1. ASSUME NEW sender \in Accounts, AdminNext(sender) PROVE UNCHANGED committees
  BY <1>1 DEF AdminNext, SetRuntime, SetSortitionVerifier
<1>2. ASSUME NEW sender \in Accounts, OwnerNext(sender) PROVE UNCHANGED committees
  BY ZenonT(30), <1>2 DEF OwnerNext, PublishContract, PublishFunction, RegisterData,
              RegisterDataLocations, Invoke, RequestPick, RequestVariablePickFor, AddPick
<1>3. ASSUME NEW sender \in Accounts, RuntimeNext(sender)
      PROVE  \/ UNCHANGED committees
             \/ \E s \in Selections[sortitionVerifier] :
                  \E t \in 1..Cardinality(Nodes) : FinalizeCommittee(sender, s, t)
  <2>1. ASSUME NEW e \in ExecutionIds, NEW d \in DataIds, NEW r \in Representations,
               NEW key \in DataIds \cup {None}, NEW nodes \in StorageSets,
               NEW version \in InitialVersions, NEW root \in Roots, NEW signers \in NodeSets,
               SubmitResult(sender, e, d, r, key, nodes, version, root, signers)
        PROVE  UNCHANGED committees
    BY <2>1 DEF SubmitResult
  <2>2. ASSUME NEW d \in DataIds, NEW e \in ExecutionIds, NEW nodes \in NodeSets,
               NEW signers \in NodeSets,
               UpdateDataLocationsAfterHandoff(sender, d, e, nodes, signers)
        PROVE  UNCHANGED committees
    BY <2>2 DEF UpdateDataLocationsAfterHandoff
  <2>3. QED
    BY <1>3, <2>1, <2>2
       DEF RuntimeNext, DeclareStateVariable, AssignCommittee, MarkRunning,
           BeginHandoff, FinalizeHandoff, UpdateStateVariablesAfterResult
<1>4. QED
  BY <1>1, <1>2, <1>3 DEF Next, vars, Tick

-----------------------------------------------------------------------------
(* References *)

\* What a step may do to a registered reference.
Advances(d) ==
  /\ Available(d)'
  /\ dataReferences'[d].version >= dataReferences[d].version
  /\ dataReferences'[d].version = dataReferences[d].version
       => dataReferences'[d] = dataReferences[d]
  /\ dataReferences'[d].owner = dataReferences[d].owner
  /\ dataReferences'[d].representation = dataReferences[d].representation
  /\ dataReferences'[d].fheKeyId = dataReferences[d].fheKeyId

(* A registered reference stays registered, and a migration is the only     *)
(* call that changes it.                                                    *)
LEMMA ReferencesAdvance ==
  ASSUME RegistryInv, [Next]_vars, NEW d \in DataIds, Available(d)
  PROVE  Advances(d)
<1>1. dataReferences \in [DataIds -> DataReference] /\ dataReferences[d].version \in Nat
  BY DEF RegistryInv, TypeOK, DataReference
<1>2. CASE UNCHANGED dataReferences
  BY <1>1, <1>2 DEF Advances, Available
<1>3. ASSUME NEW sender \in Accounts, NEW u \in DataOwners, NEW f \in DataIds,
             NEW r \in Representations, NEW key \in DataIds \cup {None},
             NEW nodes \in StorageSets, NEW version \in InitialVersions,
             RegisterData(sender, u, f, r, key, nodes, version)
      PROVE  Advances(d)
  <2>1. dataReferences'[d] = dataReferences[d]
    BY <1>1, <1>3 DEF RegisterData, Unregistered
  <2>2. QED
    BY <1>1, <2>1 DEF Advances, Available
<1>4. ASSUME NEW sender \in Accounts, NEW f \in DataIds, NEW e \in ExecutionIds,
             NEW nodes \in NodeSets, NEW signers \in NodeSets,
             UpdateDataLocationsAfterHandoff(sender, f, e, nodes, signers)
      PROVE  Advances(d)
  <2>1. CASE f = d
    <3>1. dataReferences'[d] = MovedReference(dataReferences[d], nodes,
                                 committees[executions[e].currentCommitteeId].epoch)
      BY <1>1, <1>4, <2>1 DEF UpdateDataLocationsAfterHandoff
    <3>2. dataReferences[d] \in DataReference
      BY <1>1
    <3>3. QED
      BY <1>1, <3>1, <3>2 DEF Advances, Available, MovedReference, DataReference
  <2>2. CASE f # d
    <3>1. dataReferences'[d] = dataReferences[d]
      BY <1>1, <1>4, <2>2 DEF UpdateDataLocationsAfterHandoff
    <3>2. QED
      BY <1>1, <3>1 DEF Advances, Available
  <2>3. QED
    BY <2>1, <2>2
<1>5. ASSUME NEW sender \in Accounts, NEW e \in ExecutionIds, NEW f \in DataIds,
             NEW r \in Representations, NEW key \in DataIds \cup {None},
             NEW nodes \in StorageSets, NEW version \in InitialVersions,
             NEW root \in Roots, NEW signers \in NodeSets,
             SubmitResult(sender, e, f, r, key, nodes, version, root, signers)
      PROVE  Advances(d)
  <2>1. dataReferences'[d] = dataReferences[d]
    BY <1>1, <1>5 DEF SubmitResult, Unregistered
  <2>2. QED
    BY <1>1, <2>1 DEF Advances, Available
<1>6. QED
  BY <1>2, <1>3, <1>4, <1>5, WritersOfReferences DEF RegisterDataLocations, dataVars

(* No interleaving of inputs, results and migrations takes a reference back *)
(* or turns it into another user's or into another kind.                    *)
THEOREM ReferencesNeverGoBack == Spec => ReferencesOnlyAdvance
<1>1. RegistryInv /\ [Next]_vars =>
        [\A d \in DataIds : Available(d) =>
           /\ Available(d)'
           /\ dataReferences'[d].version >= dataReferences[d].version
           /\ dataReferences'[d].version = dataReferences[d].version
                => dataReferences'[d] = dataReferences[d]
           /\ dataReferences'[d].owner = dataReferences[d].owner
           /\ dataReferences'[d].representation = dataReferences[d].representation
           /\ dataReferences'[d].fheKeyId = dataReferences[d].fheKeyId]_vars
  BY ReferencesAdvance DEF Advances
<1>2. QED
  BY <1>1, RegistryAlways, PTL DEF Spec, ReferencesOnlyAdvance

\* A list is published for a registered reference only.
LocationsInv ==
  /\ LocationsMatchRoot
  /\ \A d \in DataIds : dataStorageNodes[d] # {} => Available(d)

(* A registration finds no list, and both calls that write a list take it   *)
(* from, or put it into, the reference.                                     *)
LEMMA LocationsStep == RegistryInv /\ LocationsInv /\ [Next]_vars => LocationsInv'
<1> SUFFICES ASSUME RegistryInv, LocationsInv, [Next]_vars PROVE LocationsInv'
  OBVIOUS
<1> USE DEF LocationsInv, LocationsMatchRoot
<1>1. /\ dataReferences \in [DataIds -> DataReference]
      /\ dataStorageNodes \in [DataIds -> SUBSET Nodes]
  BY DEF RegistryInv, TypeOK
<1>2. CASE UNCHANGED dataVars
  BY <1>2 DEF dataVars, Available
<1>3. ASSUME NEW sender \in Accounts, NEW u \in DataOwners, NEW d \in DataIds,
             NEW r \in Representations, NEW key \in DataIds \cup {None},
             NEW nodes \in StorageSets, NEW version \in InitialVersions,
             RegisterData(sender, u, d, r, key, nodes, version)
      PROVE  LocationsInv'
  BY <1>1, <1>3 DEF RegisterData, Unregistered, Available
<1>4. ASSUME NEW sender \in Accounts, NEW d \in DataIds, NEW nodes \in NodeSets,
             RegisterDataLocations(sender, d, nodes)
      PROVE  LocationsInv'
  BY <1>1, <1>4 DEF RegisterDataLocations, Available
<1>5. ASSUME NEW sender \in Accounts, NEW d \in DataIds, NEW e \in ExecutionIds,
             NEW nodes \in NodeSets, NEW signers \in NodeSets,
             UpdateDataLocationsAfterHandoff(sender, d, e, nodes, signers)
      PROVE  LocationsInv'
  <2>1. /\ \A f \in DataIds \ {d} : /\ dataReferences'[f] = dataReferences[f]
                                    /\ dataStorageNodes'[f] = dataStorageNodes[f]
        /\ dataReferences'[d] = MovedReference(dataReferences[d], nodes,
                                  committees[executions[e].currentCommitteeId].epoch)
        /\ dataStorageNodes'[d] = nodes
        /\ Available(d)
    BY <1>1, <1>5 DEF UpdateDataLocationsAfterHandoff
  <2>2. dataReferences[d] \in DataReference
    BY <1>1
  <2>3. Available(d)' /\ dataReferences'[d].storageSetRoot = nodes
    BY <2>1, <2>2 DEF MovedReference, DataReference, Available
  <2>4. QED
    BY <2>1, <2>3 DEF Available
<1>6. ASSUME NEW sender \in Accounts, NEW e \in ExecutionIds, NEW d \in DataIds,
             NEW r \in Representations, NEW key \in DataIds \cup {None},
             NEW nodes \in StorageSets, NEW version \in InitialVersions,
             NEW root \in Roots, NEW signers \in NodeSets,
             SubmitResult(sender, e, d, r, key, nodes, version, root, signers)
      PROVE  LocationsInv'
  BY <1>1, <1>6 DEF SubmitResult, Unregistered, Available
<1>7. QED
  BY <1>2, <1>3, <1>4, <1>5, <1>6, WritersOfReferences

(* The published list and the root in the reference, two mappings that are  *)
(* written by different calls, agree in every reachable state.              *)
THEOREM LocationsAlwaysMatch == Spec => []LocationsMatchRoot
<1>1. Init => LocationsInv
  BY DEF Init, LocationsInv, LocationsMatchRoot
<1>2. LocationsInv => LocationsMatchRoot
  BY DEF LocationsInv
<1>3. QED
  BY <1>1, <1>2, LocationsStep, RegistryAlways, PTL DEF Spec

-----------------------------------------------------------------------------
(* Committees *)

(* A committee that was finalized is never written again.                   *)
LEMMA CommitteesKept ==
  ASSUME RegistryInv, [Next]_vars, NEW k \in CommitteeIds, committees[k].active
  PROVE  committees'[k] = committees[k]
<1>1. committees \in [CommitteeIds -> Committee]
  BY DEF RegistryInv, TypeOK
<1>2. ASSUME NEW sender \in Accounts, NEW s \in Selections[sortitionVerifier],
             NEW t \in 1..Cardinality(Nodes), FinalizeCommittee(sender, s, t)
      PROVE  committees'[k] = committees[k]
  BY <1>1, <1>2 DEF FinalizeCommittee, CommitteeUndecided
<1>3. QED
  BY <1>2, WritersOfCommittees

\* A finalized committee has a threshold that its members can reach.
ThresholdsAreReachable ==
  \A k \in CommitteeIds : committees[k].active =>
    committees[k].threshold \in 1..Cardinality(committees[k].members)

\* The committees an execution names are finalized.
AssignedAreActive ==
  \A e \in ExecutionIds :
    \A k \in {executions[e].currentCommitteeId, executions[e].nextCommitteeId} \ {None} :
      committees[k].active

ChargeInv == OneCommitteeInCharge /\ AssignedAreActive /\ ThresholdsAreReachable

LEMMA ThresholdsStep ==
  RegistryInv /\ ThresholdsAreReachable /\ [Next]_vars => ThresholdsAreReachable'
<1> SUFFICES ASSUME RegistryInv, ThresholdsAreReachable, [Next]_vars
             PROVE  ThresholdsAreReachable'
  OBVIOUS
<1>1. committees \in [CommitteeIds -> Committee]
  BY DEF RegistryInv, TypeOK
<1>2. ASSUME NEW sender \in Accounts, NEW s \in Selections[sortitionVerifier],
             NEW t \in 1..Cardinality(Nodes), FinalizeCommittee(sender, s, t)
      PROVE  ThresholdsAreReachable'
  BY <1>1, <1>2 DEF FinalizeCommittee, ValidThreshold, ThresholdsAreReachable
<1>3. QED
  BY <1>2, WritersOfCommittees DEF ThresholdsAreReachable

\* How one execution's committees fit its status.
InCharge(x) ==
  /\ (x.nextCommitteeId # None) <=> (x.status = "Handoff")
  /\ (x.currentCommitteeId # None) <=> (x.status \notin {"None", "Requested"})
Names(x) == {x.currentCommitteeId, x.nextCommitteeId} \ {None}

(* A change of one execution keeps the whole if it keeps that execution.    *)
LEMMA ChargeFrame ==
  ASSUME RegistryInv, ChargeInv, ThresholdsAreReachable', NEW e \in ExecutionIds,
         \A f \in ExecutionIds \ {e} : executions'[f] = executions[f],
         committees' = committees,
         InCharge(executions'[e]),
         \A k \in Names(executions'[e]) : committees[k].active
  PROVE  ChargeInv'
<1>1. ASSUME NEW f \in ExecutionIds
      PROVE  InCharge(executions'[f]) /\ \A k \in Names(executions'[f]) : committees[k].active
  BY DEF ChargeInv, OneCommitteeInCharge, AssignedAreActive, InCharge, Names
<1>2. OneCommitteeInCharge'
  BY <1>1 DEF OneCommitteeInCharge, InCharge
<1>3. AssignedAreActive'
  BY <1>1 DEF AssignedAreActive, Names
<1>4. QED
  BY <1>2, <1>3 DEF ChargeInv

(* Each call of an execution's life leaves its committees fit its status.   *)
LEMMA ChargeStep == RegistryInv /\ ChargeInv /\ [Next]_vars => ChargeInv'
<1> SUFFICES ASSUME RegistryInv, ChargeInv, [Next]_vars PROVE ChargeInv'
  OBVIOUS
<1>1. ThresholdsAreReachable'
  BY ThresholdsStep DEF ChargeInv
<1>2. /\ executions \in [ExecutionIds -> Execution]
      /\ committees \in [CommitteeIds -> Committee]
  BY DEF RegistryInv, TypeOK
<1>3. \A e \in ExecutionIds : /\ InCharge(executions[e])
                              /\ \A k \in Names(executions[e]) : committees[k].active
  BY DEF ChargeInv, OneCommitteeInCharge, AssignedAreActive, InCharge, Names
<1>4. CASE UNCHANGED executions
  <2>1. OneCommitteeInCharge'
    BY <1>4 DEF ChargeInv, OneCommitteeInCharge
  <2>2. ASSUME NEW e \in ExecutionIds, NEW k \in Names(executions[e])
        PROVE  committees'[k].active
    <3>1. k \in CommitteeIds /\ committees[k].active
      BY <1>2, <1>3 DEF Names, Execution
    <3>2. QED
      BY <3>1, CommitteesKept
  <2>3. AssignedAreActive'
    BY <1>4, <2>2 DEF AssignedAreActive, Names
  <2>4. QED
    BY <1>1, <2>1, <2>3 DEF ChargeInv
<1>5. ASSUME NEW sender \in Accounts, NEW e \in ExecutionIds, NEW s \in Selectors,
             NEW inputs \in InputSets, NEW t \in Times, Invoke(sender, e, s, inputs, t)
      PROVE  ChargeInv'
  <2>1. /\ executions'[e] = [executions[e] EXCEPT !.status = "Requested"]
        /\ \A f \in ExecutionIds \ {e} : executions'[f] = executions[f]
        /\ committees' = committees
        /\ executions[e].status = "None"
    BY <1>2, <1>5 DEF Invoke
  <2>2. executions[e] \in Execution /\ InCharge(executions[e])
    BY <1>2, <1>3
  <2>3. InCharge(executions'[e]) /\ Names(executions'[e]) = {}
    BY <2>1, <2>2 DEF InCharge, Names, Execution
  <2>4. QED
    BY <1>1, <2>1, <2>3, ChargeFrame
<1>6. ASSUME NEW sender \in Accounts, NEW e \in ExecutionIds, NEW k \in CommitteeIds,
             AssignCommittee(sender, e, k)
      PROVE  ChargeInv'
  <2>1. /\ executions'[e] = [executions[e] EXCEPT !.status = "CommitteeAssigned",
                                                  !.currentCommitteeId = k]
        /\ \A f \in ExecutionIds \ {e} : executions'[f] = executions[f]
        /\ committees' = committees
        /\ executions[e].status = "Requested"
        /\ committees[k].active
    BY <1>2, <1>6 DEF AssignCommittee
  <2>2. executions[e] \in Execution /\ InCharge(executions[e])
    BY <1>2, <1>3
  <2>3. InCharge(executions'[e]) /\ Names(executions'[e]) \subseteq {k}
    BY <2>1, <2>2, NullFacts DEF InCharge, Names, Execution
  <2>4. QED
    BY <1>1, <2>1, <2>3, ChargeFrame
<1>7. ASSUME NEW sender \in Accounts, NEW e \in ExecutionIds, NEW k \in CommitteeIds,
             BeginHandoff(sender, e, k)
      PROVE  ChargeInv'
  <2>1. /\ executions'[e] = [executions[e] EXCEPT !.status = "Handoff", !.nextCommitteeId = k]
        /\ \A f \in ExecutionIds \ {e} : executions'[f] = executions[f]
        /\ committees' = committees
        /\ executions[e].status = "Running"
        /\ committees[k].active
    BY <1>2, <1>7 DEF BeginHandoff
  <2>2. executions[e] \in Execution /\ InCharge(executions[e])
    BY <1>2, <1>3
  <2>3. InCharge(executions'[e]) /\ Names(executions'[e]) \subseteq Names(executions[e]) \cup {k}
    BY <2>1, <2>2, NullFacts DEF InCharge, Names, Execution
  <2>4. QED
    BY <1>1, <1>3, <2>1, <2>3, ChargeFrame
<1>8. ASSUME NEW sender \in Accounts, NEW e \in ExecutionIds, MarkRunning(sender, e)
      PROVE  ChargeInv'
  <2>1. /\ executions'[e] = [executions[e] EXCEPT !.status = "Running"]
        /\ \A f \in ExecutionIds \ {e} : executions'[f] = executions[f]
        /\ committees' = committees
        /\ executions[e].status = "CommitteeAssigned"
    BY <1>2, <1>8 DEF MarkRunning
  <2>2. executions[e] \in Execution /\ InCharge(executions[e])
    BY <1>2, <1>3
  <2>3. InCharge(executions'[e]) /\ Names(executions'[e]) = Names(executions[e])
    BY <2>1, <2>2 DEF InCharge, Names, Execution
  <2>4. QED
    BY <1>1, <1>3, <2>1, <2>3, ChargeFrame
<1>9. ASSUME NEW sender \in Accounts, NEW e \in ExecutionIds, NEW signers \in NodeSets,
             FinalizeHandoff(sender, e, signers)
      PROVE  ChargeInv'
  <2>1. /\ executions'[e] = HandedOff(executions[e])
        /\ \A f \in ExecutionIds \ {e} : executions'[f] = executions[f]
        /\ committees' = committees
        /\ executions[e].status = "Handoff"
    BY <1>2, <1>9 DEF FinalizeHandoff
  <2>2. executions[e] \in Execution /\ InCharge(executions[e])
    BY <1>2, <1>3
  <2>3. InCharge(executions'[e]) /\ Names(executions'[e]) \subseteq Names(executions[e])
    BY <2>1, <2>2 DEF InCharge, Names, Execution, HandedOff
  <2>4. QED
    BY <1>1, <1>3, <2>1, <2>3, ChargeFrame
<1>10. ASSUME NEW sender \in Accounts, NEW e \in ExecutionIds, NEW d \in DataIds,
              NEW r \in Representations, NEW key \in DataIds \cup {None},
              NEW nodes \in StorageSets, NEW version \in InitialVersions,
              NEW root \in Roots, NEW signers \in NodeSets,
              SubmitResult(sender, e, d, r, key, nodes, version, root, signers)
       PROVE  ChargeInv'
  <2>1. /\ executions'[e] = CompletedExecution(executions[e], d, root)
        /\ \A f \in ExecutionIds \ {e} : executions'[f] = executions[f]
        /\ committees' = committees
        /\ executions[e].status = "Running"
    BY <1>2, <1>10 DEF SubmitResult, Submittable
  <2>2. executions[e] \in Execution /\ InCharge(executions[e])
    BY <1>2, <1>3
  <2>3. InCharge(executions'[e]) /\ Names(executions'[e]) = Names(executions[e])
    BY <2>1, <2>2 DEF InCharge, Names, Execution, CompletedExecution
  <2>4. QED
    BY <1>1, <1>3, <2>1, <2>3, ChargeFrame
<1>11. QED
  BY <1>4, <1>5, <1>6, <1>7, <1>8, <1>9, <1>10, WritersOfExecutions

LEMMA ChargeAlways == Spec => []ChargeInv
<1>1. Init => ChargeInv
  BY NullFacts DEF Init, ChargeInv, OneCommitteeInCharge, AssignedAreActive, ThresholdsAreReachable
<1>2. QED
  BY <1>1, ChargeStep, RegistryAlways, PTL DEF Spec

(* Hand-offs never overlap: an execution has a next committee only during   *)
(* one, and a committee in charge from its assignment to its result.        *)
THEOREM OneCommitteeAlwaysInCharge == Spec => []OneCommitteeInCharge
<1>1. ChargeInv => OneCommitteeInCharge
  BY DEF ChargeInv
<1>2. QED
  BY <1>1, ChargeAlways, PTL

LEMMA NamedCommitteesCanSign ==
  RegistryInv /\ ChargeInv => CommitteesCanSign
<1> SUFFICES ASSUME RegistryInv, ChargeInv, NEW e \in ExecutionIds,
                    NEW k \in {executions[e].currentCommitteeId,
                               executions[e].nextCommitteeId} \ {None}
             PROVE  /\ committees[k].active
                    /\ committees[k].threshold \in 1..Cardinality(committees[k].members)
  BY DEF CommitteesCanSign
<1>1. k \in CommitteeIds
  BY DEF RegistryInv, TypeOK, Execution
<1>2. committees[k].active
  BY DEF ChargeInv, AssignedAreActive
<1>3. QED
  BY <1>1, <1>2 DEF ChargeInv, ThresholdsAreReachable

(* No execution ever waits for signatures that its committee cannot give.   *)
THEOREM CommitteesCanAlwaysSign == Spec => []CommitteesCanSign
BY NamedCommitteesCanSign, RegistryAlways, ChargeAlways, PTL

\* What a step may do to the committees one execution names.
ChargeMoves(x, y) ==
  /\ y.currentCommitteeId # x.currentCommitteeId =>
       \/ /\ x.status = "Requested"
          /\ committees[y.currentCommitteeId].active
       \/ /\ x.status = "Handoff"
          /\ y.currentCommitteeId = x.nextCommitteeId
  /\ y.nextCommitteeId # x.nextCommitteeId =>
       \/ x.status = "Running" /\ y.status = "Handoff"
       \/ x.status = "Handoff" /\ y.currentCommitteeId = x.nextCommitteeId

LEMMA ChargeMovesStep ==
  ASSUME RegistryInv, [Next]_vars, NEW x \in ExecutionIds
  PROVE  ChargeMoves(executions[x], executions'[x])
<1>0. executions \in [ExecutionIds -> Execution]
  BY DEF RegistryInv, TypeOK
<1>1. executions[x] \in Execution
  BY <1>0
<1>2. CASE executions'[x] = executions[x]
  BY <1>2 DEF ChargeMoves
<1>3. ASSUME NEW sender \in Accounts, NEW e \in ExecutionIds, NEW s \in Selectors,
             NEW inputs \in InputSets, NEW t \in Times, Invoke(sender, e, s, inputs, t)
      PROVE  ChargeMoves(executions[x], executions'[x])
  <2>1. executions' = [executions EXCEPT ![e].status = "Requested"]
    BY <1>3 DEF Invoke
  <2>2. /\ executions'[x].currentCommitteeId = executions[x].currentCommitteeId
        /\ executions'[x].nextCommitteeId = executions[x].nextCommitteeId
    BY <1>0, <1>1, <2>1 DEF Execution
  <2>3. QED
    BY <2>2 DEF ChargeMoves
<1>4. ASSUME NEW sender \in Accounts, NEW e \in ExecutionIds, NEW k \in CommitteeIds,
             AssignCommittee(sender, e, k)
      PROVE  ChargeMoves(executions[x], executions'[x])
  <2>1. /\ executions[e].status = "Requested"
        /\ committees[k].active
        /\ executions' = [executions EXCEPT ![e] =
             [executions[e] EXCEPT !.status = "CommitteeAssigned", !.currentCommitteeId = k]]
    BY <1>4 DEF AssignCommittee
  <2>2. CASE x = e
    <3>1. /\ executions'[x].currentCommitteeId = k
          /\ executions'[x].nextCommitteeId = executions[x].nextCommitteeId
      BY <1>0, <1>1, <2>1, <2>2 DEF Execution
    <3>2. QED
      BY <2>1, <2>2, <3>1 DEF ChargeMoves
  <2>3. CASE x # e
    BY <1>0, <1>2, <2>1, <2>3
  <2>4. QED
    BY <2>2, <2>3
<1>5. ASSUME NEW sender \in Accounts, NEW e \in ExecutionIds, NEW k \in CommitteeIds,
             BeginHandoff(sender, e, k)
      PROVE  ChargeMoves(executions[x], executions'[x])
  <2>1. /\ executions[e].status = "Running"
        /\ executions' = [executions EXCEPT ![e] =
             [executions[e] EXCEPT !.status = "Handoff", !.nextCommitteeId = k]]
    BY <1>5 DEF BeginHandoff
  <2>2. CASE x = e
    <3>1. /\ executions'[x].currentCommitteeId = executions[x].currentCommitteeId
          /\ executions'[x].status = "Handoff"
      BY <1>0, <1>1, <2>1, <2>2 DEF Execution
    <3>2. QED
      BY <2>1, <2>2, <3>1 DEF ChargeMoves
  <2>3. CASE x # e
    BY <1>0, <1>2, <2>1, <2>3
  <2>4. QED
    BY <2>2, <2>3
<1>6. ASSUME NEW sender \in Accounts, NEW e \in ExecutionIds, MarkRunning(sender, e)
      PROVE  ChargeMoves(executions[x], executions'[x])
  <2>1. executions' = [executions EXCEPT ![e].status = "Running"]
    BY <1>6 DEF MarkRunning
  <2>2. /\ executions'[x].currentCommitteeId = executions[x].currentCommitteeId
        /\ executions'[x].nextCommitteeId = executions[x].nextCommitteeId
    BY <1>0, <1>1, <2>1 DEF Execution
  <2>3. QED
    BY <2>2 DEF ChargeMoves
<1>7. ASSUME NEW sender \in Accounts, NEW e \in ExecutionIds, NEW signers \in NodeSets,
             FinalizeHandoff(sender, e, signers)
      PROVE  ChargeMoves(executions[x], executions'[x])
  <2>1. /\ executions[e].status = "Handoff"
        /\ executions' = [executions EXCEPT ![e] = HandedOff(executions[e])]
    BY <1>7 DEF FinalizeHandoff
  <2>2. CASE x = e
    <3>1. executions'[x] = HandedOff(executions[x])
      BY <1>0, <2>1, <2>2
    <3>2. executions'[x].currentCommitteeId = executions[x].nextCommitteeId
      BY <1>1, <3>1 DEF HandedOff, Execution
    <3>3. QED
      BY <2>1, <2>2, <3>2 DEF ChargeMoves
  <2>3. CASE x # e
    BY <1>0, <1>2, <2>1, <2>3
  <2>4. QED
    BY <2>2, <2>3
<1>8. ASSUME NEW sender \in Accounts, NEW e \in ExecutionIds, NEW d \in DataIds,
             NEW r \in Representations, NEW key \in DataIds \cup {None},
             NEW nodes \in StorageSets, NEW version \in InitialVersions,
             NEW root \in Roots, NEW signers \in NodeSets,
             SubmitResult(sender, e, d, r, key, nodes, version, root, signers)
      PROVE  ChargeMoves(executions[x], executions'[x])
  <2>1. executions' = [executions EXCEPT ![e] = CompletedExecution(executions[e], d, root)]
    BY <1>8 DEF SubmitResult
  <2>2. CASE x = e
    <3>1. executions'[x] = CompletedExecution(executions[x], d, root)
      BY <1>0, <2>1, <2>2
    <3>2. /\ executions'[x].currentCommitteeId = executions[x].currentCommitteeId
          /\ executions'[x].nextCommitteeId = executions[x].nextCommitteeId
      BY <1>1, <3>1 DEF CompletedExecution, Execution
    <3>3. QED
      BY <3>2 DEF ChargeMoves
  <2>3. CASE x # e
    BY <1>0, <1>2, <2>1, <2>3
  <2>4. QED
    BY <2>2, <2>3
<1>9. QED
  BY <1>2, <1>3, <1>4, <1>5, <1>6, <1>7, <1>8, WritersOfExecutions

(* Only a finished hand-off changes who may sign for an execution: not the  *)
(* members, the threshold or the id of the committee in charge, nor those   *)
(* of the pending one, whatever a verifier accepts later under their ids.   *)
THEOREM SignersAreFixed == Spec => SignersChangeByHandoffOnly
<1>1. RegistryInv /\ ChargeInv /\ [Next]_vars =>
        [\A e \in ExecutionIds :
           /\ \A k \in Names(executions[e]) : committees'[k] = committees[k]
           /\ ChargeMoves(executions[e], executions'[e])]_vars
  <2> SUFFICES ASSUME RegistryInv, ChargeInv, [Next]_vars, NEW e \in ExecutionIds
               PROVE  /\ \A k \in Names(executions[e]) : committees'[k] = committees[k]
                      /\ ChargeMoves(executions[e], executions'[e])
    OBVIOUS
  <2>1. ASSUME NEW k \in Names(executions[e])
        PROVE  committees'[k] = committees[k]
    <3>1. k \in CommitteeIds
      BY DEF RegistryInv, TypeOK, Execution, Names
    <3>2. committees[k].active
      BY DEF ChargeInv, AssignedAreActive, Names
    <3>3. QED
      BY <3>1, <3>2, CommitteesKept
  <2>2. QED
    BY <2>1, ChargeMovesStep
<1>2. ASSUME [\A e \in ExecutionIds :
                /\ \A k \in Names(executions[e]) : committees'[k] = committees[k]
                /\ ChargeMoves(executions[e], executions'[e])]_vars
      PROVE  [\A e \in ExecutionIds :
                LET before == executions[e]
                    after == executions'[e]
                IN
                /\ \A k \in {before.currentCommitteeId, before.nextCommitteeId} \ {None} :
                     committees'[k] = committees[k]
                /\ after.currentCommitteeId # before.currentCommitteeId =>
                     \/ /\ before.status = "Requested"
                        /\ committees[after.currentCommitteeId].active
                     \/ /\ before.status = "Handoff"
                        /\ after.currentCommitteeId = before.nextCommitteeId
                /\ after.nextCommitteeId # before.nextCommitteeId =>
                     \/ before.status = "Running" /\ after.status = "Handoff"
                     \/ before.status = "Handoff"
                        /\ after.currentCommitteeId = before.nextCommitteeId]_vars
  BY <1>2 DEF Names, ChargeMoves
<1>3. QED
  BY <1>1, <1>2, RegistryAlways, ChargeAlways, PTL DEF Spec, SignersChangeByHandoffOnly

-----------------------------------------------------------------------------
(* Outputs *)

\* The inputs of a request were available when it was made, and stay so.
InputsAreAvailable ==
  \A e \in ExecutionIds : Requested(e) =>
    requests[e].inputs \subseteq {d \in DataIds : Available(d)}

OutputsInv == OutputsAreOwned /\ InputsAreAvailable

(* A step that makes no request and completes no execution.                 *)
LEMMA OutputsFrame ==
  ASSUME RegistryInv, OutputsInv, [Next]_vars, requests' = requests,
         \A e \in ExecutionIds : Requested(e)' => Requested(e),
         \A e \in ExecutionIds : Completed(e)' =>
           Completed(e) /\ executions'[e].outputId = executions[e].outputId
  PROVE  OutputsInv'
<1>1. \A d \in DataIds : Available(d) =>
        Available(d)' /\ dataReferences'[d].owner = dataReferences[d].owner
  BY ReferencesAdvance DEF Advances
<1>2. \A e \in ExecutionIds : Completed(e) => executions[e].outputId \in DataIds
  BY DEF RegistryInv, OutputsAreRegistered
<1>3. OutputsAreOwned'
  BY <1>1, <1>2 DEF OutputsInv, OutputsAreOwned
<1>4. InputsAreAvailable'
  BY <1>1 DEF OutputsInv, InputsAreAvailable
<1>5. QED
  BY <1>3, <1>4 DEF OutputsInv

LEMMA OutputsStep == RegistryInv /\ OutputsInv /\ [Next]_vars => OutputsInv'
<1> SUFFICES ASSUME RegistryInv, OutputsInv, [Next]_vars PROVE OutputsInv'
  OBVIOUS
<1>1. /\ executions \in [ExecutionIds -> Execution]
      /\ requests \in [ExecutionIds -> Request]
      /\ dataReferences \in [DataIds -> DataReference]
  BY DEF RegistryInv, TypeOK
<1>2. CASE UNCHANGED <<requests, executions>>
  BY <1>2, OutputsFrame DEF Requested, Completed
<1>3. ASSUME NEW sender \in Accounts, NEW e \in ExecutionIds, NEW s \in Selectors,
             NEW inputs \in InputSets, NEW t \in Times, Invoke(sender, e, s, inputs, t)
      PROVE  OutputsInv'
  <2>1. /\ dataReferences' = dataReferences
        /\ requests'[e].inputs = inputs
        /\ ~Completed(e)'
        /\ \A f \in ExecutionIds \ {e} : /\ requests'[f] = requests[f]
                                         /\ executions'[f] = executions[f]
    BY <1>1, <1>3 DEF Invoke, Completed, dataVars, Execution
  <2>2. inputs \subseteq {d \in DataIds : Available(d)}
    BY <1>3, DataAssumption DEF Invoke
  <2>3. OutputsAreOwned'
    BY <2>1 DEF OutputsInv, OutputsAreOwned, Completed, Available
  <2>4. InputsAreAvailable'
    BY <2>1, <2>2 DEF OutputsInv, InputsAreAvailable, Requested, Available
  <2>5. QED
    BY <2>3, <2>4 DEF OutputsInv
<1>4. ASSUME NEW sender \in Accounts, NEW e \in ExecutionIds, NEW k \in CommitteeIds,
             AssignCommittee(sender, e, k) \/ BeginHandoff(sender, e, k)
      PROVE  OutputsInv'
  <2>1. requests' = requests /\ executions[e].status \in {"Requested", "Running"}
    BY <1>4 DEF AssignCommittee, BeginHandoff, requestVars
  <2>2. /\ executions'[e].status \in {"CommitteeAssigned", "Handoff"}
        /\ \A f \in ExecutionIds \ {e} : executions'[f] = executions[f]
    <3>1. executions[e] \in Execution
      BY <1>1
    <3>2. CASE AssignCommittee(sender, e, k)
      <4>1. executions'[e] = [executions[e] EXCEPT !.status = "CommitteeAssigned",
                                                   !.currentCommitteeId = k]
        BY <1>1, <3>2 DEF AssignCommittee
      <4>2. executions'[e].status = "CommitteeAssigned"
        BY <3>1, <4>1 DEF Execution
      <4>3. QED
        BY <1>1, <3>2, <4>2 DEF AssignCommittee
    <3>3. CASE BeginHandoff(sender, e, k)
      <4>1. executions'[e] = [executions[e] EXCEPT !.status = "Handoff", !.nextCommitteeId = k]
        BY <1>1, <3>3 DEF BeginHandoff
      <4>2. executions'[e].status = "Handoff"
        BY <3>1, <4>1 DEF Execution
      <4>3. QED
        BY <1>1, <3>3, <4>2 DEF BeginHandoff
    <3>4. QED
      BY <1>4, <3>2, <3>3
  <2>3. QED
    BY <2>1, <2>2, OutputsFrame DEF Requested, Completed
<1>5. ASSUME NEW sender \in Accounts, NEW e \in ExecutionIds,
             MarkRunning(sender, e) \/ \E signers \in NodeSets : FinalizeHandoff(sender, e, signers)
      PROVE  OutputsInv'
  <2>1. requests' = requests /\ executions[e].status \in {"CommitteeAssigned", "Handoff"}
    BY <1>5 DEF MarkRunning, FinalizeHandoff, requestVars
  <2>2. /\ executions'[e].status = "Running"
        /\ \A f \in ExecutionIds \ {e} : executions'[f] = executions[f]
    BY ZenonT(30), <1>1, <1>5 DEF MarkRunning, FinalizeHandoff, HandedOff, Execution
  <2>3. QED
    BY <2>1, <2>2, OutputsFrame DEF Requested, Completed
<1>6. ASSUME NEW sender \in Accounts, NEW e \in ExecutionIds, NEW d \in DataIds,
             NEW r \in Representations, NEW key \in DataIds \cup {None},
             NEW nodes \in StorageSets, NEW version \in InitialVersions,
             NEW root \in Roots, NEW signers \in NodeSets,
             SubmitResult(sender, e, d, r, key, nodes, version, root, signers)
      PROVE  OutputsInv'
  <2>1. /\ requests' = requests
        /\ Requested(e) /\ ~Available(d)
        /\ Available(d)' /\ dataReferences'[d].owner = RequesterOf(e)
        /\ \A f \in DataIds \ {d} : dataReferences'[f] = dataReferences[f]
        /\ \A f \in ExecutionIds \ {e} : executions'[f] = executions[f]
    BY <1>1, <1>6 DEF SubmitResult, Submittable, Requested, Unregistered, Available, requestVars
  <2>2. executions'[e].outputId = d
    <3>1. executions[e] \in Execution /\ executions'[e] = CompletedExecution(executions[e], d, root)
      BY <1>1, <1>6 DEF SubmitResult
    <3>2. QED
      BY <3>1 DEF CompletedExecution, Execution
  <2>3. \A f \in ExecutionIds \ {e} : Completed(f)' =>
          /\ Completed(f) /\ executions'[f].outputId = executions[f].outputId
          /\ executions[f].outputId \in DataIds \ {d}
    BY <2>1 DEF Completed, RegistryInv, OutputsAreRegistered
  <2>4. d \notin requests[e].inputs
    BY <2>1 DEF OutputsInv, InputsAreAvailable
  <2>5. OutputsAreOwned'
    BY <2>1, <2>2, <2>3, <2>4 DEF OutputsInv, OutputsAreOwned, Available
  <2>6. InputsAreAvailable'
    BY <2>1 DEF OutputsInv, InputsAreAvailable, Requested, Available
  <2>7. QED
    BY <2>5, <2>6 DEF OutputsInv
<1>7. QED
  BY <1>2, <1>3, <1>4, <1>5, <1>6, WritersOfExecutions

(* An output belongs to the requester of exactly one execution and to no    *)
(* input, although ids are chosen by whoever registers first.               *)
THEOREM OutputsAlwaysOwned == Spec => []OutputsAreOwned
<1>1. Init => OutputsInv
  BY DEF Init, OutputsInv, OutputsAreOwned, InputsAreAvailable, Requested, Completed
<1>2. OutputsInv => OutputsAreOwned
  BY DEF OutputsInv
<1>3. QED
  BY <1>1, <1>2, OutputsStep, RegistryAlways, PTL DEF Spec

-----------------------------------------------------------------------------
(* That ControlPlane implements StateLineage.                               *)

\* A request names a published contract.
RequestsArePublished ==
  \A e \in ExecutionIds : Requested(e) => contracts[ContractOf(e)].active

RefinementInv == RegistryInv /\ RequestsArePublished

\* The variables of the abstract specification, as INSTANCE substitutes them.
HeadRoot == [c \in ContractIds |->
          IF contracts[c].active THEN contracts[c].stateRoot ELSE None]
BaseRoot == [e \in ExecutionIds |->
          IF Requested(e) THEN requests[e].oldStateRoot ELSE None]
ResultRoot == [e \in ExecutionIds |->
            IF Completed(e) THEN executions[e].newStateRoot ELSE None]

\* What a step must leave alone for the abstract variables not to change.
SameLineage ==
  /\ UNCHANGED <<contracts, requests>>
  /\ \A e \in ExecutionIds :
       /\ Requested(e)' = Requested(e)
       /\ Completed(e)' = Completed(e)
       /\ Completed(e) => executions'[e].newStateRoot = executions[e].newStateRoot

LEMMA ContractOfCall == \A e \in ExecutionIds : ContractOf(e) \in ContractIds
BY DEF ExecutionIds, ContractOf

(* A step that changes no root, request or completion is a stutter of the   *)
(* abstract specification.                                                  *)
LEMMA Stutter ==
  ASSUME SameLineage
  PROVE  UNCHANGED <<HeadRoot, BaseRoot, ResultRoot>>
<1>1. HeadRoot' = HeadRoot
  BY DEF SameLineage, HeadRoot
<1>2. BaseRoot' = BaseRoot
  BY DEF SameLineage, BaseRoot
<1>3. ResultRoot' = ResultRoot
  BY DEF SameLineage, ResultRoot
<1>4. QED
  BY <1>1, <1>2, <1>3

(* Publishing a contract gives it its first head.                           *)
LEMMA PublishMaps ==
  ASSUME TypeOK, NEW sender \in Accounts, NEW c \in ContractIds,
         NEW root \in {GenesisRoot, ZeroRoot}, PublishContract(sender, c, root)
  PROVE  /\ HeadRoot[c] = None
         /\ HeadRoot' = [HeadRoot EXCEPT ![c] = root]
         /\ UNCHANGED <<BaseRoot, ResultRoot>>
<1> USE DEF PublishContract
<1>1. HeadRoot[c] = None
  BY DEF HeadRoot
<1>2. \A d \in ContractIds :
        contracts'[d] = IF d = c THEN [active |-> TRUE, stateRoot |-> root, version |-> 1]
                                 ELSE contracts[d]
  BY DEF TypeOK
<1>3. HeadRoot' = [HeadRoot EXCEPT ![c] = root]
  <2>1. \A d \in ContractIds : HeadRoot'[d] = IF d = c THEN root ELSE HeadRoot[d]
    BY <1>2 DEF HeadRoot
  <2>2. QED
    BY <2>1 DEF HeadRoot
<1>4. UNCHANGED <<BaseRoot, ResultRoot>>
  BY DEF BaseRoot, ResultRoot, Requested, Completed, requestVars
<1>5. QED
  BY <1>1, <1>3, <1>4

(* A request keeps the head of its contract as its base.                    *)
LEMMA RequestMaps ==
  ASSUME TypeOK, NEW sender \in Accounts, NEW e \in ExecutionIds,
         NEW selector \in Selectors, NEW inputs \in InputSets, NEW deadline \in Times,
         Invoke(sender, e, selector, inputs, deadline)
  PROVE  /\ BaseRoot[e] = None
         /\ HeadRoot[ContractOf(e)] # None
         /\ BaseRoot' = [BaseRoot EXCEPT ![e] = HeadRoot[ContractOf(e)]]
         /\ UNCHANGED <<HeadRoot, ResultRoot>>
<1> USE DEF Invoke
<1> DEFINE c == ContractOf(e)
<1>1. c \in ContractIds
  BY ContractOfCall
<1>2. HeadRoot[c] = contracts[c].stateRoot
  BY <1>1 DEF HeadRoot
<1>3. contracts[c].stateRoot # None
  BY <1>1, NullFacts DEF TypeOK, ConfidentialContract
<1>4. \A f \in ExecutionIds :
        /\ f # e => requests'[f] = requests[f] /\ executions'[f] = executions[f]
        /\ f = e => /\ requests'[f].oldStateRoot = contracts[c].stateRoot
                    /\ executions'[f].status = "Requested"
                    /\ executions[f].status = "None"
  BY DEF TypeOK, Request, Execution
<1>5. BaseRoot[e] = None
  BY DEF BaseRoot, Requested
<1>6. BaseRoot' = [BaseRoot EXCEPT ![e] = HeadRoot[c]]
  <2>1. \A f \in ExecutionIds : BaseRoot'[f] = IF f = e THEN HeadRoot[c] ELSE BaseRoot[f]
    BY <1>2, <1>4 DEF BaseRoot, Requested
  <2>2. QED
    BY <2>1 DEF BaseRoot
<1>7. HeadRoot' = HeadRoot
  BY DEF HeadRoot, codeVars
<1>8. ResultRoot' = ResultRoot
  BY <1>4 DEF ResultRoot, Completed
<1>9. QED
  BY <1>2, <1>3, <1>5, <1>6, <1>7, <1>8

(* An accepted result is a commit: its base is the head, and the head moves *)
(* to the root the committee signed.                                        *)
LEMMA CommitMaps ==
  ASSUME RefinementInv,
         NEW sender \in Accounts, NEW e \in ExecutionIds, NEW d \in DataIds,
         NEW representation \in Representations, NEW fheKeyId \in DataIds \cup {None},
         NEW nodes \in StorageSets, NEW version \in InitialVersions,
         NEW root \in Roots, NEW signers \in NodeSets,
         SubmitResult(sender, e, d, representation, fheKeyId, nodes, version, root, signers)
  PROVE  /\ BaseRoot[e] # None
         /\ ResultRoot[e] = None
         /\ HeadRoot[ContractOf(e)] = BaseRoot[e]
         /\ root \in {BaseRoot[e], e}
         /\ HeadRoot' = [HeadRoot EXCEPT ![ContractOf(e)] = root]
         /\ ResultRoot' = [ResultRoot EXCEPT ![e] = root]
         /\ UNCHANGED BaseRoot
<1> USE DEF SubmitResult, Submittable
<1> DEFINE c == ContractOf(e)
<1>1. c \in ContractIds
  BY ContractOfCall
<1>2. Requested(e) /\ ~Completed(e) /\ contracts[c].active
  BY DEF RefinementInv, RequestsArePublished, Requested, Completed
<1>3. BaseRoot[e] = requests[e].oldStateRoot
  BY <1>2 DEF BaseRoot
<1>4. BaseRoot[e] # None
  BY <1>3, NullFacts DEF RefinementInv, RegistryInv, TypeOK, Request
<1>5. ResultRoot[e] = None
  BY <1>2 DEF ResultRoot
<1>6. HeadRoot[c] = BaseRoot[e]
  BY <1>1, <1>2, <1>3 DEF HeadRoot, OldRootIsCurrent
<1>7. root \in {BaseRoot[e], e}
  BY <1>3 DEF DerivedRoot
<1>8. \A b \in ContractIds :
        /\ b # c => contracts'[b] = contracts[b]
        /\ b = c => contracts'[b].active = contracts[b].active /\ contracts'[b].stateRoot = root
  BY DEF RefinementInv, RegistryInv, TypeOK, ConfidentialContract
<1>9. HeadRoot' = [HeadRoot EXCEPT ![c] = root]
  <2> HIDE DEF SubmitResult, c
  <2>1. \A b \in ContractIds : HeadRoot'[b] = IF b = c THEN root ELSE HeadRoot[b]
    BY <1>2, <1>8 DEF HeadRoot
  <2>2. QED
    BY <2>1 DEF HeadRoot
<1>10. \A f \in ExecutionIds :
        /\ f # e => executions'[f] = executions[f]
        /\ f = e => executions'[f].status = "Completed" /\ executions'[f].newStateRoot = root
  BY DEF RefinementInv, RegistryInv, TypeOK, Execution, CompletedExecution
<1>11. ResultRoot' = [ResultRoot EXCEPT ![e] = root]
  <2>1. \A f \in ExecutionIds : ResultRoot'[f] = IF f = e THEN root ELSE ResultRoot[f]
    BY <1>10 DEF ResultRoot, Completed
  <2>2. QED
    BY <2>1 DEF ResultRoot
<1>12. BaseRoot' = BaseRoot
  BY <1>2, <1>10 DEF BaseRoot, Requested, requestVars
<1>13. QED
  BY <1>4, <1>5, <1>6, <1>7, <1>9, <1>11, <1>12
(* The runtime's steps that are not results leave the lineage alone: they   *)
(* neither complete nor forget an execution.                                *)
LEMMA RuntimeFrame ==
  ASSUME TypeOK, NEW sender \in Accounts, RuntimeNext(sender)
  PROVE  \/ SameLineage
         \/ \E e \in ExecutionIds, d \in DataIds, r \in Representations,
               key \in DataIds \cup {None}, nodes \in StorageSets,
               version \in InitialVersions, root \in Roots, signers \in NodeSets :
              SubmitResult(sender, e, d, r, key, nodes, version, root, signers)
<1> USE DEF chainVars, codeVars, dataVars, requestVars, bindingVars
<1>1. ASSUME UNCHANGED <<contracts, requests, executions>>
      PROVE  SameLineage
  BY <1>1 DEF SameLineage, Requested, Completed
<1>2. ASSUME NEW e \in ExecutionIds, UNCHANGED <<contracts, requests>>,
             executions[e].status \notin {"None", "Completed"},
             executions'[e].status \notin {"None", "Completed"},
             \A f \in ExecutionIds : f # e => executions'[f] = executions[f]
      PROVE  SameLineage
  BY <1>2 DEF SameLineage, Requested, Completed
<1>3. ASSUME NEW c \in ContractIds, NEW v \in Variables, NEW d \in DataIds,
             DeclareStateVariable(sender, c, v, d)
      PROVE  SameLineage
  BY <1>1, <1>3 DEF DeclareStateVariable
<1>4. ASSUME NEW s \in Selections[sortitionVerifier], NEW t \in 1..Cardinality(Nodes),
             FinalizeCommittee(sender, s, t)
      PROVE  SameLineage
  BY <1>1, <1>4 DEF FinalizeCommittee
<1>5. ASSUME NEW e \in ExecutionIds, NEW k \in CommitteeIds,
             AssignCommittee(sender, e, k) \/ BeginHandoff(sender, e, k)
      PROVE  SameLineage
  <2>1. /\ executions[e].status \in {"Requested", "Running"}
        /\ UNCHANGED <<contracts, requests>>
    BY <1>5 DEF AssignCommittee, BeginHandoff
  <2>2. executions'[e].status \in {"CommitteeAssigned", "Handoff"}
    BY <1>5 DEF TypeOK, Execution, AssignCommittee, BeginHandoff
  <2>3. \A f \in ExecutionIds : f # e => executions'[f] = executions[f]
    BY <1>5 DEF TypeOK, AssignCommittee, BeginHandoff
  <2>4. QED
    BY <1>2, <2>1, <2>2, <2>3
<1>6. ASSUME NEW e \in ExecutionIds,
             \/ MarkRunning(sender, e)
             \/ \E signers \in NodeSets : FinalizeHandoff(sender, e, signers)
      PROVE  SameLineage
  <2>1. /\ executions[e].status \in {"CommitteeAssigned", "Handoff"}
        /\ UNCHANGED <<contracts, requests>>
    BY <1>6 DEF MarkRunning, FinalizeHandoff
  <2>2. executions'[e].status = "Running"
    <3>1. executions[e] \in Execution
      BY DEF TypeOK
    <3>2. CASE MarkRunning(sender, e)
      BY <3>1, <3>2 DEF TypeOK, Execution, MarkRunning
    <3>3. CASE \E signers \in NodeSets : FinalizeHandoff(sender, e, signers)
      <4>1. executions'[e] = HandedOff(executions[e])
        BY <3>3 DEF TypeOK, FinalizeHandoff
      <4>2. QED
        BY <3>1, <4>1 DEF HandedOff, Execution
    <3>4. QED
      BY <1>6, <3>2, <3>3
  <2>3. \A f \in ExecutionIds : f # e => executions'[f] = executions[f]
    BY <1>6 DEF TypeOK, MarkRunning, FinalizeHandoff
  <2>4. QED
    BY <1>2, <2>1, <2>2, <2>3
<1>7. ASSUME NEW d \in DataIds, NEW e \in ExecutionIds, NEW nodes \in NodeSets,
             NEW signers \in NodeSets,
             UpdateDataLocationsAfterHandoff(sender, d, e, nodes, signers)
      PROVE  SameLineage
  BY <1>1, <1>7 DEF UpdateDataLocationsAfterHandoff
<1>8. ASSUME NEW e \in ExecutionIds, NEW updates \in SUBSET Variables,
             NEW signers \in NodeSets,
             UpdateStateVariablesAfterResult(sender, e, updates, signers)
      PROVE  SameLineage
  BY <1>1, <1>8 DEF UpdateStateVariablesAfterResult
<1>9. QED
  BY <1>3, <1>4, <1>5, <1>6, <1>7, <1>8 DEF RuntimeNext

(* The owners' steps that are not publications or requests leave it alone.  *)
LEMMA OwnerFrame ==
  ASSUME NEW sender \in Accounts, OwnerNext(sender)
  PROVE  \/ SameLineage
         \/ \E c \in ContractIds, root \in {GenesisRoot, ZeroRoot} :
              PublishContract(sender, c, root)
         \/ \E e \in ExecutionIds, s \in Selectors, inputs \in InputSets, t \in Times :
              Invoke(sender, e, s, inputs, t)
<1> USE DEF chainVars, codeVars, dataVars, requestVars, bindingVars
<1>1. ASSUME UNCHANGED <<contracts, requests, executions>>
      PROVE  SameLineage
  BY <1>1 DEF SameLineage, Requested, Completed
<1>2. ASSUME NEW c \in ContractIds, NEW s \in Selectors, PublishFunction(sender, c, s)
      PROVE  SameLineage
  BY <1>1, <1>2 DEF PublishFunction
<1>3. ASSUME NEW u \in DataOwners, NEW d \in DataIds, NEW r \in Representations,
             NEW key \in DataIds \cup {None}, NEW nodes \in StorageSets,
             NEW version \in InitialVersions,
             RegisterData(sender, u, d, r, key, nodes, version)
      PROVE  SameLineage
  BY <1>1, <1>3 DEF RegisterData
<1>4. ASSUME NEW d \in DataIds, NEW nodes \in NodeSets,
             RegisterDataLocations(sender, d, nodes)
      PROVE  SameLineage
  BY <1>1, <1>4 DEF RegisterDataLocations
<1>5. ASSUME NEW n \in PickNonces, NEW t \in Times,
             \/ \E d \in DataIds : RequestPick(sender, d, n, t)
             \/ \E v \in Variables, u \in Users :
                  RequestVariablePickFor(sender, v, u, n, t)
      PROVE  SameLineage
  BY <1>1, <1>5 DEF RequestPick, RequestVariablePickFor, AddPick
<1>6. QED
  BY <1>2, <1>3, <1>4, <1>5 DEF OwnerNext

(* No request is made on a contract that is not published, and a published  *)
(* contract stays published.                                                *)
LEMMA PublishedStep ==
  ASSUME RefinementInv, [Next]_vars
  PROVE  RequestsArePublished'
<1> USE DEF RequestsArePublished, Requested, RefinementInv, RegistryInv
<1>1. ASSUME UNCHANGED contracts,
             \A e \in ExecutionIds : Requested(e)' => Requested(e)
      PROVE  RequestsArePublished'
  BY <1>1
<1> USE DEF chainVars, codeVars, dataVars, requestVars, bindingVars
<1>2. CASE UNCHANGED vars \/ Tick
  BY <1>1, <1>2 DEF vars, Tick
<1>3. ASSUME NEW sender \in Accounts, AdminNext(sender)
      PROVE  RequestsArePublished'
  BY <1>1, <1>3 DEF AdminNext, SetRuntime, SetSortitionVerifier
<1>4. ASSUME NEW sender \in Accounts, OwnerNext(sender)
      PROVE  RequestsArePublished'
  <2>1. ASSUME NEW c \in ContractIds, NEW root \in {GenesisRoot, ZeroRoot},
               PublishContract(sender, c, root)
        PROVE  RequestsArePublished'
    <3>1. UNCHANGED executions
      BY <2>1 DEF PublishContract
    <3>2. \A b \in ContractIds : contracts[b].active => contracts'[b].active
      BY <2>1 DEF TypeOK, PublishContract
    <3>3. QED
      BY <3>1, <3>2, ContractOfCall
  <2>2. ASSUME NEW e \in ExecutionIds, NEW s \in Selectors, NEW inputs \in InputSets,
               NEW t \in Times, Invoke(sender, e, s, inputs, t)
        PROVE  RequestsArePublished'
    BY <2>2 DEF TypeOK, Invoke
  <2>3. ASSUME SameLineage
        PROVE  RequestsArePublished'
    BY <1>1, <2>3 DEF SameLineage
  <2>4. QED
    BY <1>4, <2>1, <2>2, <2>3, OwnerFrame
<1>5. ASSUME NEW sender \in Accounts, RuntimeNext(sender)
      PROVE  RequestsArePublished'
  <2>1. ASSUME NEW e \in ExecutionIds, NEW d \in DataIds, NEW r \in Representations,
               NEW key \in DataIds \cup {None}, NEW nodes \in StorageSets,
               NEW version \in InitialVersions, NEW root \in Roots, NEW signers \in NodeSets,
               SubmitResult(sender, e, d, r, key, nodes, version, root, signers)
        PROVE  RequestsArePublished'
    <3>1. \A c \in ContractIds : contracts'[c].active = contracts[c].active
      BY <2>1 DEF TypeOK, ConfidentialContract, SubmitResult
    <3>2. /\ executions[e].status # "None"
          /\ \A f \in ExecutionIds : f # e => executions'[f] = executions[f]
      BY <2>1 DEF TypeOK, SubmitResult, Submittable
    <3>3. QED
      BY <3>1, <3>2, ContractOfCall
  <2>2. ASSUME SameLineage
        PROVE  RequestsArePublished'
    BY <1>1, <2>2 DEF SameLineage
  <2>3. QED
    BY <1>5, <2>1, <2>2, RuntimeFrame
<1>6. QED
  BY <1>2, <1>3, <1>4, <1>5 DEF Next
(* The constructor's state is the initial state of the lineage.             *)
LEMMA LineageInit == Init => Lineage!Init
BY DEF Init, Lineage!Init, Requested, Completed

(* Every call is a publication, a request or a commit of the lineage, or    *)
(* does not touch it.                                                       *)
LEMMA LineageStep ==
  ASSUME RefinementInv, [Next]_vars
  PROVE  [Lineage!Next]_(Lineage!vars)
<1>1. TypeOK
  BY DEF RefinementInv, RegistryInv
<1>2. ASSUME SameLineage
      PROVE  UNCHANGED Lineage!vars
  BY <1>2, Stutter DEF Lineage!vars, HeadRoot, BaseRoot, ResultRoot
<1>3. ASSUME NEW sender \in Accounts, NEW c \in ContractIds,
             NEW root \in {GenesisRoot, ZeroRoot}, PublishContract(sender, c, root)
      PROVE  Lineage!Next
  <2>1. Lineage!Publish(c, root)
    BY <1>1, <1>3, PublishMaps DEF Lineage!Publish, HeadRoot, BaseRoot, ResultRoot
  <2>2. QED
    BY <2>1 DEF Lineage!Next
<1>4. ASSUME NEW sender \in Accounts, NEW e \in ExecutionIds, NEW s \in Selectors,
             NEW inputs \in InputSets, NEW t \in Times, Invoke(sender, e, s, inputs, t)
      PROVE  Lineage!Next
  <2>1. Lineage!Request(e)
    BY <1>1, <1>4, RequestMaps DEF Lineage!Request, HeadRoot, BaseRoot, ResultRoot
  <2>2. QED
    BY <2>1 DEF Lineage!Next
<1>5. ASSUME NEW sender \in Accounts, NEW e \in ExecutionIds, NEW d \in DataIds,
             NEW r \in Representations, NEW key \in DataIds \cup {None},
             NEW nodes \in StorageSets, NEW version \in InitialVersions,
             NEW root \in Roots, NEW signers \in NodeSets,
             SubmitResult(sender, e, d, r, key, nodes, version, root, signers)
      PROVE  Lineage!Next
  <2>1. Lineage!Commit(e, root)
    <3>1. /\ BaseRoot[e] # None
          /\ ResultRoot[e] = None
          /\ HeadRoot[ContractOf(e)] = BaseRoot[e]
          /\ root \in {BaseRoot[e], e}
          /\ HeadRoot' = [HeadRoot EXCEPT ![ContractOf(e)] = root]
          /\ ResultRoot' = [ResultRoot EXCEPT ![e] = root]
          /\ UNCHANGED BaseRoot
      BY <1>5, CommitMaps
    <3>2. QED
      BY <3>1 DEF Lineage!Commit, HeadRoot, BaseRoot, ResultRoot
  <2>2. root \in Lineage!Roots
    BY DEF Lineage!Roots, Roots
  <2>3. \E f \in ExecutionIds, next \in Lineage!Roots : Lineage!Commit(f, next)
    BY <2>1, <2>2
  <2>4. QED
    BY <2>3 DEF Lineage!Next
<1>6. CASE UNCHANGED vars \/ Tick \/ \E sender \in Accounts : AdminNext(sender)
  <2>1. UNCHANGED <<contracts, requests, executions>>
    BY <1>6 DEF vars, Tick, AdminNext, SetRuntime, SetSortitionVerifier, codeVars, requestVars
  <2>2. QED
    BY <1>2, <2>1 DEF SameLineage, Requested, Completed
<1>7. QED
  BY <1>1, <1>2, <1>3, <1>4, <1>5, <1>6, OwnerFrame, RuntimeFrame DEF Next

(* The control plane implements StateLineage, for every value of its        *)
(* constants: the compare-and-set of submitResult turns the writes of each  *)
(* contract into one chain, whatever is interleaved with them.              *)
THEOREM LineageImplemented == Spec => ImplementsLineage
<1>1. Init => RefinementInv
  BY RegistryInit DEF RefinementInv, RequestsArePublished, Requested, Init
<1>2. RefinementInv /\ [Next]_vars => RefinementInv'
  BY RegistryStep, PublishedStep DEF RefinementInv
<1>3. RefinementInv /\ [Next]_vars => [Lineage!Next]_(Lineage!vars)
  BY LineageStep
<1>4. QED
  BY <1>1, <1>2, <1>3, LineageInit, PTL DEF Spec, ImplementsLineage, Lineage!Spec

Promise == INSTANCE StateLineageProofs WITH
  Contract <- [e \in ExecutionIds |-> ContractOf(e)],
  InitialRoots <- {GenesisRoot, ZeroRoot},
  head <- HeadRoot, base <- BaseRoot, result <- ResultRoot

(* What the promise gives for the control plane: no two accepted results of *)
(* a contract wrote on one root, and none on the root it has now.           *)
THEOREM WritesAreChained == Spec => []NoLostUpdate /\ []HeadIsLastWrite
<1>1. Promise!LineageAssumption
  BY ContractOfCall, NullAssumption DEF Promise!LineageAssumption, Roots
<1>2. Promise!Spec => [](Promise!NoLostUpdate /\ Promise!HeadIsLastWrite)
  BY <1>1, Promise!NoLostUpdateHolds
<1>3. Lineage!Init => Promise!Init
  BY DEF Lineage!Init, Promise!Init, HeadRoot, BaseRoot, ResultRoot
<1>4. [Lineage!Next]_(Lineage!vars) => [Promise!Next]_(Promise!vars)
  BY DEF Lineage!Next, Promise!Next, Lineage!vars, Promise!vars, Lineage!Publish,
         Promise!Publish, Lineage!Request, Promise!Request, Lineage!Commit, Promise!Commit,
         Lineage!Roots, Promise!Roots, HeadRoot, BaseRoot, ResultRoot
<1>5. /\ Promise!NoLostUpdate => NoLostUpdate
      /\ Promise!HeadIsLastWrite => HeadIsLastWrite
  BY DEF Promise!NoLostUpdate, Promise!HeadIsLastWrite, NoLostUpdate, HeadIsLastWrite,
         Lineage!NoLostUpdate, Lineage!HeadIsLastWrite, Lineage!Writers, Promise!Writers,
         HeadRoot, BaseRoot, ResultRoot
<1>6. QED
  BY <1>2, <1>3, <1>4, <1>5, LineageImplemented, PTL
     DEF ImplementsLineage, Lineage!Spec, Promise!Spec
=============================================================================
