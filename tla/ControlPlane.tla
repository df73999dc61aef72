---------------------------- MODULE ControlPlane ----------------------------
(***************************************************************************)
(* The on-chain control plane, contracts/src/PpscControlPlane.sol.         *)
(*                                                                         *)
(* Every external function that changes storage is one action, executed    *)
(* atomically as an EVM transaction is; a call that reverts changes        *)
(* nothing and is a disabled action.  Hashes are injective, so an id that  *)
(* the contract derives by hashing is the tuple of the values hashed, and  *)
(* a storage-set root is the set of nodes it commits to.  A threshold      *)
(* signature is the set of its signers.  The checks that only say an       *)
(* argument is non-zero are in the sets the arguments are drawn from.      *)
(***************************************************************************)
EXTENDS Integers, FiniteSets, Sequences

CONSTANTS
  Accounts,         \* addresses that send transactions
  Users,            \* the accounts that own data and request executions
  DataOwners,       \* the accounts that data is registered for
  Admin,            \* the admin given to the constructor
  RuntimeAccounts,  \* the addresses the admin may appoint as runtime
  Verifiers,        \* the sortition verifiers the admin may install
  Selections,       \* what a verifier accepts, see SelectionsAssumption
  ContractIds,      \* keccak256(..., msg.sender, salt)
  ContractOwner,    \* the msg.sender bound in each contract id
  Selectors,        \* selectors that owners publish
  DataIds,          \* data ids, chosen by owners and by the runtime
  InputSets,        \* the sets of data ids that callers pass to invoke
  InitialVersions,  \* versions with which callers register data
  Nodes,            \* addresses of storage and committee nodes
  StorageSets,      \* the node sets that callers commit to in a new reference
  CommitteeIds,     \* ids of the committees the runtime finalizes
  Nonces,           \* invocation nonces
  Variables,        \* logical state-variable addresses
  PickNonces,       \* nonces of pick requests
  GenesisRoot,      \* a non-zero initial state root
  ZeroRoot,         \* bytes32(0)
  None,             \* an empty id
  MaxTime,          \* bound: the last block timestamp
  MaxRound,         \* bound: hand-offs of one execution
  MaxDataVersion    \* bound: the version of a data reference

Representations == {"SecretSharing", "FHE"}

\* keccak256(requester, contractId, selector, inputRoot, nonce): the nonce check
\* makes the remaining components a function of these three.
ExecutionIds == Users \X ContractIds \X Nonces
RequesterOf(e) == e[1]
ContractOf(e) == e[2]
NonceOf(e) == e[3]

\* The root a committee signs for an execution that writes is a hash over the
\* execution's own commitment (derive_state_root): no two executions share it.
DerivedRoot(e) == e
Roots == {GenesisRoot, ZeroRoot} \cup ExecutionIds

NodeSets == (SUBSET Nodes) \ {{}}
Selection == [id : CommitteeIds, epoch : Nat, members : NodeSets]

ASSUME AccountsAssumption ==
  /\ Users \subseteq DataOwners
  /\ DataOwners \subseteq Accounts
  /\ Admin \in Accounts
  /\ RuntimeAccounts \subseteq Accounts
  /\ RuntimeAccounts # {}
  /\ Verifiers # {}
  /\ ContractOwner \in [ContractIds -> Accounts]

ASSUME SelectionsAssumption ==
  /\ IsFiniteSet(Nodes)
  /\ Selections \in [Verifiers -> SUBSET Selection]

ASSUME DataAssumption ==
  /\ InputSets \subseteq SUBSET DataIds
  /\ InitialVersions \subseteq Nat \ {0}
  /\ StorageSets \subseteq NodeSets

ASSUME NullAssumption ==
  /\ None \notin DataIds \cup CommitteeIds \cup Roots \cup Representations
  /\ GenesisRoot # ZeroRoot
  /\ {GenesisRoot, ZeroRoot} \cap ExecutionIds = {}

ASSUME BoundsAssumption ==
  /\ MaxTime \in Nat
  /\ MaxRound \in Nat
  /\ MaxDataVersion \in Nat \ {0}

VARIABLES
  now,               \* block.timestamp
  runtime,           \* the address onlyRuntime admits
  sortitionVerifier,
  contracts,         \* contractId -> [active, stateRoot, version]
  functions,         \* the published <<contractId, selector>>
  dataReferences,    \* dataId -> data reference
  dataStorageNodes,  \* dataId -> published node list, {} before publication
  committees,        \* committeeId -> [active, epoch, threshold, members]
  requests,          \* executionId -> what invoke fixed
  executions,        \* executionId -> what the execution's life changes
  executionIds,      \* the durable task queue
  nonceUsed,         \* the <<requester, nonce>> already used
  stateVariables,    \* variable -> binding
  updatesFinalized,  \* executions whose variable updates are recorded
  pickRequests       \* accepted pick requests

chainVars   == <<now, runtime, sortitionVerifier>>
codeVars    == <<contracts, functions>>
dataVars    == <<dataReferences, dataStorageNodes>>
requestVars == <<requests, executionIds, nonceUsed>>
bindingVars == <<stateVariables, updatesFinalized>>
vars == <<now, runtime, sortitionVerifier, contracts, functions, dataReferences,
          dataStorageNodes, committees, requests, executions, executionIds,
          nonceUsed, stateVariables, updatesFinalized, pickRequests>>

-----------------------------------------------------------------------------
(* Records *)

ConfidentialContract ==
  [active : BOOLEAN, stateRoot : Roots, version : Nat]

DataReference ==
  [status : {"None", "Available"},
   owner : Accounts \cup {None},
   representation : Representations \cup {None},
   fheKeyId : DataIds \cup {None},
   storageSetRoot : SUBSET Nodes,
   version : Nat,
   epoch : Nat]

Committee ==
  [active : BOOLEAN, epoch : Nat, threshold : Nat, members : SUBSET Nodes]

\* ResultPending, Failed and Cancelled are declared and never assigned.
ExecutionStatus ==
  {"None", "Requested", "CommitteeAssigned", "Running", "Handoff", "Completed"}

Request ==
  [selector : Selectors \cup {None}, inputs : SUBSET DataIds,
   oldStateRoot : Roots, deadline : Nat]

Execution ==
  [status : ExecutionStatus,
   currentCommitteeId : CommitteeIds \cup {None},
   nextCommitteeId : CommitteeIds \cup {None},
   outputId : DataIds \cup {None},
   newStateRoot : Roots,   \* of the ResultFinalized event
   round : Nat]

StateVariable ==
  [exists : BOOLEAN, contractId : ContractIds \cup {None},
   dataId : DataIds \cup {None},
   representation : Representations \cup {None}, version : Nat]

\* keccak256 of a data pick (dataId, owner, nonce, expiry) or of a variable pick
\* (variable, its binding, requester, nonce, expiry).
PickRequest ==
  [variable : Variables \cup {None}, dataId : DataIds, version : Nat,
   requester : Accounts, nonce : PickNonces, expiry : Nat]

-----------------------------------------------------------------------------
(* Construction *)

Init ==
  /\ now = 0
  /\ runtime \in RuntimeAccounts
  /\ sortitionVerifier \in Verifiers
  /\ contracts = [c \in ContractIds |->
       [active |-> FALSE, stateRoot |-> ZeroRoot, version |-> 0]]
  /\ functions = {}
  /\ dataReferences = [d \in DataIds |->
       [status |-> "None", owner |-> None, representation |-> None,
        fheKeyId |-> None, storageSetRoot |-> {}, version |-> 0, epoch |-> 0]]
  /\ dataStorageNodes = [d \in DataIds |-> {}]
  /\ committees = [k \in CommitteeIds |->
       [active |-> FALSE, epoch |-> 0, threshold |-> 0, members |-> {}]]
  /\ requests = [e \in ExecutionIds |->
       [selector |-> None, inputs |-> {}, oldStateRoot |-> ZeroRoot, deadline |-> 0]]
  /\ executions = [e \in ExecutionIds |->
       [status |-> "None", currentCommitteeId |-> None, nextCommitteeId |-> None,
        outputId |-> None, newStateRoot |-> ZeroRoot, round |-> 0]]
  /\ executionIds = <<>>
  /\ nonceUsed = {}
  /\ stateVariables = [v \in Variables |->
       [exists |-> FALSE, contractId |-> None, dataId |-> None,
        representation |-> None, version |-> 0]]
  /\ updatesFinalized = {}
  /\ pickRequests = {}

-----------------------------------------------------------------------------
(* Slips: forms of the operators below with one check or one assignment     *)
(* lost.  They are used only to confirm that the properties notice.         *)

Available(d) == dataReferences[d].status = "Available"

UnregisteredUnchecked(d) == TRUE
CommitteeUndecidedUnchecked(k) == TRUE
ThresholdPositive(members, threshold) == threshold >= 1
HandedOffStillPending(execution) ==
  [execution EXCEPT !.status = "Running", !.round = @ + 1,
                    !.currentCommitteeId = execution.nextCommitteeId]
MovedReferenceOldRoot(reference, nodes, epoch) ==
  [reference EXCEPT !.epoch = epoch, !.version = @ + 1]
OldRootUnchecked(e) == TRUE
CompletedAsPending(execution, d, newStateRoot) ==
  [execution EXCEPT !.status = "ResultPending", !.outputId = d,
                    !.newStateRoot = newStateRoot]
ReboundOldRepresentation(variable, d) ==
  [variable EXCEPT !.dataId = d, !.version = dataReferences[d].version]

-----------------------------------------------------------------------------
(* Administration and publication *)

SetRuntime(sender, next) ==
  /\ sender = Admin
  /\ runtime' = next
  /\ UNCHANGED <<now, sortitionVerifier, codeVars, dataVars, committees,
                 requestVars, executions, bindingVars, pickRequests>>

SetSortitionVerifier(sender, next) ==
  /\ sender = Admin
  /\ sortitionVerifier' = next
  /\ UNCHANGED <<now, runtime, codeVars, dataVars, committees,
                 requestVars, executions, bindingVars, pickRequests>>

\* The owner test for AlreadyExists is the active flag: both are set here only.
PublishContract(sender, c, initialStateRoot) ==
  /\ sender = ContractOwner[c]
  /\ ~contracts[c].active
  /\ contracts' = [contracts EXCEPT ![c] =
       [active |-> TRUE, stateRoot |-> initialStateRoot, version |-> 1]]
  /\ UNCHANGED <<chainVars, functions, dataVars, committees, requestVars,
                 executions, bindingVars, pickRequests>>

PublishFunction(sender, c, selector) ==
  /\ contracts[c].active
  /\ sender = ContractOwner[c]
  /\ <<c, selector>> \notin functions
  /\ functions' = functions \cup {<<c, selector>>}
  /\ UNCHANGED <<chainVars, contracts, dataVars, committees, requestVars,
                 executions, bindingVars, pickRequests>>

-----------------------------------------------------------------------------
(* Data references *)

\* AlreadyExists: an id is registered once, as an input or as an output.
Unregistered(d) == ~Available(d)

\* The representation fixes which of threshold and key id is zero; a key must
\* be an available secret-shared reference of the same owner.
ValidKey(owner, representation, fheKeyId) ==
  \/ representation = "SecretSharing" /\ fheKeyId = None
  \/ /\ representation = "FHE"
     /\ fheKeyId \in DataIds
     /\ Available(fheKeyId)
     /\ dataReferences[fheKeyId].representation = "SecretSharing"
     /\ dataReferences[fheKeyId].owner = owner

\* registerData(msg.sender = owner) and registerDataFor(onlyRuntime).
RegisterData(sender, owner, d, representation, fheKeyId, storageSetRoot, version) ==
  /\ sender = owner \/ sender = runtime
  /\ Unregistered(d)
  /\ ValidKey(owner, representation, fheKeyId)
  /\ dataReferences' = [dataReferences EXCEPT ![d] =
       [status |-> "Available", owner |-> owner,
        representation |-> representation, fheKeyId |-> fheKeyId,
        storageSetRoot |-> storageSetRoot, version |-> version, epoch |-> 0]]
  /\ UNCHANGED <<chainVars, codeVars, dataStorageNodes, committees, requestVars,
                 executions, bindingVars, pickRequests>>

RegisterDataLocations(sender, d, nodes) ==
  /\ Available(d)
  /\ sender \in {dataReferences[d].owner, runtime}
  /\ dataStorageNodes[d] = {}
  /\ nodes = dataReferences[d].storageSetRoot
  /\ dataStorageNodes' = [dataStorageNodes EXCEPT ![d] = nodes]
  /\ UNCHANGED <<chainVars, codeVars, dataReferences, committees, requestVars,
                 executions, bindingVars, pickRequests>>

DeclareStateVariable(sender, c, v, d) ==
  /\ sender = runtime
  /\ contracts[c].active
  /\ Available(d)
  /\ ~stateVariables[v].exists
  /\ stateVariables' = [stateVariables EXCEPT ![v] =
       [exists |-> TRUE, contractId |-> c, dataId |-> d,
        representation |-> dataReferences[d].representation,
        version |-> dataReferences[d].version]]
  /\ UNCHANGED <<chainVars, codeVars, dataVars, committees, requestVars,
                 executions, updatesFinalized, pickRequests>>

-----------------------------------------------------------------------------
(* Committees *)

CommitteeUndecided(k) == ~committees[k].active

ValidThreshold(members, threshold) == threshold \in 1..Cardinality(members)

\* The verifier accepts the selection, not the threshold.
FinalizeCommittee(sender, selection, threshold) ==
  /\ sender = runtime
  /\ CommitteeUndecided(selection.id)
  /\ ValidThreshold(selection.members, threshold)
  /\ selection \in Selections[sortitionVerifier]
  /\ committees' = [committees EXCEPT ![selection.id] =
       [active |-> TRUE, epoch |-> selection.epoch, threshold |-> threshold,
        members |-> selection.members]]
  /\ UNCHANGED <<chainVars, codeVars, dataVars, requestVars, executions,
                 bindingVars, pickRequests>>

\* _verifyThreshold: ascending signers are a set.
VerifyThreshold(k, signers) ==
  /\ k \in CommitteeIds
  /\ committees[k].active
  /\ Cardinality(signers) >= committees[k].threshold
  /\ signers \subseteq committees[k].members

-----------------------------------------------------------------------------
(* Executions *)

\* The nonce is checked per requester, whichever entry point is used.
FreshNonce(e) == <<RequesterOf(e), NonceOf(e)>> \notin nonceUsed

\* invoke and invokeCompiled: the sender is the requester.
\* invokeFor and invokeCompiledFor: the sender owns the contract.
Invoke(sender, e, selector, inputs, deadline) ==
  LET c == ContractOf(e) IN
  /\ sender \in {RequesterOf(e), ContractOwner[c]}
  /\ contracts[c].active
  /\ <<c, selector>> \in functions
  /\ deadline > now
  /\ FreshNonce(e)
  /\ \A d \in inputs : Available(d)
  /\ executions[e].status = "None"
  /\ nonceUsed' = nonceUsed \cup {<<RequesterOf(e), NonceOf(e)>>}
  /\ requests' = [requests EXCEPT ![e] =
       [selector |-> selector, inputs |-> inputs,
        oldStateRoot |-> contracts[c].stateRoot, deadline |-> deadline]]
  /\ executions' = [executions EXCEPT ![e].status = "Requested"]
  /\ executionIds' = Append(executionIds, e)
  /\ UNCHANGED <<chainVars, codeVars, dataVars, committees, bindingVars, pickRequests>>

AssignCommittee(sender, e, k) ==
  /\ sender = runtime
  /\ executions[e].status = "Requested"
  /\ committees[k].active
  /\ executions' = [executions EXCEPT ![e].status = "CommitteeAssigned",
                                      ![e].currentCommitteeId = k]
  /\ UNCHANGED <<chainVars, codeVars, dataVars, committees, requestVars,
                 bindingVars, pickRequests>>

MarkRunning(sender, e) ==
  /\ sender = runtime
  /\ executions[e].status = "CommitteeAssigned"
  /\ executions' = [executions EXCEPT ![e].status = "Running"]
  /\ UNCHANGED <<chainVars, codeVars, dataVars, committees, requestVars,
                 bindingVars, pickRequests>>

BeginHandoff(sender, e, k) ==
  /\ sender = runtime
  /\ executions[e].status = "Running"
  /\ committees[k].active
  /\ executions[e].round < MaxRound
  /\ executions' = [executions EXCEPT ![e].status = "Handoff",
                                      ![e].nextCommitteeId = k]
  /\ UNCHANGED <<chainVars, codeVars, dataVars, committees, requestVars,
                 bindingVars, pickRequests>>

HandedOff(execution) ==
  [execution EXCEPT !.status = "Running",
                    !.currentCommitteeId = execution.nextCommitteeId,
                    !.nextCommitteeId = None,
                    !.round = @ + 1]

FinalizeHandoff(sender, e, signers) ==
  /\ sender = runtime
  /\ executions[e].status = "Handoff"
  /\ VerifyThreshold(executions[e].nextCommitteeId, signers)
  /\ executions' = [executions EXCEPT ![e] = HandedOff(@)]
  /\ UNCHANGED <<chainVars, codeVars, dataVars, committees, requestVars,
                 bindingVars, pickRequests>>

\* The whole list is replaced, and with it the root that commits to it.
MovedReference(reference, nodes, epoch) ==
  [reference EXCEPT !.storageSetRoot = nodes, !.epoch = epoch, !.version = @ + 1]

UpdateDataLocationsAfterHandoff(sender, d, e, nodes, signers) ==
  LET k == executions[e].currentCommitteeId IN
  /\ sender = runtime
  /\ Available(d)
  /\ executions[e].status = "Running"
  /\ nodes \subseteq committees[k].members
  /\ VerifyThreshold(k, signers)
  /\ dataReferences[d].version < MaxDataVersion
  /\ dataStorageNodes' = [dataStorageNodes EXCEPT ![d] = nodes]
  /\ dataReferences' = [dataReferences EXCEPT ![d] =
       MovedReference(@, nodes, committees[k].epoch)]
  /\ UNCHANGED <<chainVars, codeVars, committees, requestVars, executions,
                 bindingVars, pickRequests>>

\* submitResult is accepted from the running state, before the deadline.
Submittable(e) ==
  /\ executions[e].status = "Running"
  /\ now <= requests[e].deadline

\* The compare-and-set on the contract's state root.
OldRootIsCurrent(e) == contracts[ContractOf(e)].stateRoot = requests[e].oldStateRoot

CompletedExecution(execution, d, newStateRoot) ==
  [execution EXCEPT !.status = "Completed",
                    !.outputId = d,
                    !.newStateRoot = newStateRoot]

\* A committee signs the old root for a call that writes nothing, and the
\* derived root otherwise.
SubmitResult(sender, e, d, representation, fheKeyId, storageSetRoot, version, newStateRoot, signers) ==
  LET c == ContractOf(e)
      k == executions[e].currentCommitteeId
  IN
  /\ sender = runtime
  /\ Submittable(e)
  /\ newStateRoot \in {requests[e].oldStateRoot, DerivedRoot(e)} \ {ZeroRoot}
  /\ Unregistered(d)
  /\ ValidKey(RequesterOf(e), representation, fheKeyId)
  /\ VerifyThreshold(k, signers)
  /\ OldRootIsCurrent(e)
  /\ contracts' = [contracts EXCEPT ![c].stateRoot = newStateRoot,
                                    ![c].version = @ + 1]
  /\ dataReferences' = [dataReferences EXCEPT ![d] =
       [status |-> "Available", owner |-> RequesterOf(e),
        representation |-> representation, fheKeyId |-> fheKeyId,
        storageSetRoot |-> storageSetRoot, version |-> version,
        epoch |-> committees[k].epoch]]
  /\ executions' = [executions EXCEPT ![e] = CompletedExecution(@, d, newStateRoot)]
  /\ UNCHANGED <<chainVars, functions, dataStorageNodes, committees, requestVars,
                 bindingVars, pickRequests>>

\* The binding of a variable that an execution's update names.
Rebound(variable, d) ==
  [variable EXCEPT !.dataId = d,
                   !.representation = dataReferences[d].representation,
                   !.version = dataReferences[d].version]

UpdateStateVariablesAfterResult(sender, e, updates, signers) ==
  /\ sender = runtime
  /\ executions[e].status = "Completed"
  /\ e \notin updatesFinalized
  /\ updates # {}
  /\ VerifyThreshold(executions[e].currentCommitteeId, signers)
  /\ \A v \in updates : /\ stateVariables[v].exists
                        /\ stateVariables[v].contractId = ContractOf(e)
  /\ stateVariables' = [v \in Variables |->
       IF v \in updates THEN Rebound(stateVariables[v], executions[e].outputId)
                        ELSE stateVariables[v]]
  /\ updatesFinalized' = updatesFinalized \cup {e}
  /\ UNCHANGED <<chainVars, codeVars, dataVars, committees, requestVars,
                 executions, pickRequests>>

-----------------------------------------------------------------------------
(* Pick requests *)

AddPick(request) ==
  /\ request.expiry > now
  /\ request \notin pickRequests
  /\ pickRequests' = pickRequests \cup {request}
  /\ UNCHANGED <<chainVars, codeVars, dataVars, committees, requestVars,
                 executions, bindingVars>>

MayPick(sender, d) == sender = dataReferences[d].owner

RequestPick(sender, d, nonce, expiry) ==
  /\ Available(d)
  /\ MayPick(sender, d)
  /\ AddPick([variable |-> None, dataId |-> d, version |-> 0,
              requester |-> sender, nonce |-> nonce, expiry |-> expiry])

RequestVariablePickFor(sender, v, requester, nonce, expiry) ==
  /\ stateVariables[v].exists
  /\ sender = ContractOwner[stateVariables[v].contractId]
  /\ AddPick([variable |-> v, dataId |-> stateVariables[v].dataId,
              version |-> stateVariables[v].version,
              requester |-> requester, nonce |-> nonce, expiry |-> expiry])

-----------------------------------------------------------------------------
(* External: the next block has a later timestamp. *)
Tick ==
  /\ now < MaxTime
  /\ now' = now + 1
  /\ UNCHANGED <<runtime, sortitionVerifier, codeVars, dataVars, committees,
                 requestVars, executions, bindingVars, pickRequests>>

Times == 1..MaxTime

AdminNext(sender) ==
  \/ \E next \in RuntimeAccounts : SetRuntime(sender, next)
  \/ \E next \in Verifiers : SetSortitionVerifier(sender, next)

OwnerNext(sender) ==
  \/ \E c \in ContractIds, root \in {GenesisRoot, ZeroRoot} :
       PublishContract(sender, c, root)
  \/ \E c \in ContractIds, s \in Selectors : PublishFunction(sender, c, s)
  \/ \E owner \in DataOwners, d \in DataIds, r \in Representations,
        key \in DataIds \cup {None}, nodes \in StorageSets, version \in InitialVersions :
       RegisterData(sender, owner, d, r, key, nodes, version)
  \/ \E d \in DataIds, nodes \in NodeSets : RegisterDataLocations(sender, d, nodes)
  \/ \E e \in ExecutionIds, s \in Selectors, inputs \in InputSets, t \in Times :
       Invoke(sender, e, s, inputs, t)
  \/ \E d \in DataIds, n \in PickNonces, t \in Times : RequestPick(sender, d, n, t)
  \/ \E v \in Variables, u \in Users, n \in PickNonces, t \in Times :
       RequestVariablePickFor(sender, v, u, n, t)

RuntimeNext(sender) ==
  \/ \E c \in ContractIds, v \in Variables, d \in DataIds :
       DeclareStateVariable(sender, c, v, d)
  \/ \E s \in Selections[sortitionVerifier] : \E t \in 1..Cardinality(Nodes) :
       FinalizeCommittee(sender, s, t)
  \/ \E e \in ExecutionIds, k \in CommitteeIds : AssignCommittee(sender, e, k)
  \/ \E e \in ExecutionIds : MarkRunning(sender, e)
  \/ \E e \in ExecutionIds, k \in CommitteeIds : BeginHandoff(sender, e, k)
  \/ \E e \in ExecutionIds, signers \in NodeSets : FinalizeHandoff(sender, e, signers)
  \/ \E d \in DataIds, e \in ExecutionIds, nodes, signers \in NodeSets :
       UpdateDataLocationsAfterHandoff(sender, d, e, nodes, signers)
  \/ \E e \in ExecutionIds, d \in DataIds, r \in Representations,
        key \in DataIds \cup {None}, nodes \in StorageSets, version \in InitialVersions,
        root \in Roots, signers \in NodeSets :
       SubmitResult(sender, e, d, r, key, nodes, version, root, signers)
  \/ \E e \in ExecutionIds, updates \in SUBSET Variables, signers \in NodeSets :
       UpdateStateVariablesAfterResult(sender, e, updates, signers)

Next ==
  \/ \E sender \in Accounts :
       AdminNext(sender) \/ OwnerNext(sender) \/ RuntimeNext(sender)
  \/ Tick

Spec == Init /\ [][Next]_vars

-----------------------------------------------------------------------------
(* Properties *)

TypeOK ==
  /\ now \in 0..MaxTime
  /\ runtime \in RuntimeAccounts
  /\ sortitionVerifier \in Verifiers
  /\ contracts \in [ContractIds -> ConfidentialContract]
  /\ functions \subseteq ContractIds \X Selectors
  /\ dataReferences \in [DataIds -> DataReference]
  /\ dataStorageNodes \in [DataIds -> SUBSET Nodes]
  /\ committees \in [CommitteeIds -> Committee]
  /\ requests \in [ExecutionIds -> Request]
  /\ executions \in [ExecutionIds -> Execution]
  /\ executionIds \in Seq(ExecutionIds)
  /\ nonceUsed \subseteq Users \X Nonces
  /\ stateVariables \in [Variables -> StateVariable]
  /\ updatesFinalized \subseteq ExecutionIds
  /\ pickRequests \subseteq PickRequest

Requested(e) == executions[e].status # "None"
Completed(e) == executions[e].status = "Completed"
Overtaken(e) == contracts[ContractOf(e)].stateRoot # requests[e].oldStateRoot

(* The control plane implements StateLineage: the root a request keeps and  *)
(* the compare-and-set of submitResult order the writes of a contract into  *)
(* one chain, whatever is interleaved between request and result.           *)
Lineage == INSTANCE StateLineage WITH
  Contract <- [e \in ExecutionIds |-> ContractOf(e)],
  InitialRoots <- {GenesisRoot, ZeroRoot},
  head <- [c \in ContractIds |->
             IF contracts[c].active THEN contracts[c].stateRoot ELSE None],
  base <- [e \in ExecutionIds |->
             IF Requested(e) THEN requests[e].oldStateRoot ELSE None],
  result <- [e \in ExecutionIds |->
               IF Completed(e) THEN executions[e].newStateRoot ELSE None]

ImplementsLineage == Lineage!Spec

(* No two accepted results of a contract wrote on the same root: of two     *)
(* concurrent executions the second cannot overwrite what the first wrote.  *)
NoLostUpdate == Lineage!NoLostUpdate

(* The state root of a contract is the one it was published with or that of *)
(* an accepted write, and no accepted write started from it.                *)
HeadIsLastWrite == Lineage!HeadIsLastWrite

(* Each completed execution has an output of its own, held by its           *)
(* requester, that is none of the inputs of a request: no result takes over *)
(* the reference that another execution produced or that a user uploaded.   *)
OutputsAreOwned ==
  \A e \in ExecutionIds : Completed(e) =>
    LET d == executions[e].outputId IN
    /\ Available(d)
    /\ dataReferences[d].owner = RequesterOf(e)
    /\ d \notin requests[e].inputs
    /\ \A f \in ExecutionIds \ {e} : Completed(f) => executions[f].outputId # d

(* A next committee is pending exactly during a hand-off, and an execution  *)
(* has a committee in charge from its assignment on: two hand-offs never    *)
(* overlap, and an unfinished one leaves the old committee in charge.       *)
OneCommitteeInCharge ==
  \A e \in ExecutionIds :
    /\ (executions[e].nextCommitteeId # None) <=> (executions[e].status = "Handoff")
    /\ (executions[e].currentCommitteeId # None)
         <=> (executions[e].status \notin {"None", "Requested"})

(* Every committee an execution waits for can reach its threshold, so no    *)
(* execution is blocked on signatures that cannot exist.                    *)
CommitteesCanSign ==
  \A e \in ExecutionIds :
    \A k \in {executions[e].currentCommitteeId, executions[e].nextCommitteeId} \ {None} :
      /\ committees[k].active
      /\ committees[k].threshold \in 1..Cardinality(committees[k].members)

(* A declared variable resolves to an available reference of the            *)
(* representation it is read with, at a version that reference has reached. *)
BindingsResolve ==
  \A v \in Variables : stateVariables[v].exists =>
    LET d == stateVariables[v].dataId IN
    /\ d \in DataIds /\ Available(d)
    /\ stateVariables[v].representation = dataReferences[d].representation
    /\ stateVariables[v].version \in 1..dataReferences[d].version

(* The key of an FHE reference is a secret-shared reference of the same     *)
(* owner, so the shares that open a ciphertext never belong to another user *)
(* and no key is itself encrypted.                                          *)
KeysOpenForOwner ==
  \A d \in DataIds :
    dataReferences[d].representation = "FHE" =>
      LET key == dataReferences[d].fheKeyId IN
      /\ key \in DataIds /\ Available(key)
      /\ dataReferences[key].representation = "SecretSharing"
      /\ dataReferences[key].owner = dataReferences[d].owner

(* The published node list always hashes to the root in the reference: the  *)
(* owner's publication and a later migration write two separate mappings.   *)
LocationsMatchRoot ==
  \A d \in DataIds : dataStorageNodes[d] # {} =>
    dataStorageNodes[d] = dataReferences[d].storageSetRoot

(* A reference never returns to an earlier version, and its owner,          *)
(* representation and key are fixed when it is registered: a migration      *)
(* signed for one version cannot undo a later one.                          *)
ReferencesOnlyAdvance ==
  [][\A d \in DataIds : Available(d) =>
       /\ Available(d)'
       /\ dataReferences'[d].version >= dataReferences[d].version
       /\ dataReferences'[d].version = dataReferences[d].version
            => dataReferences'[d] = dataReferences[d]
       /\ dataReferences'[d].owner = dataReferences[d].owner
       /\ dataReferences'[d].representation = dataReferences[d].representation
       /\ dataReferences'[d].fheKeyId = dataReferences[d].fheKeyId]_vars

(* Who may sign for an execution changes by a finished hand-off only: the   *)
(* committee in charge is the one assigned to the request, and is replaced  *)
(* by the pending one alone, when its hand-off ends; until then neither the *)
(* members nor the threshold of the two change, whatever another verifier   *)
(* accepts under their ids.                                                 *)
SignersChangeByHandoffOnly ==
  [][\A e \in ExecutionIds :
       LET before == executions[e]
           after == executions'[e]
       IN
       /\ \A k \in {before.currentCommitteeId, before.nextCommitteeId} \ {None} :
            committees'[k] = committees[k]
       /\ after.currentCommitteeId # before.currentCommitteeId =>
            \/ /\ before.status = "Requested"
               /\ committees[after.currentCommitteeId].active
            \/ /\ before.status = "Handoff"
               /\ after.currentCommitteeId = before.nextCommitteeId
       /\ after.nextCommitteeId # before.nextCommitteeId =>
            \/ before.status = "Running" /\ after.status = "Handoff"
            \/ before.status = "Handoff" /\ after.currentCommitteeId = before.nextCommitteeId
     ]_vars
=============================================================================
