--------------------------- MODULE ManifestDaemon ---------------------------
(***************************************************************************)
(* The committee daemons of one compiled contract, composed with the       *)
(* control plane: crates/runtime/src/manifest_daemon.rs, manifest.rs and   *)
(* bin/manifest_committee_daemon.rs.                                       *)
(*                                                                         *)
(* A daemon repeats three calls: it polls the task at its cursor, submits  *)
(* the oldest result of its outbox, and registers the oldest upload.  Its  *)
(* database survives a crash, its local variables do not.  Transactions,   *)
(* database transactions and the reads whose answer may be old when it is  *)
(* used are steps of their own, so users, operators, other daemons and     *)
(* crashes come between any two; a read that the contract repeats as a     *)
(* check of the transaction is one step with it.  A node signs and sends   *)
(* with one key: the sender is the node.                                   *)
(***************************************************************************)
EXTENDS ControlPlane

CONSTANTS
  Daemons,          \* nodes that run a daemon
  DaemonContract,   \* CONTRACT_ID
  ActiveCommittee,  \* ACTIVE_COMMITTEE_ID of each daemon
  FinalMembers,     \* committeeId -> its members, finalized before the start
  Call,             \* execution -> what its requester calls, see CallRecord
  KeyOf,            \* user -> the data id of the user's FHE key
  Representation,   \* variable -> representation of its value
  Uploads,          \* signed upload requests that clients may post
  Registrations     \* calls of registerData that accounts may make themselves

\* The function and the arguments select the cells read and written, and whether
\* the requires of the function hold (require_secret).
CallRecord ==
  [selector : Selectors, inputs : SUBSET DataIds, reads : SUBSET Variables,
   writes : SUBSET Variables, opens : BOOLEAN, holds : BOOLEAN]

UploadRequest ==
  [owner : Users, dataId : DataIds, nonce : Nonces, deadline : Nat,
   representation : Representations]

Registration ==
  [owner : DataOwners, dataId : DataIds, representation : Representations,
   fheKeyId : DataIds \cup {None}, nodes : StorageSets]

\* The cells an execution read, by the execution that had written them.  The
\* output id is a hash of the result payload, which these cells determine.
Basis(e) == [Call[e].reads -> ExecutionIds]
OutputId(e, basis) == <<e, basis>>

ASSUME DaemonAssumption ==
  /\ Daemons \subseteq Nodes \cap RuntimeAccounts
  /\ DaemonContract \in ContractIds
  /\ ActiveCommittee \in [Daemons -> CommitteeIds]
  /\ FinalMembers \in [CommitteeIds -> NodeSets]
  /\ Call \in [ExecutionIds -> CallRecord]
  /\ KeyOf \in [Users -> DataIds]
  /\ Representation \in [Variables -> Representations]
  /\ Uploads \subseteq UploadRequest
  /\ Registrations \subseteq Registration
  /\ \A e \in ExecutionIds : \A b \in Basis(e) : OutputId(e, b) \in DataIds
  /\ \A n \in Daemons : {n} \in StorageSets
  /\ 1 \in InitialVersions
  /\ \A e \in ExecutionIds : Call[e].inputs \in InputSets

\* Each kind of id is hashed in a domain of its own, an upload's with its owner.
ASSUME UploadIdsAssumption ==
  \A u \in Uploads :
    /\ \A x \in Users : u.dataId # KeyOf[x]
    /\ \A e \in ExecutionIds : \A b \in Basis(e) : u.dataId # OutputId(e, b)
    /\ \A w \in Uploads : u.dataId = w.dataId => u.owner = w.owner

VARIABLES
  phase,           \* the call of the main loop each daemon comes to next
  memory,          \* its local variables: [status, existing, visited]
  processed,       \* ppsc_manifest_processed_tasks, in queue order
  cells,           \* ppsc_manifest_state: variable -> the execution that wrote it
  outbox,          \* ppsc_manifest_result_outbox, the rows not submitted, by age
  acceptedUploads, \* ppsc_manifest_uploads and ppsc_manifest_inputs
  pendingUploads,  \* the uploads not registered, by age
  openingResults   \* of the gateway contract

loopVars   == <<phase, memory>>
ledgerVars == <<processed, cells, outbox>>
uploadVars == <<acceptedUploads, pendingUploads>>
daemonVars == <<phase, memory, processed, cells, outbox, acceptedUploads,
                pendingUploads>>
allVars    == <<vars, daemonVars, openingResults>>

Fresh == [status |-> "None", existing |-> {}, visited |-> {}]

\* The contracts are deployed, their functions published and the committees
\* finalized, each with threshold one.
DaemonInit ==
  /\ now = 0
  /\ runtime \in Daemons
  /\ sortitionVerifier \in Verifiers
  /\ contracts = [c \in ContractIds |->
       [active |-> TRUE, stateRoot |-> GenesisRoot, version |-> 1]]
  /\ functions = ContractIds \X Selectors
  /\ dataReferences = [d \in DataIds |->
       [status |-> "None", owner |-> None, representation |-> None,
        fheKeyId |-> None, storageSetRoot |-> {}, version |-> 0, epoch |-> 0]]
  /\ dataStorageNodes = [d \in DataIds |-> {}]
  /\ committees = [k \in CommitteeIds |->
       [active |-> TRUE, epoch |-> 1, threshold |-> 1, members |-> FinalMembers[k]]]
  /\ requests = [e \in ExecutionIds |->
       [selector |-> None, inputs |-> {}, oldStateRoot |-> ZeroRoot, deadline |-> 0]]
  /\ executions = [e \in ExecutionIds |->
       [status |-> "None", currentCommitteeId |-> None, nextCommitteeId |-> None,
        outputId |-> None, newStateRoot |-> ZeroRoot, round |-> 0]]
  /\ executionIds = <<>>
  /\ nonceUsed = {}
  /\ stateVariables = [v \in Variables |->
       [exists |-> FALSE, contractId |-> None, dataId |-> None,
        representation |-> None, version |-> 0]]
  /\ updatesFinalized = {}
  /\ pickRequests = {}
  /\ phase = [n \in Daemons |-> "poll"]
  /\ memory = [n \in Daemons |-> Fresh]
  /\ processed = [n \in Daemons |-> <<>>]
  /\ cells = [n \in Daemons |-> [v \in Variables |-> None]]
  /\ outbox = [n \in Daemons |-> <<>>]
  /\ acceptedUploads = [n \in Daemons |-> {}]
  /\ pendingUploads = [n \in Daemons |-> <<>>]
  /\ openingResults = [e \in ExecutionIds |-> None]

-----------------------------------------------------------------------------
(* The loop *)

At(n, p) == phase[n] = p

Goto(n, p) == phase' = [phase EXCEPT ![n] = p] /\ UNCHANGED memory

\* The call of the phase returns, and with it go its local variables.
AfterCall(n) ==
  CASE phase[n] \in {"poll", "assign", "run", "decide"} -> "outbox"
    [] phase[n] \in {"upload", "uploadKey", "uploadKeyLocations", "uploadData",
                     "uploadLocations", "uploadMark"} -> "poll"
    [] OTHER -> "upload"
Enter(n, p) ==
  /\ phase' = [phase EXCEPT ![n] = p]
  /\ memory' = [memory EXCEPT ![n] = Fresh]
Return(n) == Enter(n, AfterCall(n))

\* How a transaction that is mined ends for the daemon that sent it: it goes on,
\* or it gets an error all the same.  One that is not mined is ReturnError.
Answers == {"confirmed", "lost"}
Send(n, answer, Transaction, Then) ==
  Transaction /\ IF answer = "confirmed" THEN Then ELSE Return(n)

OnControl(Transaction) == Transaction /\ UNCHANGED openingResults
Chain == UNCHANGED <<vars, openingResults>>

-----------------------------------------------------------------------------
(* Slips: forms of the operators below with one check lost, or one order      *)
(* turned round.  More follow where they need the helpers of their section.  *)

NextPendingNewest(n) == outbox[n][Len(outbox[n])]
WithRowOnly(n, row) == <<row>>
VisitOnlyDeclared(n, v, found) ==
  /\ memory' = [memory EXCEPT ![n].visited = @ \cup {v}]
  /\ UNCHANGED phase
PublishUploadOfNewOnly(n, answer) ==
  /\ At(n, "uploadLocations")
  /\ answer = "confirmed" /\ Chain /\ Goto(n, "uploadMark")
  /\ UNCHANGED <<ledgerVars, uploadVars>>

-----------------------------------------------------------------------------
(* Polling: poll_once and the task_at of the chain *)

HasTask(n) == Len(processed[n]) < Len(executionIds)
NextTask(n) == executionIds[Len(processed[n]) + 1]

Idle(n) ==
  /\ At(n, "poll")
  /\ ~HasTask(n)
  /\ Chain /\ Return(n) /\ UNCHANGED <<ledgerVars, uploadVars>>

\* Slip: a task is advanced only when this poll finds it new.
ReadTaskNewOnly(n) ==
  LET status == executions[NextTask(n)].status IN
  /\ At(n, "poll")
  /\ HasTask(n)
  /\ phase' = [phase EXCEPT ![n] = IF status = "Requested" THEN "assign" ELSE "decide"]
  /\ memory' = [memory EXCEPT ![n].status = IF status = "Requested" THEN "Running" ELSE status]
  /\ Chain /\ UNCHANGED <<ledgerVars, uploadVars>>

\* advance_to_running runs for every task, before its contract is looked at.
ReadTask(n) ==
  LET status == executions[NextTask(n)].status IN
  /\ At(n, "poll")
  /\ HasTask(n)
  /\ phase' = [phase EXCEPT ![n] =
       CASE status = "Requested" -> "assign"
         [] status = "CommitteeAssigned" -> "run"
         [] OTHER -> "decide"]
  /\ memory' = [memory EXCEPT ![n].status =
       IF status \in {"Requested", "CommitteeAssigned"} THEN "Running" ELSE status]
  /\ Chain /\ UNCHANGED <<ledgerVars, uploadVars>>

AssignTask(n, answer) ==
  /\ At(n, "assign")
  /\ Send(n, answer, OnControl(AssignCommittee(n, NextTask(n), ActiveCommittee[n])),
          Goto(n, "run"))
  /\ UNCHANGED <<ledgerVars, uploadVars>>

RunTask(n, answer) ==
  /\ At(n, "run")
  /\ Send(n, answer, OnControl(MarkRunning(n, NextTask(n))),
          Goto(n, "decide"))
  /\ UNCHANGED <<ledgerVars, uploadVars>>

\* The status was read before, the committee is read now.
IsCurrentMember(n, e) ==
  LET k == executions[e].currentCommitteeId IN
  k # None /\ n \in committees[k].members

Skippable(n, e) == ContractOf(e) # DaemonContract \/ memory[n].status = "Completed"
MayEvaluate(n, e) == memory[n].status = "Running" /\ IsCurrentMember(n, e)

\* complete_execution: the record and the cursor in one transaction.
SkipTask(n) ==
  LET e == NextTask(n) IN
  /\ At(n, "decide")
  /\ Skippable(n, e)
  /\ processed' = [processed EXCEPT ![n] = Append(@, [execution |-> e, outcome |-> "skipped"])]
  /\ Return(n)
  /\ Chain /\ UNCHANGED <<cells, outbox, uploadVars>>

\* The inputs and the cells are in this node's database and every require holds.
Evaluable(n, e) ==
  /\ Call[e].holds
  /\ requests[e].inputs \subseteq {u.dataId : u \in acceptedUploads[n]}
  /\ \A v \in Call[e].reads : cells[n][v] # None

\* PollOutcome::Waiting, and an evaluation that fails: the cursor is kept.
KeepTask(n) ==
  LET e == NextTask(n) IN
  /\ At(n, "decide")
  /\ ~Skippable(n, e)
  /\ ~(MayEvaluate(n, e) /\ Evaluable(n, e))
  /\ Return(n)
  /\ Chain /\ UNCHANGED <<ledgerVars, uploadVars>>

WithRow(n, row) == Append(outbox[n], row)

\* evaluate and commit_computation: cells, outbox, record and cursor at once.
CommitComputation(n) ==
  LET e == NextTask(n) IN
  /\ At(n, "decide")
  /\ ~Skippable(n, e)
  /\ MayEvaluate(n, e)
  /\ Evaluable(n, e)
  /\ cells' = [cells EXCEPT ![n] = [v \in Variables |->
       IF v \in Call[e].writes THEN e ELSE cells[n][v]]]
  /\ outbox' = [outbox EXCEPT ![n] = WithRow(n,
       [execution |-> e, basis |-> [v \in Call[e].reads |-> cells[n][v]]])]
  /\ processed' = [processed EXCEPT ![n] = Append(@, [execution |-> e, outcome |-> "completed"])]
  /\ Return(n)
  /\ Chain /\ UNCHANGED uploadVars

-----------------------------------------------------------------------------
(* The outbox: submit_pending *)

NextPending(n) == outbox[n][1]
Writes(n) == Call[NextPending(n).execution].writes
Output(n) == OutputId(NextPending(n).execution, NextPending(n).basis)
Requester(n) == RequesterOf(NextPending(n).execution)

Encrypted(n) == Writes(n) # {} /\ \A v \in Writes(n) : Representation[v] = "FHE"
Mixed(n) == {"FHE", "SecretSharing"} \subseteq {Representation[v] : v \in Writes(n)}

ReadOutbox(n) ==
  /\ At(n, "outbox")
  /\ \/ outbox[n] = <<>> /\ Return(n)
     \/ outbox[n] # <<>> /\ Mixed(n) /\ Return(n)
     \/ /\ outbox[n] # <<>> /\ ~Mixed(n)
        /\ Goto(n, IF Encrypted(n) /\ ~Available(KeyOf[Requester(n)])
                   THEN "key" ELSE "result")
  /\ Chain /\ UNCHANGED <<ledgerVars, uploadVars>>

\* ensure_user_key: two transactions, both only when the key is not registered.
RegisterKey(n, owner) ==
  OnControl(RegisterData(n, owner, KeyOf[owner], "SecretSharing", None, {n}, 1))
PublishKey(n, owner) == OnControl(RegisterDataLocations(n, KeyOf[owner], {n}))

EnsureResultKey(n, answer) ==
  /\ \/ /\ At(n, "key")
        /\ Send(n, answer, RegisterKey(n, Requester(n)),
                Goto(n, "keyLocations"))
     \/ /\ At(n, "keyLocations")
        /\ Send(n, answer, PublishKey(n, Requester(n)),
                Goto(n, "result"))
  /\ UNCHANGED <<ledgerVars, uploadVars>>

\* derive_state_root
NewRoot(n) ==
  LET e == NextPending(n).execution IN
  IF Writes(n) = {} THEN requests[e].oldStateRoot ELSE DerivedRoot(e)

\* Slip: the status of the execution is not read before the result is sent.
SubmitTaskAgain(n, answer) ==
  LET key == IF Encrypted(n) THEN KeyOf[Requester(n)] ELSE None IN
  /\ At(n, "result")
  /\ Send(n, answer,
          OnControl(SubmitResult(n, NextPending(n).execution, Output(n),
                                 IF Encrypted(n) THEN "FHE" ELSE "SecretSharing",
                                 key, {n}, 1, NewRoot(n), {n})),
          Goto(n, "declare"))
  /\ UNCHANGED <<ledgerVars, uploadVars>>

SubmitTask(n, answer) ==
  LET e == NextPending(n).execution
      representation == IF Encrypted(n) THEN "FHE" ELSE "SecretSharing"
      key == IF Encrypted(n) THEN KeyOf[Requester(n)] ELSE None
  IN
  /\ At(n, "result")
  /\ \/ /\ executions[e].status = "Completed" /\ answer = "confirmed"
        /\ Chain /\ Goto(n, "declare")
     \/ /\ executions[e].status # "Completed"
        /\ Send(n, answer,
                OnControl(SubmitResult(n, e, Output(n), representation, key, {n}, 1,
                                       NewRoot(n), {n})),
                Goto(n, "declare"))
  /\ UNCHANGED <<ledgerVars, uploadVars>>

VariablesToVisit(n) == Writes(n) \ memory[n].visited

Visit(n, v, found) ==
  /\ memory' = [memory EXCEPT ![n].visited = @ \cup {v}, ![n].existing = @ \cup found]
  /\ UNCHANGED phase

\* One variable of the result is declared, or kept for the update.
VisitVariable(n, answer) ==
  /\ At(n, "declare")
  /\ \/ VariablesToVisit(n) = {} /\ answer = "confirmed" /\ Chain /\ Goto(n, "update")
     \/ \E v \in VariablesToVisit(n) :
          \/ stateVariables[v].exists /\ answer = "confirmed" /\ Chain /\ Visit(n, v, {v})
          \/ /\ ~stateVariables[v].exists
             /\ Send(n, answer, OnControl(DeclareStateVariable(n, DaemonContract, v, Output(n))),
                     Visit(n, v, {}))
  /\ UNCHANGED <<ledgerVars, uploadVars>>

UpdateVariables(n, answer) ==
  LET e == NextPending(n).execution
      needed == memory[n].existing # {} /\ e \notin updatesFinalized
  IN
  /\ At(n, "update")
  /\ \/ ~needed /\ answer = "confirmed" /\ Chain /\ Goto(n, "open")
     \/ /\ needed
        /\ Send(n, answer,
                OnControl(UpdateStateVariablesAfterResult(n, e, memory[n].existing, {n})),
                Goto(n, "open"))
  /\ UNCHANGED <<ledgerVars, uploadVars>>

\* The gateway keeps the last result it is given.
FulfillOpening(sender, e, value) ==
  /\ sender = runtime
  /\ executions[e].status = "Completed"
  /\ openingResults' = [openingResults EXCEPT ![e] = value]
  /\ UNCHANGED vars

OpenResult(n, answer) ==
  LET record == NextPending(n) IN
  /\ At(n, "open")
  /\ \/ ~Call[record.execution].opens /\ answer = "confirmed" /\ Chain /\ Goto(n, "mark")
     \/ /\ Call[record.execution].opens
        /\ Send(n, answer, FulfillOpening(n, record.execution, record.basis),
                Goto(n, "mark"))
  /\ UNCHANGED <<ledgerVars, uploadVars>>

MarkSubmitted(n) ==
  /\ At(n, "mark")
  /\ outbox' = [outbox EXCEPT ![n] = Tail(@)]
  /\ Return(n)
  /\ Chain /\ UNCHANGED <<processed, cells, uploadVars>>

-----------------------------------------------------------------------------
(* Uploads: the listener thread, and submit_pending_upload *)

\* A data id is a hash over the owner and the nonce; a nonce is used once.
AcceptUpload(n, upload) ==
  /\ now <= upload.deadline
  /\ upload \notin acceptedUploads[n]
  /\ \A u \in acceptedUploads[n] :
       u.dataId # upload.dataId /\ <<u.owner, u.nonce>> # <<upload.owner, upload.nonce>>
  /\ acceptedUploads' = [acceptedUploads EXCEPT ![n] = @ \cup {upload}]
  /\ pendingUploads' = [pendingUploads EXCEPT ![n] = Append(@, upload)]
  /\ Chain /\ UNCHANGED <<loopVars, ledgerVars>>

NextUpload(n) == pendingUploads[n][1]

\* Slip: the data id is not looked up before it is registered.
ReadUploadAgain(n) ==
  /\ At(n, "upload")
  /\ \/ pendingUploads[n] = <<>> /\ Return(n)
     \/ pendingUploads[n] # <<>> /\ Goto(n, "uploadData")
  /\ Chain /\ UNCHANGED <<ledgerVars, uploadVars>>

ReadUpload(n) ==
  /\ At(n, "upload")
  /\ \/ pendingUploads[n] = <<>> /\ Return(n)
     \/ /\ pendingUploads[n] # <<>>
        /\ Goto(n, IF Available(NextUpload(n).dataId) THEN "uploadLocations"
                   ELSE IF /\ NextUpload(n).representation = "FHE"
                           /\ ~Available(KeyOf[NextUpload(n).owner])
                   THEN "uploadKey" ELSE "uploadData")
  /\ Chain /\ UNCHANGED <<ledgerVars, uploadVars>>

EnsureUploadKey(n, answer) ==
  /\ \/ /\ At(n, "uploadKey")
        /\ Send(n, answer, RegisterKey(n, NextUpload(n).owner),
                Goto(n, "uploadKeyLocations"))
     \/ /\ At(n, "uploadKeyLocations")
        /\ Send(n, answer, PublishKey(n, NextUpload(n).owner),
                Goto(n, "uploadData"))
  /\ UNCHANGED <<ledgerVars, uploadVars>>

RegisterUpload(n, answer) ==
  LET u == NextUpload(n)
      key == IF u.representation = "FHE" THEN KeyOf[u.owner] ELSE None
  IN
  /\ At(n, "uploadData")
  /\ Send(n, answer,
          OnControl(RegisterData(n, u.owner, u.dataId, u.representation, key, {n}, 1)),
          Goto(n, "uploadLocations"))
  /\ UNCHANGED <<ledgerVars, uploadVars>>

PublishUpload(n, answer) ==
  LET d == NextUpload(n).dataId IN
  /\ At(n, "uploadLocations")
  /\ \/ dataStorageNodes[d] # {} /\ answer = "confirmed" /\ Chain /\ Goto(n, "uploadMark")
     \/ /\ dataStorageNodes[d] = {}
        /\ Send(n, answer, OnControl(RegisterDataLocations(n, d, {n})),
                Goto(n, "uploadMark"))
  /\ UNCHANGED <<ledgerVars, uploadVars>>

MarkUploadRegistered(n) ==
  /\ At(n, "uploadMark")
  /\ pendingUploads' = [pendingUploads EXCEPT ![n] = Tail(@)]
  /\ Return(n)
  /\ Chain /\ UNCHANGED <<ledgerVars, acceptedUploads>>

-----------------------------------------------------------------------------
(* Steps *)

Local(n) ==
  \/ Idle(n) \/ ReadTask(n) \/ SkipTask(n) \/ KeepTask(n) \/ CommitComputation(n)
  \/ ReadOutbox(n) \/ MarkSubmitted(n)
  \/ ReadUpload(n) \/ MarkUploadRegistered(n)

Remote(n, answer) ==
  \/ AssignTask(n, answer) \/ RunTask(n, answer)
  \/ EnsureResultKey(n, answer) \/ SubmitTask(n, answer) \/ VisitVariable(n, answer)
  \/ UpdateVariables(n, answer) \/ OpenResult(n, answer)
  \/ EnsureUploadKey(n, answer) \/ RegisterUpload(n, answer) \/ PublishUpload(n, answer)

\* A read of the chain or of the database fails, a transaction is not mined or
\* is reverted: main prints the error and goes on with the next call.
ReturnError(n) == Return(n) /\ Chain /\ UNCHANGED <<ledgerVars, uploadVars>>

DaemonStep(n) ==
  Local(n) \/ ReturnError(n) \/ \E answer \in Answers : Remote(n, answer)

\* The process stops and is started again.
Crash(n) ==
  /\ ~At(n, "poll")
  /\ Enter(n, "poll")
  /\ Chain /\ UNCHANGED <<ledgerVars, uploadVars>>

\* Any account may register any id that is free, those of keys, results and
\* uploads too, and an owner may publish the locations of what it owns.
RegisterOutside(registration) ==
  LET owner == registration.owner
      d     == registration.dataId
  IN
  \/ RegisterData(owner, owner, d, registration.representation,
                  registration.fheKeyId, registration.nodes, 1)
  \/ \E nodes \in StorageSets : RegisterDataLocations(owner, d, nodes)

\* External: users call through the owner of the contract (the gateway), the
\* admin moves the runtime address, an operator hands executions off.
Environment ==
  /\ \/ \E e \in ExecutionIds, t \in Times :
          Invoke(ContractOwner[ContractOf(e)], e, Call[e].selector, Call[e].inputs, t)
     \/ \E next \in RuntimeAccounts \ {runtime} : SetRuntime(Admin, next)
     \/ \E e \in ExecutionIds, k \in CommitteeIds : BeginHandoff(runtime, e, k)
     \/ \E e \in ExecutionIds, n \in Nodes : FinalizeHandoff(runtime, e, {n})
     \/ \E registration \in Registrations : RegisterOutside(registration)
     \/ Tick
  /\ UNCHANGED <<daemonVars, openingResults>>

DaemonNext ==
  \/ \E n \in Daemons : DaemonStep(n) \/ Crash(n)
  \/ \E n \in Daemons, upload \in Uploads : AcceptUpload(n, upload)
  \/ Environment

DaemonSpec == DaemonInit /\ [][DaemonNext]_allVars

-----------------------------------------------------------------------------
(* Properties *)

Mine(e) == ContractOf(e) = DaemonContract
Recorded(n, i, outcome) == i \in DOMAIN processed[n] /\ processed[n][i].outcome = outcome
InOutbox(n, e) == \E i \in DOMAIN outbox[n] : outbox[n][i].execution = e

HandedAway(n, e) == executions[e].status = "Running" /\ ~IsCurrentMember(n, e)

\* The last execution that wrote each variable in the chain of accepted writes up
\* to a root.
WriterAt[root \in Roots] ==
  [v \in Variables |->
     IF root \notin ExecutionIds THEN None
     ELSE IF v \in Call[root].writes THEN root
     ELSE WriterAt[requests[root].oldStateRoot][v]]

(* docs/privacy-contract-language.md:96: a restarted daemon continues with  *)
(* the last unfinished task and skips none in silence.  The record and the  *)
(* cursor move together, so position i of the records is position i of the  *)
(* chain's queue, a skipped task is foreign or done, and a computed one is  *)
(* in the outbox or has been accepted.                                      *)
NothingIsSkipped ==
  \A n \in Daemons : \A i \in DOMAIN processed[n] :
    LET e == processed[n][i].execution IN
    /\ i <= Len(executionIds) /\ e = executionIds[i]
    /\ Recorded(n, i, "skipped") => ~Mine(e) \/ Completed(e)
    /\ Recorded(n, i, "completed") => Mine(e) /\ (InOutbox(n, e) \/ Completed(e))

(* A result the chain accepts was computed from the cells that the accepted *)
(* writes up to its old root left: the daemon writes its cells before the   *)
(* chain has accepted them, and a write that is never accepted must not     *)
(* reach a later result.                                                    *)
AcceptedOnAcceptedState ==
  \A e \in ExecutionIds : Mine(e) /\ Completed(e) =>
    \A v \in Call[e].reads :
      executions[e].outputId[2][v] = WriterAt[requests[e].oldStateRoot][v]

(* Once a result has left the outbox, whatever crashes and errors it took,  *)
(* all of it is on the chain: the result, a declared variable for each cell *)
(* and the opening; and when the outbox is empty each variable is bound to  *)
(* the output of the execution that wrote the cell.                         *)
ResultsAreComplete ==
  \A n \in Daemons :
    /\ \A i \in DOMAIN processed[n] :
         LET e == processed[n][i].execution IN
         Recorded(n, i, "completed") /\ ~InOutbox(n, e) =>
           /\ \A v \in Call[e].writes : stateVariables[v].exists
           /\ Call[e].opens => openingResults[e] = executions[e].outputId[2]
    /\ outbox[n] = <<>> => \A v \in Variables : cells[n][v] # None =>
         stateVariables[v].dataId = executions[cells[n][v]].outputId

\* The id was taken by an account that registered it itself.
Preempted(d) == \E r \in Registrations : r.dataId = d /\ dataReferences[d].owner = r.owner

\* The locations of the id name a daemon that has its value.
HeldByDaemon(d) ==
  \E m \in Daemons : /\ dataStorageNodes[d] = {m}
                      /\ \E w \in acceptedUploads[m] : w.dataId = d

(* An upload that left the queue is registered for its owner and located at *)
(* a daemon that accepted it, although registration and location are        *)
(* separate transactions, either may be lost and another daemon may be      *)
(* faster; unless the id was taken before, and then it is located as that   *)
(* registration says.                                                       *)
UploadsAreLocated ==
  \A n \in Daemons : \A u \in acceptedUploads[n] :
    (\A i \in DOMAIN pendingUploads[n] : pendingUploads[n][i] # u) =>
      /\ Available(u.dataId) /\ dataStorageNodes[u.dataId] # {}
      /\ \/ Preempted(u.dataId)
         \/ dataReferences[u.dataId].owner = u.owner /\ HeldByDaemon(u.dataId)

-----------------------------------------------------------------------------
(* Progress *)

\* A daemon that has stopped is started again and its loop runs for ever; and
\* crashes and errors, however many there are, come to an end, but for those of
\* the transactions that the contracts revert.
Succeed(n) == Local(n) \/ Remote(n, "confirmed")
Calm ==
  \/ \E n \in Daemons :
       Succeed(n) \/ (~ENABLED Succeed(n) /\ ReturnError(n))
  \/ UNCHANGED phase
DaemonFairness ==
  /\ \A n \in Daemons : WF_allVars(DaemonStep(n))
  /\ <>[][Calm]_allVars

FairDaemonSpec == DaemonSpec /\ DaemonFairness

(* A task that the daemon can evaluate is computed or skipped, and a foreign *)
(* one is skipped: whatever transactions are lost and however often the     *)
(* daemon crashes, the cursor moves on while the node is in charge.         *)
TasksAreTaken ==
  \A n \in Daemons, e \in ExecutionIds :
    (runtime = n /\ HasTask(n) /\ NextTask(n) = e /\ (Mine(e) => Evaluable(n, e))) ~>
      \/ ~HasTask(n) \/ NextTask(n) # e
      \/ runtime # n \/ executions[e].status = "Handoff" \/ HandedAway(n, e)

\* The user's key is not registered yet, or as the contract wants it.
KeyIsUsable(user) ==
  Available(KeyOf[user]) =>
    ValidKey(user, "FHE", KeyOf[user])

(* docs/privacy-contract-language.md:117: a result whose submission fails   *)
(* stays in the outbox and is submitted later.  It holds of the head of the *)
(* outbox while the daemon stays in charge, unless a sibling result or the  *)
(* deadline has made the result unacceptable, it writes cells of both       *)
(* representations, which submit_pending refuses, or another account was    *)
(* faster to register the id of the result or of the requester's key.       *)
PendingResultsAreSubmitted ==
  \A n \in Daemons, e \in ExecutionIds :
    (outbox[n] # <<>> /\ NextPending(n).execution = e) ~>
      \/ outbox[n] = <<>> \/ NextPending(n).execution # e
      \/ Mixed(n)
      \/ /\ ~Completed(e)
         /\ \/ Overtaken(e) \/ now > requests[e].deadline
            \/ Available(Output(n)) \/ ~KeyIsUsable(RequesterOf(e))
      \/ runtime # n \/ executions[e].status = "Handoff" \/ HandedAway(n, e)

\* Somebody registered the id for other locations and has not published them, or
\* registered the id of the owner's key.
UploadIsBlocked(n, u) ==
  IF Available(u.dataId)
  THEN dataStorageNodes[u.dataId] = {} /\ dataReferences[u.dataId].storageSetRoot # {n}
  ELSE u.representation = "FHE" /\ ~KeyIsUsable(u.owner)

(* An upload a client was told is accepted gets registered on the chain     *)
(* while the daemon is the runtime, whatever transactions are lost, unless  *)
(* the registrations of others block it.                                    *)
UploadsAreRegistered ==
  \A n \in Daemons, u \in Uploads :
    (pendingUploads[n] # <<>> /\ NextUpload(n) = u) ~>
      \/ pendingUploads[n] = <<>> \/ NextUpload(n) # u \/ runtime # n
      \/ UploadIsBlocked(n, u)
=============================================================================
