------------------------ MODULE ManifestDaemonProofs ------------------------
(***************************************************************************)
(* Proofs about ManifestDaemon, for any number of executions, variables    *)
(* and uploads, and of daemons where the second part does not fix one.     *)
(* The composed system takes steps of the control plane only, so what      *)
(* ControlPlaneProofs proves of them holds here too.                       *)
(***************************************************************************)
EXTENDS ManifestDaemon, ControlPlaneProofs, Totals

TaskPhases == {"assign", "run", "decide"}
ResultPhases == {"key", "keyLocations", "result", "declare", "update", "open", "mark"}
UploadPhases == {"uploadKey", "uploadKeyLocations", "uploadData", "uploadLocations", "uploadMark"}
\* Between two calls of the loop.
CallPhases == {"poll", "outbox", "upload"}

Memory == [status : ExecutionStatus, existing : SUBSET Variables, visited : SUBSET Variables]
TaskRecord == [execution : ExecutionIds, outcome : {"skipped", "completed"}]
Row == UNION {[execution : {e}, basis : Basis(e)] : e \in ExecutionIds}

DaemonTypeOK ==
  /\ phase \in [Daemons -> CallPhases \cup TaskPhases \cup ResultPhases \cup UploadPhases]
  /\ memory \in [Daemons -> Memory]
  /\ processed \in [Daemons -> Seq(TaskRecord)]
  /\ cells \in [Daemons -> [Variables -> ExecutionIds \cup {None}]]
  /\ outbox \in [Daemons -> Seq(Row)]
  /\ acceptedUploads \in [Daemons -> SUBSET Uploads]
  /\ pendingUploads \in [Daemons -> Seq(Uploads)]

(* A call that is under way has the row it works on.                        *)
PhasesOK ==
  \A n \in Daemons :
    /\ phase[n] \in TaskPhases => HasTask(n)
    /\ phase[n] \in ResultPhases => outbox[n] # <<>>
    /\ phase[n] \in UploadPhases => pendingUploads[n] # <<>>

-----------------------------------------------------------------------------
(* The steps *)

(* A call ends, by its last statement, an error or a crash.                 *)
EndsCall(n) ==
  /\ \E p \in CallPhases : phase' = [phase EXCEPT ![n] = p]
  /\ memory' = [memory EXCEPT ![n] = Fresh]

(* A call goes on with its next statement.                                  *)
Walks(n, from, to) ==
  phase[n] = from /\ phase' = [phase EXCEPT ![n] = to] /\ UNCHANGED memory

Quiet == UNCHANGED <<ledgerVars, uploadVars>>

LEMMA ReturnFacts == ASSUME NEW n, Return(n) \/ Enter(n, "poll") PROVE EndsCall(n)
<1>1. AfterCall(n) \in CallPhases
  BY DEF AfterCall, CallPhases
<1>2. "poll" \in CallPhases
  BY DEF CallPhases
<1>3. QED
  BY <1>1, <1>2 DEF Return, Enter, EndsCall

(* Every step of a daemon ends its call, or is one of these.                *)
PollWalk(n) ==
  \/ ReadTask(n)
  \/ Walks(n, "assign", "run") /\ Quiet
  \/ Walks(n, "run", "decide") /\ Quiet
ResultWalk(n) ==
  \/ outbox[n] # <<>> /\ (Walks(n, "outbox", "key") \/ Walks(n, "outbox", "result"))
  \/ Walks(n, "key", "keyLocations") \/ Walks(n, "keyLocations", "result")
  \/ SubmitTask(n, "confirmed") /\ Walks(n, "result", "declare")
  \/ VisitVariable(n, "confirmed")
  \/ UpdateVariables(n, "confirmed") /\ Walks(n, "update", "open")
  \/ OpenResult(n, "confirmed") /\ Walks(n, "open", "mark")
UploadWalk(n) ==
  \/ ReadUpload(n) /\ pendingUploads[n] # <<>>
  \/ Walks(n, "uploadKey", "uploadKeyLocations") \/ Walks(n, "uploadKeyLocations", "uploadData")
  \/ RegisterUpload(n, "confirmed") /\ Walks(n, "uploadData", "uploadLocations")
  \/ PublishUpload(n, "confirmed") /\ Walks(n, "uploadLocations", "uploadMark")

LEMMA StepKinds ==
  ASSUME NEW n \in Daemons, DaemonStep(n) \/ Crash(n)
  PROVE  \/ EndsCall(n) /\ Quiet
         \/ EndsCall(n) /\ (SkipTask(n) \/ CommitComputation(n) \/ MarkSubmitted(n)
                            \/ MarkUploadRegistered(n))
         \/ PollWalk(n)
         \/ ResultWalk(n) /\ Quiet
         \/ UploadWalk(n) /\ Quiet
<1>1. Return(n) \/ Enter(n, "poll") => EndsCall(n)
  BY ReturnFacts
<1>2. CASE Crash(n) \/ ReturnError(n)
  BY <1>1, <1>2 DEF Crash, ReturnError, Quiet
<1>3. CASE Local(n)
  <2>1. CASE Idle(n) \/ KeepTask(n)
    BY <1>1, <2>1 DEF Idle, KeepTask, Quiet
  <2>2. CASE SkipTask(n) \/ CommitComputation(n) \/ MarkSubmitted(n) \/ MarkUploadRegistered(n)
    <3>1. Return(n)
      BY <2>2 DEF SkipTask, CommitComputation, MarkSubmitted, MarkUploadRegistered
    <3>2. QED
      BY <1>1, <2>2, <3>1
  <2>3. CASE ReadTask(n)
    BY <2>3 DEF PollWalk
  <2>4. CASE ReadOutbox(n)
    BY <1>1, <2>4 DEF ReadOutbox, ResultWalk, Walks, Goto, At, Quiet
  <2>5. CASE ReadUpload(n)
    <3>1. CASE pendingUploads[n] = <<>>
      BY <1>1, <2>5, <3>1 DEF ReadUpload, Quiet
    <3>2. CASE pendingUploads[n] # <<>>
      BY <2>5, <3>2 DEF UploadWalk, ReadUpload, Quiet
    <3>3. QED
      BY <3>1, <3>2
  <2>6. QED
    BY <1>3, <2>1, <2>2, <2>3, <2>4, <2>5 DEF Local
<1>4. ASSUME NEW answer \in Answers, Remote(n, answer), answer # "confirmed"
      PROVE  EndsCall(n) /\ Quiet
  <2>1. Return(n)
    BY <1>4 DEF Remote, Send, AssignTask, RunTask, EnsureResultKey, SubmitTask, VisitVariable,
       UpdateVariables, OpenResult, EnsureUploadKey, RegisterUpload, PublishUpload
  <2>2. Quiet
    BY <1>4 DEF Remote, Quiet, AssignTask, RunTask, EnsureResultKey, SubmitTask, VisitVariable,
       UpdateVariables, OpenResult, EnsureUploadKey, RegisterUpload, PublishUpload
  <2>3. QED
    BY <1>1, <2>1, <2>2
<1>5. ASSUME Remote(n, "confirmed")
      PROVE  PollWalk(n) \/ ((ResultWalk(n) \/ UploadWalk(n)) /\ Quiet)
  <2>1. CASE AssignTask(n, "confirmed")
    BY <2>1 DEF AssignTask, Send, Goto, At, PollWalk, Walks, Quiet
  <2>2. CASE RunTask(n, "confirmed")
    BY <2>2 DEF RunTask, Send, Goto, At, PollWalk, Walks, Quiet
  <2>3. CASE EnsureResultKey(n, "confirmed")
    BY <2>3 DEF EnsureResultKey, Send, Goto, At, ResultWalk, Walks, Quiet
  <2>4. CASE SubmitTask(n, "confirmed")
    <3>1. Walks(n, "result", "declare") /\ Quiet
      BY <2>4 DEF SubmitTask, Send, Goto, At, Walks, Quiet
    <3>2. QED
      BY <2>4, <3>1 DEF ResultWalk
  <2>5. CASE VisitVariable(n, "confirmed")
    BY <2>5 DEF VisitVariable, ResultWalk, Quiet
  <2>6. CASE UpdateVariables(n, "confirmed")
    <3>1. Walks(n, "update", "open") /\ Quiet
      BY <2>6 DEF UpdateVariables, Send, Goto, At, Walks, Quiet
    <3>2. QED
      BY <2>6, <3>1 DEF ResultWalk
  <2>7. CASE OpenResult(n, "confirmed")
    <3>1. Walks(n, "open", "mark") /\ Quiet
      BY <2>7 DEF OpenResult, Send, Goto, At, Walks, Quiet
    <3>2. QED
      BY <2>7, <3>1 DEF ResultWalk
  <2>8. CASE EnsureUploadKey(n, "confirmed")
    BY <2>8 DEF EnsureUploadKey, Send, Goto, At, UploadWalk, Walks, Quiet
  <2>9. CASE RegisterUpload(n, "confirmed")
    <3>1. Walks(n, "uploadData", "uploadLocations") /\ Quiet
      BY <2>9 DEF RegisterUpload, Send, Goto, At, Walks, Quiet
    <3>2. QED
      BY <2>9, <3>1 DEF UploadWalk
  <2>10. CASE PublishUpload(n, "confirmed")
    <3>1. Walks(n, "uploadLocations", "uploadMark") /\ Quiet
      BY <2>10 DEF PublishUpload, Send, Goto, At, Walks, Quiet
    <3>2. QED
      BY <2>10, <3>1 DEF UploadWalk
  <2>11. QED
    BY <1>5, <2>1, <2>2, <2>3, <2>4, <2>5, <2>6, <2>7, <2>8, <2>9, <2>10 DEF Remote
<1>6. QED
  BY <1>2, <1>3, <1>4, <1>5 DEF DaemonStep

-----------------------------------------------------------------------------
(* The control plane inside the system *)

(* The row at the head of the outbox, and what is made of it.               *)
LEMMA HeadRow ==
  ASSUME DaemonTypeOK, NEW n \in Daemons, outbox[n] # <<>>
  PROVE  LET row == NextPending(n) IN
         /\ row \in Row /\ row.execution \in ExecutionIds
         /\ row.basis \in Basis(row.execution)
         /\ Output(n) = OutputId(row.execution, row.basis) /\ Output(n) \in DataIds
         /\ Requester(n) \in Users /\ KeyOf[Requester(n)] \in DataIds
         /\ Writes(n) \subseteq Variables
<1> DEFINE row == NextPending(n)
<1>1. outbox[n] \in Seq(Row)
  BY DEF DaemonTypeOK
<1>2. Len(outbox[n]) \in Nat /\ Len(outbox[n]) # 0
  BY <1>1
<1>3. row \in Row
  BY <1>1, <1>2 DEF NextPending
<1>4. PICK e \in ExecutionIds : row \in [execution : {e}, basis : Basis(e)]
  BY <1>3 DEF Row
<1>5. row.execution \in ExecutionIds /\ row.basis \in Basis(row.execution)
  BY <1>4
<1>6. Output(n) = OutputId(row.execution, row.basis)
  BY DEF Output
<1>7. Output(n) \in DataIds
  BY <1>5, <1>6, DaemonAssumption
<1>8. Requester(n) \in Users /\ KeyOf[Requester(n)] \in DataIds
  BY <1>5, DaemonAssumption DEF Requester, RequesterOf, ExecutionIds
<1>9. Writes(n) \subseteq Variables
  BY <1>5, DaemonAssumption DEF Writes, CallRecord
<1>10. QED
  BY <1>3, <1>5, <1>6, <1>7, <1>8, <1>9

LEMMA HeadUpload ==
  ASSUME DaemonTypeOK, NEW n \in Daemons, pendingUploads[n] # <<>>
  PROVE  /\ NextUpload(n) \in Uploads /\ NextUpload(n).dataId \in DataIds
         /\ NextUpload(n).owner \in Users /\ KeyOf[NextUpload(n).owner] \in DataIds
         /\ NextUpload(n).representation \in Representations
<1>1. pendingUploads[n] \in Seq(Uploads)
  BY DEF DaemonTypeOK
<1>2. Len(pendingUploads[n]) \in Nat /\ Len(pendingUploads[n]) # 0
  BY <1>1
<1>3. NextUpload(n) \in Uploads
  BY <1>1, <1>2 DEF NextUpload
<1>4. NextUpload(n) \in UploadRequest
  BY <1>3, DaemonAssumption
<1>5. QED
  BY <1>3, <1>4, DaemonAssumption DEF UploadRequest

LEMMA CursorTask ==
  ASSUME TypeOK, DaemonTypeOK, NEW n \in Daemons, HasTask(n)
  PROVE  /\ Len(processed[n]) \in Nat /\ Len(executionIds) \in Nat
         /\ Len(processed[n]) + 1 \in 1..Len(executionIds)
         /\ NextTask(n) \in ExecutionIds
<1>1. processed[n] \in Seq(TaskRecord) /\ executionIds \in Seq(ExecutionIds)
  BY DEF TypeOK, DaemonTypeOK
<1>2. Len(processed[n]) \in Nat /\ Len(executionIds) \in Nat
  BY <1>1
<1>3. Len(processed[n]) + 1 \in 1..Len(executionIds)
  BY <1>2 DEF HasTask
<1>4. QED
  BY <1>1, <1>2, <1>3 DEF NextTask

LEMMA NodeAlone == \A n \in Nodes : {n} \in NodeSets
<1> SUFFICES ASSUME NEW n \in Nodes PROVE {n} \in NodeSets
  OBVIOUS
<1>1. n \in {n} /\ {n} \subseteq Nodes
  OBVIOUS
<1>2. {n} # {}
  BY <1>1
<1>3. QED
  BY <1>1, <1>2 DEF NodeSets

(* What a daemon sends is one of the calls of the runtime.                  *)
LEMMA RemoteIsRuntime ==
  ASSUME TypeOK, DaemonTypeOK, PhasesOK, NEW n \in Daemons, NEW answer, Remote(n, answer)
  PROVE  [Next]_vars
<1>1. /\ n \in Accounts /\ n \in Nodes /\ {n} \in NodeSets /\ {n} \in StorageSets
      /\ 1 \in InitialVersions
  <2>1. n \in Nodes /\ n \in RuntimeAccounts /\ {n} \in StorageSets /\ 1 \in InitialVersions
    BY DaemonAssumption
  <2>2. QED
    BY <2>1, NodeAlone, AccountsAssumption
<1>2. OwnerNext(n) \/ RuntimeNext(n) => Next
  BY <1>1 DEF Next
<1>3. ASSUME NEW owner \in Users, RegisterKey(n, owner) \/ PublishKey(n, owner)
      PROVE  OwnerNext(n)
  <2>1. /\ KeyOf[owner] \in DataIds /\ "SecretSharing" \in Representations
        /\ owner \in DataOwners
    BY <1>3, DaemonAssumption, AccountsAssumption DEF Representations
  <2>2. QED
    BY <1>1, <1>3, <2>1 DEF RegisterKey, PublishKey, OnControl, OwnerNext
<1>4. CASE AssignTask(n, answer)
  <2>1. HasTask(n)
    BY <1>4 DEF AssignTask, At, PhasesOK, TaskPhases
  <2>2. NextTask(n) \in ExecutionIds /\ ActiveCommittee[n] \in CommitteeIds
    BY <2>1, CursorTask, DaemonAssumption
  <2>3. AssignCommittee(n, NextTask(n), ActiveCommittee[n])
    BY <1>4 DEF AssignTask, Send, OnControl
  <2>4. QED
    BY <1>2, <2>2, <2>3 DEF RuntimeNext
<1>5. CASE RunTask(n, answer)
  <2>1. HasTask(n)
    BY <1>5 DEF RunTask, At, PhasesOK, TaskPhases
  <2>2. NextTask(n) \in ExecutionIds
    BY <2>1, CursorTask
  <2>3. MarkRunning(n, NextTask(n))
    BY <1>5 DEF RunTask, Send, OnControl
  <2>4. QED
    BY <1>2, <2>2, <2>3 DEF RuntimeNext
<1>6. CASE EnsureResultKey(n, answer)
  <2>1. outbox[n] # <<>>
    BY <1>6 DEF EnsureResultKey, At, PhasesOK, ResultPhases
  <2>2. Requester(n) \in Users
    BY <2>1, HeadRow
  <2>3. RegisterKey(n, Requester(n)) \/ PublishKey(n, Requester(n))
    BY <1>6 DEF EnsureResultKey, Send
  <2>4. QED
    BY <1>2, <1>3, <2>2, <2>3
<1>7. CASE SubmitTask(n, answer)
  <2> DEFINE e == NextPending(n).execution
             representation == IF Encrypted(n) THEN "FHE" ELSE "SecretSharing"
             key == IF Encrypted(n) THEN KeyOf[Requester(n)] ELSE None
  <2>1. outbox[n] # <<>>
    BY <1>7 DEF SubmitTask, At, PhasesOK, ResultPhases
  <2>2. /\ e \in ExecutionIds /\ Output(n) \in DataIds /\ key \in DataIds \cup {None}
        /\ representation \in Representations
    BY <2>1, HeadRow DEF Representations
  <2>3. NewRoot(n) \in Roots
    BY <2>2 DEF NewRoot, DerivedRoot, Roots, TypeOK, Request
  <2>4. CASE Chain
    BY <2>4 DEF Chain
  <2>5. CASE SubmitResult(n, e, Output(n), representation, key, {n}, 1, NewRoot(n), {n})
    <3> HIDE DEF e, representation, key
    <3>1. RuntimeNext(n)
      BY <1>1, <2>2, <2>3, <2>5 DEF RuntimeNext
    <3>2. QED
      BY <1>2, <3>1
  <2>6. QED
    BY <1>7, <2>4, <2>5 DEF SubmitTask, Send, OnControl
<1>8. CASE VisitVariable(n, answer)
  <2>1. outbox[n] # <<>>
    BY <1>8 DEF VisitVariable, At, PhasesOK, ResultPhases
  <2>2. Output(n) \in DataIds /\ VariablesToVisit(n) \subseteq Variables
        /\ DaemonContract \in ContractIds
    BY <2>1, HeadRow, DaemonAssumption DEF VariablesToVisit
  <2>3. Chain \/ \E v \in VariablesToVisit(n) :
                    DeclareStateVariable(n, DaemonContract, v, Output(n))
    BY <1>8 DEF VisitVariable, Send, OnControl
  <2>4. QED
    BY <1>2, <2>2, <2>3 DEF RuntimeNext, Chain
<1>9. CASE UpdateVariables(n, answer)
  <2>1. outbox[n] # <<>>
    BY <1>9 DEF UpdateVariables, At, PhasesOK, ResultPhases
  <2>2. NextPending(n).execution \in ExecutionIds /\ memory[n].existing \in SUBSET Variables
    BY <2>1, HeadRow DEF DaemonTypeOK, Memory
  <2>3. Chain \/ UpdateStateVariablesAfterResult(n, NextPending(n).execution,
                                                 memory[n].existing, {n})
    BY <1>9 DEF UpdateVariables, Send, OnControl
  <2>4. QED
    BY <1>1, <1>2, <2>2, <2>3 DEF RuntimeNext, Chain
<1>10. CASE OpenResult(n, answer)
  BY <1>10 DEF OpenResult, Send, FulfillOpening, Chain
<1>11. CASE EnsureUploadKey(n, answer)
  <2>1. pendingUploads[n] # <<>>
    BY <1>11 DEF EnsureUploadKey, At, PhasesOK, UploadPhases
  <2>2. NextUpload(n).owner \in Users
    BY <2>1, HeadUpload
  <2>3. RegisterKey(n, NextUpload(n).owner) \/ PublishKey(n, NextUpload(n).owner)
    BY <1>11 DEF EnsureUploadKey, Send
  <2>4. QED
    BY <1>2, <1>3, <2>2, <2>3
<1>12. CASE RegisterUpload(n, answer)
  <2> DEFINE u == NextUpload(n)
             key == IF u.representation = "FHE" THEN KeyOf[u.owner] ELSE None
  <2>1. pendingUploads[n] # <<>>
    BY <1>12 DEF RegisterUpload, At, PhasesOK, UploadPhases
  <2>2. /\ u.owner \in DataOwners /\ u.dataId \in DataIds
        /\ u.representation \in Representations /\ key \in DataIds \cup {None}
    BY <2>1, HeadUpload, AccountsAssumption
  <2>3. RegisterData(n, u.owner, u.dataId, u.representation, key, {n}, 1)
    BY <1>12 DEF RegisterUpload, Send, OnControl
  <2> HIDE DEF u, key
  <2>4. OwnerNext(n)
    BY <1>1, <2>2, <2>3 DEF OwnerNext
  <2>5. QED
    BY <1>2, <2>4
<1>13. CASE PublishUpload(n, answer)
  <2>1. pendingUploads[n] # <<>>
    BY <1>13 DEF PublishUpload, At, PhasesOK, UploadPhases
  <2>2. NextUpload(n).dataId \in DataIds
    BY <2>1, HeadUpload
  <2>3. Chain \/ RegisterDataLocations(n, NextUpload(n).dataId, {n})
    BY <1>13 DEF PublishUpload, Send, OnControl
  <2>4. QED
    BY <1>1, <1>2, <2>2, <2>3 DEF OwnerNext, Chain
<1>14. QED
  BY <1>4, <1>5, <1>6, <1>7, <1>8, <1>9, <1>10, <1>11, <1>12, <1>13 DEF Remote

(* An account that registers an id itself is an owner of the control plane. *)
LEMMA OutsideIsAnOwner ==
  ASSUME NEW r \in Registrations, RegisterOutside(r)
  PROVE  \E sender \in Accounts : OwnerNext(sender)
<1>1. /\ r.owner \in DataOwners /\ r.dataId \in DataIds /\ r.nodes \in StorageSets
      /\ r.representation \in Representations /\ r.fheKeyId \in DataIds \cup {None}
  BY DaemonAssumption DEF Registration
<1>2. r.owner \in Accounts /\ StorageSets \subseteq NodeSets /\ 1 \in InitialVersions
  BY <1>1, AccountsAssumption, DataAssumption, DaemonAssumption
<1>3. CASE RegisterData(r.owner, r.owner, r.dataId, r.representation, r.fheKeyId, r.nodes, 1)
  <2>1. OwnerNext(r.owner)
    BY <1>1, <1>2, <1>3 DEF OwnerNext
  <2>2. QED
    BY <1>2, <2>1
<1>4. ASSUME NEW nodes \in StorageSets, RegisterDataLocations(r.owner, r.dataId, nodes)
      PROVE  \E sender \in Accounts : OwnerNext(sender)
  <2>1. OwnerNext(r.owner)
    BY <1>1, <1>2, <1>4 DEF OwnerNext
  <2>2. QED
    BY <1>2, <2>1
<1>5. QED
  BY <1>3, <1>4 DEF RegisterOutside

(* Every step of the system is one of the control plane, or none.           *)
LEMMA ControlStep ==
  ASSUME TypeOK, DaemonTypeOK, PhasesOK, [DaemonNext]_allVars
  PROVE  [Next]_vars
<1>1. ASSUME NEW n \in Daemons, Local(n) \/ ReturnError(n) \/ Crash(n) PROVE UNCHANGED vars
  BY <1>1 DEF Local, ReturnError, Crash, Idle, ReadTask, SkipTask, KeepTask, CommitComputation,
     ReadOutbox, MarkSubmitted, ReadUpload, MarkUploadRegistered, Chain
<1>2. ASSUME NEW n \in Daemons, NEW upload \in Uploads, AcceptUpload(n, upload)
      PROVE  UNCHANGED vars
  BY <1>2 DEF AcceptUpload, Chain
<1>3. ASSUME Environment PROVE [Next]_vars
  <2>1. /\ Admin \in Accounts /\ runtime \in Accounts
        /\ \A e \in ExecutionIds : /\ ContractOwner[ContractOf(e)] \in Accounts
                                   /\ Call[e].selector \in Selectors
                                   /\ Call[e].inputs \in InputSets
        /\ \A n \in Nodes : {n} \in NodeSets
    <3>1. /\ \A e \in ExecutionIds : ContractOf(e) \in ContractIds
          /\ \A e \in ExecutionIds : Call[e] \in CallRecord /\ Call[e].inputs \in InputSets
      BY DaemonAssumption DEF ExecutionIds, ContractOf
    <3>2. \A e \in ExecutionIds : Call[e].selector \in Selectors
      BY <3>1 DEF CallRecord
    <3>3. QED
      BY <3>1, <3>2, NodeAlone, AccountsAssumption DEF TypeOK
  <2>2. CASE \E e \in ExecutionIds, t \in Times :
               Invoke(ContractOwner[ContractOf(e)], e, Call[e].selector, Call[e].inputs, t)
    BY <2>1, <2>2 DEF Next, OwnerNext
  <2>3. CASE \E next \in RuntimeAccounts \ {runtime} : SetRuntime(Admin, next)
    BY <2>1, <2>3 DEF Next, AdminNext
  <2>4. CASE \/ \E e \in ExecutionIds, k \in CommitteeIds : BeginHandoff(runtime, e, k)
             \/ \E e \in ExecutionIds, n \in Nodes : FinalizeHandoff(runtime, e, {n})
    BY <2>1, <2>4 DEF Next, RuntimeNext
  <2>5. CASE Tick
    BY <2>5 DEF Next
  <2>6. CASE \E registration \in Registrations : RegisterOutside(registration)
    BY <2>6, OutsideIsAnOwner DEF Next
  <2>7. QED
    BY <1>3, <2>2, <2>3, <2>4, <2>5, <2>6 DEF Environment
<1>4. QED
  BY <1>1, <1>2, <1>3, RemoteIsRuntime DEF DaemonNext, DaemonStep, allVars

-----------------------------------------------------------------------------
(* What stays on the chain *)

LEMMA QueueSteps ==
  ASSUME [Next]_vars
  PROVE  \/ executionIds' = executionIds
         \/ \E e \in ExecutionIds : /\ executions[e].status = "None"
                                    /\ executionIds' = Append(executionIds, e)
                                    /\ executions' = [executions EXCEPT ![e].status = "Requested"]
<1> USE DEF requestVars
<1>1. ASSUME NEW sender \in Accounts, AdminNext(sender) PROVE executionIds' = executionIds
  BY <1>1 DEF AdminNext, SetRuntime, SetSortitionVerifier
<1>2. ASSUME NEW sender \in Accounts, OwnerNext(sender)
      PROVE  \/ executionIds' = executionIds
             \/ \E e \in ExecutionIds : /\ executions[e].status = "None"
                                        /\ executionIds' = Append(executionIds, e)
                                        /\ executions' = [executions EXCEPT ![e].status = "Requested"]
  BY ZenonT(30), <1>2 DEF OwnerNext, PublishContract, PublishFunction, RegisterData, Invoke,
              RegisterDataLocations, RequestPick, RequestVariablePickFor, AddPick
<1>3. ASSUME NEW sender \in Accounts, RuntimeNext(sender) PROVE executionIds' = executionIds
  <2>1. ASSUME NEW e \in ExecutionIds, NEW d \in DataIds, NEW r \in Representations,
               NEW key \in DataIds \cup {None}, NEW nodes \in StorageSets,
               NEW version \in InitialVersions, NEW root \in Roots, NEW signers \in NodeSets,
               SubmitResult(sender, e, d, r, key, nodes, version, root, signers)
        PROVE  executionIds' = executionIds
    BY <2>1 DEF SubmitResult
  <2>2. ASSUME NEW d \in DataIds, NEW e \in ExecutionIds, NEW nodes \in NodeSets,
               NEW signers \in NodeSets,
               UpdateDataLocationsAfterHandoff(sender, d, e, nodes, signers)
        PROVE  executionIds' = executionIds
    BY <2>2 DEF UpdateDataLocationsAfterHandoff
  <2>3. QED
    BY <1>3, <2>1, <2>2
       DEF RuntimeNext, DeclareStateVariable, FinalizeCommittee, AssignCommittee, MarkRunning,
           BeginHandoff, FinalizeHandoff, UpdateStateVariablesAfterResult
<1>4. QED
  BY <1>1, <1>2, <1>3 DEF Next, vars, Tick

LEMMA CompletedKept ==
  ASSUME TypeOK, [Next]_vars, NEW e \in ExecutionIds, Completed(e)
  PROVE  Completed(e)' /\ executions'[e].outputId = executions[e].outputId
<1>1. executions \in [ExecutionIds -> Execution]
  BY DEF TypeOK
<1>2. ASSUME NEW f \in ExecutionIds, executions[f].status # "Completed",
             \A x \in ExecutionIds \ {f} : executions'[x] = executions[x]
      PROVE  Completed(e)' /\ executions'[e].outputId = executions[e].outputId
  BY <1>2 DEF Completed
<1>3. CASE UNCHANGED <<requests, executions>>
  BY <1>3 DEF Completed
<1>4. ASSUME NEW sender \in Accounts, NEW f \in ExecutionIds, NEW s \in Selectors,
             NEW inputs \in InputSets, NEW t \in Times, Invoke(sender, f, s, inputs, t)
      PROVE  Completed(e)' /\ executions'[e].outputId = executions[e].outputId
  BY <1>1, <1>2, <1>4 DEF Invoke
<1>5. ASSUME NEW sender \in Accounts, NEW f \in ExecutionIds, NEW k \in CommitteeIds,
             AssignCommittee(sender, f, k) \/ BeginHandoff(sender, f, k)
      PROVE  Completed(e)' /\ executions'[e].outputId = executions[e].outputId
  BY <1>1, <1>2, <1>5 DEF AssignCommittee, BeginHandoff
<1>6. ASSUME NEW sender \in Accounts, NEW f \in ExecutionIds,
             MarkRunning(sender, f) \/ \E signers \in NodeSets : FinalizeHandoff(sender, f, signers)
      PROVE  Completed(e)' /\ executions'[e].outputId = executions[e].outputId
  BY <1>1, <1>2, <1>6 DEF MarkRunning, FinalizeHandoff
<1>7. ASSUME NEW sender \in Accounts, NEW f \in ExecutionIds, NEW d \in DataIds,
             NEW r \in Representations, NEW key \in DataIds \cup {None},
             NEW nodes \in StorageSets, NEW version \in InitialVersions,
             NEW root \in Roots, NEW signers \in NodeSets,
             SubmitResult(sender, f, d, r, key, nodes, version, root, signers)
      PROVE  Completed(e)' /\ executions'[e].outputId = executions[e].outputId
  BY <1>1, <1>2, <1>7 DEF SubmitResult, Submittable
<1>8. QED
  BY <1>3, <1>4, <1>5, <1>6, <1>7, WritersOfExecutions

LEMMA LocatedKept ==
  ASSUME TypeOK, [Next]_vars, NEW d \in DataIds, dataStorageNodes[d] # {}
  PROVE  dataStorageNodes'[d] # {}
<1>1. dataStorageNodes \in [DataIds -> SUBSET Nodes]
  BY DEF TypeOK
<1>2. \A nodes \in NodeSets : nodes # {}
  BY DEF NodeSets
<1>3. ASSUME NEW sender \in Accounts, NEW f \in DataIds, NEW nodes \in NodeSets,
             RegisterDataLocations(sender, f, nodes)
      PROVE  dataStorageNodes'[d] # {}
  BY <1>1, <1>2, <1>3 DEF RegisterDataLocations
<1>4. ASSUME NEW sender \in Accounts, NEW f \in DataIds, NEW e \in ExecutionIds,
             NEW nodes \in NodeSets, NEW signers \in NodeSets,
             UpdateDataLocationsAfterHandoff(sender, f, e, nodes, signers)
      PROVE  dataStorageNodes'[d] # {}
  BY <1>1, <1>2, <1>4 DEF UpdateDataLocationsAfterHandoff
<1>5. ASSUME NEW sender \in Accounts, NEW e \in ExecutionIds, NEW f \in DataIds,
             NEW r \in Representations, NEW key \in DataIds \cup {None},
             NEW nodes \in StorageSets, NEW version \in InitialVersions,
             NEW root \in Roots, NEW signers \in NodeSets,
             SubmitResult(sender, e, f, r, key, nodes, version, root, signers)
      PROVE  dataStorageNodes'[d] # {}
  BY <1>5 DEF SubmitResult
<1>6. ASSUME NEW sender \in Accounts, NEW u \in DataOwners, NEW f \in DataIds,
             NEW r \in Representations, NEW key \in DataIds \cup {None},
             NEW nodes \in StorageSets, NEW version \in InitialVersions,
             RegisterData(sender, u, f, r, key, nodes, version)
      PROVE  dataStorageNodes'[d] # {}
  BY <1>6 DEF RegisterData
<1>7. CASE UNCHANGED dataVars
  BY <1>7 DEF dataVars
<1>8. QED
  BY <1>3, <1>4, <1>5, <1>6, <1>7, WritersOfReferences

(* A task the cursor has reached stays where it is.                         *)
LEMMA TaskKept ==
  ASSUME TypeOK, DaemonTypeOK, [Next]_vars, NEW n \in Daemons, HasTask(n),
         processed'[n] = processed[n]
  PROVE  HasTask(n)' /\ NextTask(n)' = NextTask(n)
<1>1. Len(processed[n]) \in Nat /\ Len(executionIds) \in Nat /\ executionIds \in Seq(ExecutionIds)
      /\ Len(processed[n]) + 1 \in 1..Len(executionIds)
  BY CursorTask DEF TypeOK
<1>2. CASE executionIds' = executionIds
  BY <1>2 DEF HasTask, NextTask
<1>3. ASSUME NEW e \in ExecutionIds, executionIds' = Append(executionIds, e)
      PROVE  HasTask(n)' /\ NextTask(n)' = NextTask(n)
  <2>1. Len(executionIds') = Len(executionIds) + 1
        /\ \A i \in 1..Len(executionIds) : executionIds'[i] = executionIds[i]
    BY <1>1, <1>3
  <2>2. QED
    BY <1>1, <2>1 DEF HasTask, NextTask
<1>4. QED
  BY <1>2, <1>3, QueueSteps

-----------------------------------------------------------------------------
(* Types *)

LEMMA FreshTyped == Fresh \in Memory
BY DEF Fresh, Memory, ExecutionStatus

(* A step that moves only daemon n, to a phase whose row is there.          *)
LEMMA OneDaemonTypes ==
  ASSUME TypeOK, DaemonTypeOK, PhasesOK, [Next]_vars, NEW n \in Daemons, NEW p, NEW m \in Memory,
         phase' = [phase EXCEPT ![n] = p], memory' = [memory EXCEPT ![n] = m], Quiet,
         \/ p \in CallPhases
         \/ p \in TaskPhases /\ HasTask(n)
         \/ p \in ResultPhases /\ outbox[n] # <<>>
         \/ p \in UploadPhases /\ pendingUploads[n] # <<>>
  PROVE  DaemonTypeOK' /\ PhasesOK'
<1>1. UNCHANGED <<processed, cells, outbox, acceptedUploads, pendingUploads>>
  BY DEF Quiet, ledgerVars, uploadVars
<1>2. DaemonTypeOK'
  BY <1>1 DEF DaemonTypeOK
<1>3. ASSUME NEW k \in Daemons, HasTask(k) PROVE HasTask(k)'
  BY <1>1, <1>3, TaskKept
<1>4. ASSUME NEW k \in Daemons
      PROVE  /\ phase'[k] \in TaskPhases => HasTask(k)'
             /\ phase'[k] \in ResultPhases => outbox'[k] # <<>>
             /\ phase'[k] \in UploadPhases => pendingUploads'[k] # <<>>
  <2>1. CASE k = n
    <3>1. phase'[k] = p
      BY <2>1 DEF DaemonTypeOK
    <3>2. QED
      BY <1>1, <1>3, <2>1, <3>1 DEF CallPhases, TaskPhases, ResultPhases, UploadPhases
  <2>2. CASE k # n
    <3>1. phase'[k] = phase[k]
      BY <2>2 DEF DaemonTypeOK
    <3>2. QED
      BY <1>1, <1>3, <3>1 DEF PhasesOK
  <2>3. QED
    BY <2>1, <2>2
<1>5. QED
  BY <1>2, <1>4 DEF PhasesOK

(* A walk through the results, and one through the uploads.                 *)
LEMMA ResultWalkFacts ==
  ASSUME DaemonTypeOK, PhasesOK, NEW n \in Daemons, ResultWalk(n)
  PROVE  \E p \in ResultPhases, m \in Memory :
           /\ outbox[n] # <<>>
           /\ phase' = [phase EXCEPT ![n] = p] /\ memory' = [memory EXCEPT ![n] = m]
<1>1. /\ memory[n] \in Memory /\ memory = [memory EXCEPT ![n] = memory[n]]
      /\ phase = [phase EXCEPT ![n] = phase[n]]
  BY DEF DaemonTypeOK
<1>2. ASSUME NEW from \in ResultPhases \cup {"outbox"}, NEW to \in ResultPhases,
             Walks(n, from, to), outbox[n] # <<>>
      PROVE  \E p \in ResultPhases, m \in Memory :
               /\ outbox[n] # <<>>
               /\ phase' = [phase EXCEPT ![n] = p] /\ memory' = [memory EXCEPT ![n] = m]
  BY <1>1, <1>2 DEF Walks
<1>3. ASSUME NEW from \in ResultPhases, phase[n] = from PROVE outbox[n] # <<>>
  BY <1>3 DEF PhasesOK
<1>4. CASE outbox[n] # <<>> /\ (Walks(n, "outbox", "key") \/ Walks(n, "outbox", "result"))
  BY <1>2, <1>4 DEF ResultPhases
<1>5. CASE Walks(n, "key", "keyLocations") \/ Walks(n, "keyLocations", "result")
             \/ Walks(n, "result", "declare") \/ Walks(n, "update", "open")
             \/ Walks(n, "open", "mark")
  <2>1. outbox[n] # <<>>
    BY <1>3, <1>5 DEF Walks, ResultPhases
  <2>2. QED
    BY <1>2, <1>5, <2>1 DEF ResultPhases
<1>6. CASE VisitVariable(n, "confirmed")
  <2>1. phase[n] = "declare" /\ outbox[n] # <<>>
    BY <1>3, <1>6 DEF VisitVariable, At, ResultPhases
  <2>2. Writes(n) \subseteq Variables
    BY <2>1, HeadRow
  <2>3. CASE Goto(n, "update")
    BY <1>2, <2>1, <2>3 DEF Goto, Walks, ResultPhases
  <2>4. ASSUME NEW v \in VariablesToVisit(n), NEW found \in {{}, {v}}, Visit(n, v, found)
        PROVE  \E p \in ResultPhases, m \in Memory :
                 /\ outbox[n] # <<>>
                 /\ phase' = [phase EXCEPT ![n] = p] /\ memory' = [memory EXCEPT ![n] = m]
    <3> DEFINE m == [memory[n] EXCEPT !.visited = @ \cup {v}, !.existing = @ \cup found]
    <3>1. v \in Variables /\ found \subseteq Variables
      BY <2>2, <2>4 DEF VariablesToVisit
    <3>2. m \in Memory
      BY <1>1, <3>1 DEF Memory
    <3>3. memory' = [memory EXCEPT ![n] = m] /\ phase' = phase
      BY <1>1, <2>4 DEF Visit, DaemonTypeOK, Memory
    <3> HIDE DEF m
    <3>4. "declare" \in ResultPhases
      BY DEF ResultPhases
    <3>5. QED
      BY <1>1, <2>1, <3>2, <3>3, <3>4
  <2>5. Goto(n, "update") \/ \E v \in VariablesToVisit(n) : \E found \in {{}, {v}} : Visit(n, v, found)
    BY <1>6 DEF VisitVariable, Send
  <2>6. QED
    BY <2>3, <2>4, <2>5
<1>7. QED
  BY <1>4, <1>5, <1>6 DEF ResultWalk

LEMMA UploadWalkFacts ==
  ASSUME DaemonTypeOK, PhasesOK, NEW n \in Daemons, UploadWalk(n)
  PROVE  /\ pendingUploads[n] # <<>> /\ memory' = memory
         /\ \E p \in UploadPhases : phase' = [phase EXCEPT ![n] = p]
<1>1. CASE ReadUpload(n) /\ pendingUploads[n] # <<>>
  BY <1>1 DEF ReadUpload, Goto, UploadPhases
<1>2. CASE \/ Walks(n, "uploadKey", "uploadKeyLocations")
           \/ Walks(n, "uploadKeyLocations", "uploadData")
           \/ Walks(n, "uploadData", "uploadLocations")
           \/ Walks(n, "uploadLocations", "uploadMark")
  <2>1. phase[n] \in UploadPhases
    BY <1>2 DEF Walks, UploadPhases
  <2>2. QED
    BY <1>2, <2>1 DEF Walks, UploadPhases, PhasesOK
<1>3. QED
  BY <1>1, <1>2 DEF UploadWalk

(* The row a computation leaves: its basis is the cells it has read.        *)
LEMMA CommittedRow ==
  ASSUME TypeOK, DaemonTypeOK, PhasesOK, NEW n \in Daemons, CommitComputation(n)
  PROVE  \E row \in Row :
           /\ row.execution = NextTask(n)
           /\ row.basis = [v \in Call[NextTask(n)].reads |-> cells[n][v]]
           /\ outbox' = [outbox EXCEPT ![n] = Append(outbox[n], row)]
<1> DEFINE e == NextTask(n)
           row == [execution |-> e, basis |-> [v \in Call[e].reads |-> cells[n][v]]]
<1>1. HasTask(n)
  BY DEF CommitComputation, At, PhasesOK, TaskPhases
<1>2. e \in ExecutionIds
  BY <1>1, CursorTask
<1>3. Call[e].reads \subseteq Variables
  BY <1>2, DaemonAssumption DEF CallRecord
<1>4. \A v \in Call[e].reads : cells[n][v] \in ExecutionIds
  BY <1>3 DEF CommitComputation, Evaluable, DaemonTypeOK
<1>5. row.basis \in Basis(e)
  BY <1>4 DEF Basis
<1>6. row \in [execution : {e}, basis : Basis(e)]
  BY <1>5
<1>7. row \in Row
  BY <1>2, <1>6 DEF Row
<1>8. outbox' = [outbox EXCEPT ![n] = Append(outbox[n], row)]
  BY DEF CommitComputation, WithRow
<1>9. row.execution = NextTask(n) /\ row.basis = [v \in Call[NextTask(n)].reads |-> cells[n][v]]
  OBVIOUS
<1> HIDE DEF row
<1>10. QED
  BY <1>7, <1>8, <1>9

(* A record or a row is appended or the oldest row removed, and the call    *)
(* ends.                                                                    *)
LEMMA CommitTypes ==
  ASSUME TypeOK, DaemonTypeOK, PhasesOK, NEW n \in Daemons,
         SkipTask(n) \/ CommitComputation(n) \/ MarkSubmitted(n) \/ MarkUploadRegistered(n)
  PROVE  /\ processed' \in [Daemons -> Seq(TaskRecord)]
         /\ cells' \in [Daemons -> [Variables -> ExecutionIds \cup {None}]]
         /\ outbox' \in [Daemons -> Seq(Row)]
         /\ acceptedUploads' = acceptedUploads
         /\ pendingUploads' \in [Daemons -> Seq(Uploads)]
         /\ \A k \in Daemons \ {n} : /\ processed'[k] = processed[k] /\ outbox'[k] = outbox[k]
                                     /\ pendingUploads'[k] = pendingUploads[k]
<1> USE DEF ledgerVars, uploadVars
<1> DEFINE e == NextTask(n)
<1>1. ASSUME phase[n] = "decide", NEW outcome \in {"skipped", "completed"},
             processed' = [processed EXCEPT ![n] = Append(@, [execution |-> e, outcome |-> outcome])]
      PROVE  /\ processed' \in [Daemons -> Seq(TaskRecord)] /\ e \in ExecutionIds
             /\ \A k \in Daemons \ {n} : processed'[k] = processed[k]
  <2>1. HasTask(n)
    BY <1>1 DEF PhasesOK, TaskPhases
  <2>2. e \in ExecutionIds
    BY <2>1, CursorTask
  <2>3. [execution |-> e, outcome |-> outcome] \in TaskRecord
    BY <2>2 DEF TaskRecord
  <2>4. processed \in [Daemons -> Seq(TaskRecord)] /\ processed[n] \in Seq(TaskRecord)
    BY DEF DaemonTypeOK
  <2>5. Append(processed[n], [execution |-> e, outcome |-> outcome]) \in Seq(TaskRecord)
    BY <2>3, <2>4
  <2>6. QED
    BY <1>1, <2>2, <2>4, <2>5
<1>2. CASE SkipTask(n)
  BY <1>1, <1>2 DEF SkipTask, At, DaemonTypeOK
<1>3. CASE CommitComputation(n)
  <2>1. /\ processed' \in [Daemons -> Seq(TaskRecord)] /\ e \in ExecutionIds
        /\ \A k \in Daemons \ {n} : processed'[k] = processed[k]
    BY <1>1, <1>3 DEF CommitComputation, At
  <2>2. PICK row \in Row : outbox' = [outbox EXCEPT ![n] = Append(outbox[n], row)]
    BY <1>3, CommittedRow
  <2>3. outbox \in [Daemons -> Seq(Row)] /\ outbox[n] \in Seq(Row)
    BY DEF DaemonTypeOK
  <2>4. Append(outbox[n], row) \in Seq(Row)
    BY <2>3
  <2>5. cells' = [cells EXCEPT ![n] = [v \in Variables |->
                    IF v \in Call[e].writes THEN e ELSE cells[n][v]]]
         /\ UNCHANGED uploadVars
    BY <1>3 DEF CommitComputation
  <2>6. cells' \in [Daemons -> [Variables -> ExecutionIds \cup {None}]]
    <3> HIDE DEF e
    <3> QED BY <2>1, <2>5 DEF DaemonTypeOK
  <2>7. QED
    BY <2>1, <2>2, <2>3, <2>4, <2>5, <2>6 DEF DaemonTypeOK
<1>4. CASE MarkSubmitted(n)
  <2>1. outbox[n] # <<>> /\ outbox[n] \in Seq(Row) /\ outbox \in [Daemons -> Seq(Row)]
    BY <1>4 DEF MarkSubmitted, At, PhasesOK, ResultPhases, DaemonTypeOK
  <2>2. Tail(outbox[n]) \in Seq(Row)
    BY <2>1
  <2>3. QED
    BY <1>4, <2>1, <2>2 DEF MarkSubmitted, DaemonTypeOK
<1>5. CASE MarkUploadRegistered(n)
  <2>1. /\ pendingUploads[n] # <<>> /\ pendingUploads[n] \in Seq(Uploads)
        /\ pendingUploads \in [Daemons -> Seq(Uploads)]
    BY <1>5 DEF MarkUploadRegistered, At, PhasesOK, UploadPhases, DaemonTypeOK
  <2>2. Tail(pendingUploads[n]) \in Seq(Uploads)
    BY <2>1
  <2>3. QED
    BY <1>5, <2>1, <2>2 DEF MarkUploadRegistered, DaemonTypeOK
<1>6. QED
  BY <1>2, <1>3, <1>4, <1>5

LEMMA TypesStep ==
  ASSUME TypeOK, DaemonTypeOK, PhasesOK, [DaemonNext]_allVars
  PROVE  DaemonTypeOK' /\ PhasesOK'
<1>1. [Next]_vars
  BY ControlStep
<1>2. ASSUME NEW n \in Daemons, DaemonStep(n) \/ Crash(n) PROVE DaemonTypeOK' /\ PhasesOK'
  <2>1. memory[n] \in Memory /\ memory = [memory EXCEPT ![n] = memory[n]]
    BY DEF DaemonTypeOK
  <2>2. CASE EndsCall(n) /\ Quiet
    BY <1>1, <2>2, FreshTyped, OneDaemonTypes DEF EndsCall
  <2>3. CASE EndsCall(n) /\ (SkipTask(n) \/ CommitComputation(n) \/ MarkSubmitted(n)
                             \/ MarkUploadRegistered(n))
    <3>1. PICK p \in CallPhases : phase' = [phase EXCEPT ![n] = p]
      BY <2>3 DEF EndsCall
    <3>2. memory' = [memory EXCEPT ![n] = Fresh]
      BY <2>3 DEF EndsCall
    <3>3. /\ processed' \in [Daemons -> Seq(TaskRecord)]
          /\ cells' \in [Daemons -> [Variables -> ExecutionIds \cup {None}]]
          /\ outbox' \in [Daemons -> Seq(Row)]
          /\ acceptedUploads' = acceptedUploads
          /\ pendingUploads' \in [Daemons -> Seq(Uploads)]
          /\ \A k \in Daemons \ {n} : /\ processed'[k] = processed[k] /\ outbox'[k] = outbox[k]
                                      /\ pendingUploads'[k] = pendingUploads[k]
      BY <2>3, CommitTypes
    <3>4. DaemonTypeOK'
      BY <3>1, <3>2, <3>3, FreshTyped DEF DaemonTypeOK
    <3>5. ASSUME NEW k \in Daemons
          PROVE  /\ phase'[k] \in TaskPhases => HasTask(k)'
                 /\ phase'[k] \in ResultPhases => outbox'[k] # <<>>
                 /\ phase'[k] \in UploadPhases => pendingUploads'[k] # <<>>
      <4>1. CASE k = n
        <5>1. phase'[k] \in CallPhases
          BY <3>1, <4>1 DEF DaemonTypeOK
        <5>2. QED
          BY <5>1 DEF CallPhases, TaskPhases, ResultPhases, UploadPhases
      <4>2. CASE k # n
        <5>1. phase'[k] = phase[k]
          BY <3>1, <4>2 DEF DaemonTypeOK
        <5>2. HasTask(k) => HasTask(k)'
          BY <1>1, <3>3, <4>2, TaskKept
        <5>3. QED
          BY <3>3, <4>2, <5>1, <5>2 DEF PhasesOK
      <4>3. QED
        BY <4>1, <4>2
    <3>6. QED
      BY <3>4, <3>5 DEF PhasesOK
  <2>4. CASE ReadTask(n)
    <3> DEFINE status == executions[NextTask(n)].status
               p == CASE status = "Requested" -> "assign"
                      [] status = "CommitteeAssigned" -> "run"
                      [] OTHER -> "decide"
               kept == IF status \in {"Requested", "CommitteeAssigned"} THEN "Running" ELSE status
               m == [memory[n] EXCEPT !.status = kept]
    <3>1. HasTask(n)
      BY <2>4 DEF ReadTask
    <3>2. status \in ExecutionStatus
      BY <3>1, CursorTask DEF TypeOK, Execution
    <3>3. p \in TaskPhases /\ kept \in ExecutionStatus
      BY <3>2 DEF TaskPhases, ExecutionStatus
    <3>4. phase' = [phase EXCEPT ![n] = p] /\ Quiet
          /\ memory' = [memory EXCEPT ![n].status = kept]
      BY <2>4 DEF ReadTask, Quiet
    <3> HIDE DEF p, kept
    <3>5. memory' = [memory EXCEPT ![n] = m] /\ m \in Memory
      BY <2>1, <3>3, <3>4 DEF Memory
    <3> HIDE DEF m
    <3>6. QED
      BY <1>1, <3>1, <3>3, <3>4, <3>5, OneDaemonTypes
  <2>5. CASE (Walks(n, "assign", "run") \/ Walks(n, "run", "decide")) /\ Quiet
    <3>1. HasTask(n)
      BY <2>5 DEF Walks, PhasesOK, TaskPhases
    <3>2. \E p \in TaskPhases : phase' = [phase EXCEPT ![n] = p]
      BY <2>5 DEF Walks, TaskPhases
    <3>3. memory' = [memory EXCEPT ![n] = memory[n]]
      BY <2>1, <2>5 DEF Walks
    <3>4. QED
      BY <1>1, <2>1, <2>5, <3>1, <3>2, <3>3, OneDaemonTypes
  <2>6. CASE ResultWalk(n) /\ Quiet
    BY <1>1, <2>6, ResultWalkFacts, OneDaemonTypes
  <2>7. CASE UploadWalk(n) /\ Quiet
    <3>1. memory' = [memory EXCEPT ![n] = memory[n]]
      BY <2>1, <2>7, UploadWalkFacts
    <3>2. QED
      BY <1>1, <2>1, <2>7, <3>1, UploadWalkFacts, OneDaemonTypes
  <2>8. QED
    BY <1>2, <2>2, <2>3, <2>4, <2>5, <2>6, <2>7, StepKinds DEF PollWalk
<1>3. ASSUME NEW n \in Daemons, NEW upload \in Uploads, AcceptUpload(n, upload)
      PROVE  DaemonTypeOK' /\ PhasesOK'
  <2>1. /\ UNCHANGED <<loopVars, ledgerVars>>
        /\ acceptedUploads' = [acceptedUploads EXCEPT ![n] = @ \cup {upload}]
        /\ pendingUploads' = [pendingUploads EXCEPT ![n] = Append(pendingUploads[n], upload)]
    BY <1>3 DEF AcceptUpload
  <2>2. pendingUploads[n] \in Seq(Uploads)
    BY DEF DaemonTypeOK
  <2>3. Append(pendingUploads[n], upload) \in Seq(Uploads) /\ Append(pendingUploads[n], upload) # <<>>
    <3>1. Len(pendingUploads[n]) \in Nat
      BY <2>2
    <3>2. Append(pendingUploads[n], upload) \in Seq(Uploads)
      BY <2>2
    <3>3. Len(Append(pendingUploads[n], upload)) = Len(pendingUploads[n]) + 1
      BY <2>2
    <3>4. Len(Append(pendingUploads[n], upload)) # 0
      BY <3>1, <3>3
    <3>5. QED
      BY <3>2, <3>4
  <2>4. DaemonTypeOK'
    BY <2>1, <2>3 DEF DaemonTypeOK, loopVars, ledgerVars
  <2>5. \A k \in Daemons : HasTask(k) => HasTask(k)'
    BY <1>1, <2>1, TaskKept DEF ledgerVars
  <2>6. \A k \in Daemons : pendingUploads[k] # <<>> => pendingUploads'[k] # <<>>
    BY <2>1, <2>3 DEF DaemonTypeOK
  <2>7. QED
    BY <2>1, <2>4, <2>5, <2>6 DEF PhasesOK, loopVars, ledgerVars
<1>4. ASSUME UNCHANGED daemonVars PROVE DaemonTypeOK' /\ PhasesOK'
  <2>1. \A k \in Daemons : HasTask(k) => HasTask(k)'
    BY <1>1, <1>4, TaskKept DEF daemonVars
  <2>2. QED
    BY <1>4, <2>1 DEF DaemonTypeOK, PhasesOK, daemonVars
<1>5. QED
  BY <1>2, <1>3, <1>4 DEF DaemonNext, Environment, allVars

(* The deployed contracts and committees satisfy what is proved of the      *)
(* control plane, although its own initial state publishes nothing.         *)
LEMMA DeploymentOK ==
  DaemonInit => /\ RegistryInv /\ LocationsInv /\ ChargeInv /\ OutputsInv
                /\ DaemonTypeOK /\ PhasesOK
<1> SUFFICES ASSUME DaemonInit
             PROVE  /\ RegistryInv /\ LocationsInv /\ ChargeInv /\ OutputsInv
                    /\ DaemonTypeOK /\ PhasesOK
  OBVIOUS
<1>1. TypeOK
  <2>1. runtime \in RuntimeAccounts
    BY DaemonAssumption DEF DaemonInit
  <2>2. committees \in [CommitteeIds -> Committee]
    BY DaemonAssumption DEF DaemonInit, NodeSets, Committee
  <2>3. contracts \in [ContractIds -> ConfidentialContract]
    BY NullFacts DEF DaemonInit, ConfidentialContract
  <2>4. /\ dataReferences \in [DataIds -> DataReference]
        /\ dataStorageNodes \in [DataIds -> SUBSET Nodes]
    BY DEF DaemonInit, DataReference
  <2>5. /\ requests \in [ExecutionIds -> Request]
        /\ executions \in [ExecutionIds -> Execution]
    BY NullFacts DEF DaemonInit, Request, Execution, ExecutionStatus
  <2>6. stateVariables \in [Variables -> StateVariable]
    BY DEF DaemonInit, StateVariable
  <2>7. now \in 0..MaxTime /\ sortitionVerifier \in Verifiers
    BY BoundsAssumption DEF DaemonInit
  <2>8. /\ functions \subseteq ContractIds \X Selectors /\ executionIds \in Seq(ExecutionIds)
        /\ nonceUsed \subseteq Users \X Nonces /\ updatesFinalized \subseteq ExecutionIds
        /\ pickRequests \subseteq PickRequest
    BY DEF DaemonInit
  <2>9. QED
    BY <2>1, <2>2, <2>3, <2>4, <2>5, <2>6, <2>7, <2>8 DEF TypeOK
<1>2. RegistryInv
  BY <1>1, NullFacts
     DEF DaemonInit, RegistryInv, ReferencesAreWhole, OutputsAreRegistered, BindingsResolve,
         KeysOpenForOwner, Available, Completed, Representations
<1>3. LocationsInv /\ OutputsInv
  BY DEF DaemonInit, LocationsInv, LocationsMatchRoot, OutputsInv, OutputsAreOwned,
         InputsAreAvailable, Requested, Completed
<1>4. ChargeInv
  <2>1. ThresholdsAreReachable
    <3>1. \A k \in CommitteeIds : committees[k].members \in NodeSets /\ committees[k].threshold = 1
      BY DaemonAssumption DEF DaemonInit
    <3>2. ASSUME NEW S \in NodeSets PROVE 1 \in 1..Cardinality(S)
      <4>1. S \subseteq Nodes /\ S # {}
        BY DEF NodeSets
      <4>2. IsFiniteSet(S)
        BY <4>1, SelectionsAssumption, FS_Subset
      <4>3. Cardinality(S) \in Nat /\ Cardinality(S) # 0
        BY <4>1, <4>2, FS_CardinalityType, FS_EmptySet
      <4>4. QED
        BY <4>3
    <3>3. QED
      BY <3>1, <3>2 DEF ThresholdsAreReachable
  <2>2. OneCommitteeInCharge /\ AssignedAreActive
    BY NullFacts DEF DaemonInit, OneCommitteeInCharge, AssignedAreActive
  <2>3. QED
    BY <2>1, <2>2 DEF ChargeInv
<1>5. DaemonTypeOK
  BY FreshTyped DEF DaemonInit, DaemonTypeOK, CallPhases
<1>6. PhasesOK
  BY DEF DaemonInit, PhasesOK, TaskPhases, ResultPhases, UploadPhases
<1>7. QED
  BY <1>2, <1>3, <1>4, <1>5, <1>6

\* What holds of every reachable state, of the chain and of the daemons.
SystemInv == RegistryInv /\ DaemonTypeOK /\ PhasesOK

LEMMA SystemStep == SystemInv /\ [DaemonNext]_allVars => SystemInv' /\ [Next]_vars
<1> SUFFICES ASSUME SystemInv, [DaemonNext]_allVars PROVE SystemInv' /\ [Next]_vars
  OBVIOUS
<1>1. TypeOK /\ RegistryInv /\ DaemonTypeOK /\ PhasesOK
  BY DEF SystemInv, RegistryInv
<1>2. [Next]_vars
  BY <1>1, ControlStep
<1>3. RegistryInv'
  BY <1>1, <1>2, RegistryStep
<1>4. QED
  BY <1>1, <1>2, <1>3, TypesStep DEF SystemInv

LEMMA SystemAlways == DaemonSpec => []SystemInv /\ [][Next]_vars
<1>1. DaemonInit => SystemInv
  BY DeploymentOK DEF SystemInv
<1>2. QED
  BY <1>1, SystemStep, PTL DEF DaemonSpec

(* Whatever the daemons, the users and the operators do, the chain takes    *)
(* steps of the control plane only: a daemon has no call the contract does  *)
(* not check, and the guarantees of the control plane hold for the system.  *)
THEOREM DaemonsKeepTheControlPlane ==
  DaemonSpec => /\ [][Next]_vars
                /\ [](TypeOK /\ BindingsResolve /\ KeysOpenForOwner)
                /\ [](LocationsMatchRoot /\ OneCommitteeInCharge /\ OutputsAreOwned)
<1>1. SystemInv => RegistryInv
  BY DEF SystemInv
<1>2. RegistryInv => TypeOK /\ BindingsResolve /\ KeysOpenForOwner
  BY DEF RegistryInv
<1>3. /\ LocationsInv => LocationsMatchRoot
      /\ ChargeInv => OneCommitteeInCharge
      /\ OutputsInv => OutputsAreOwned
  BY DEF LocationsInv, ChargeInv, OutputsInv
<1>4. DaemonInit => LocationsInv /\ ChargeInv /\ OutputsInv
  BY DeploymentOK
<1>5. RegistryInv /\ OutputsInv /\ [Next]_vars => OutputsInv'
  BY OutputsStep
<1>6. QED
  BY <1>1, <1>2, <1>3, <1>4, <1>5, LocationsStep, ChargeStep, SystemAlways, PTL DEF DaemonSpec

-----------------------------------------------------------------------------
(* The records of the daemons follow the queue of the chain *)

(* What NothingIsSkipped says of one record.                                *)
RecordOK(n, i) ==
  LET e == processed[n][i].execution IN
  /\ i <= Len(executionIds) /\ e = executionIds[i]
  /\ processed[n][i].outcome = "skipped" => ~Mine(e) \/ Completed(e)
  /\ processed[n][i].outcome = "completed" => Mine(e) /\ (InOutbox(n, e) \/ Completed(e))

\* The chain has been seen to hold the result of the head of the outbox.
LatePhases == {"declare", "update", "open", "mark"}

(* A status that was read as completed is final, and a result is past its   *)
(* submission only when the chain has it: both are read before the step     *)
(* that relies on them.                                                     *)
StageOK(n) ==
  /\ phase[n] \in TaskPhases /\ memory[n].status = "Completed" => Completed(NextTask(n))
  /\ phase[n] \in LatePhases => Completed(NextPending(n).execution)

SkipInv == NothingIsSkipped /\ \A n \in Daemons : StageOK(n)

LEMMA RecordForm ==
  NothingIsSkipped <=> \A n \in Daemons : \A i \in DOMAIN processed[n] : RecordOK(n, i)
BY DEF NothingIsSkipped, RecordOK, Recorded

LEMMA RecordTyped ==
  ASSUME DaemonTypeOK, NEW n \in Daemons, NEW i \in DOMAIN processed[n]
  PROVE  i \in 1..Len(processed[n]) /\ processed[n][i].execution \in ExecutionIds
<1>1. processed[n] \in Seq(TaskRecord)
  BY DEF DaemonTypeOK
<1>2. i \in 1..Len(processed[n]) /\ processed[n][i] \in TaskRecord
  BY <1>1
<1>3. QED
  BY <1>2 DEF TaskRecord

LEMMA RecordKept ==
  ASSUME SystemInv, [Next]_vars, NEW n \in Daemons, NEW i \in DOMAIN processed[n],
         processed'[n][i] = processed[n][i], RecordOK(n, i),
         InOutbox(n, processed[n][i].execution) =>
           InOutbox(n, processed[n][i].execution)' \/ Completed(processed[n][i].execution)'
  PROVE  RecordOK(n, i)'
<1> DEFINE e == processed[n][i].execution
<1>1. TypeOK /\ DaemonTypeOK /\ executionIds \in Seq(ExecutionIds)
  BY DEF SystemInv, RegistryInv, TypeOK
<1>2. e \in ExecutionIds /\ i \in Nat /\ i >= 1
  <2>1. processed[n] \in Seq(TaskRecord) /\ i \in 1..Len(processed[n])
    BY <1>1, RecordTyped DEF DaemonTypeOK
  <2>2. Len(processed[n]) \in Nat
    BY <2>1
  <2>3. QED
    BY <1>1, <2>1, <2>2, RecordTyped
<1>3. Completed(e) => Completed(e)'
  BY <1>1, <1>2, CompletedKept
<1>4. i <= Len(executionIds) /\ e = executionIds[i]
  BY DEF RecordOK
<1>5. i <= Len(executionIds') /\ e = executionIds'[i]
  <2>1. CASE executionIds' = executionIds
    BY <1>4, <2>1
  <2>2. ASSUME NEW x \in ExecutionIds, executionIds' = Append(executionIds, x)
        PROVE  i <= Len(executionIds') /\ e = executionIds'[i]
    <3>1. Len(executionIds) \in Nat /\ Len(executionIds') = Len(executionIds) + 1
          /\ \A j \in 1..Len(executionIds) : executionIds'[j] = executionIds[j]
      BY <1>1, <2>2
    <3>2. i \in 1..Len(executionIds)
      BY <1>2, <1>4, <3>1
    <3>3. QED
      BY <1>4, <3>1, <3>2
  <2>3. QED
    BY <2>1, <2>2, QueueSteps
<1>6. /\ processed[n][i].outcome = "skipped" => ~Mine(e) \/ Completed(e)'
      /\ processed[n][i].outcome = "completed" => Mine(e) /\ (InOutbox(n, e)' \/ Completed(e)')
  BY <1>3 DEF RecordOK
<1>7. processed'[n][i].execution = e /\ processed'[n][i].outcome = processed[n][i].outcome
  OBVIOUS
<1>8. (InOutbox(n, processed[n][i].execution))' = (InOutbox(n, e))'
      /\ Completed(processed[n][i].execution)' = Completed(e)'
  OBVIOUS
<1>9. QED
  BY <1>5, <1>6, <1>7, <1>8 DEF RecordOK, Mine, Completed, InOutbox

(* A row that stays is still found, and the head stays the head.            *)
LEMMA OutboxAppend ==
  ASSUME DaemonTypeOK, NEW n \in Daemons, NEW row \in Row,
         outbox' = [outbox EXCEPT ![n] = Append(outbox[n], row)]
  PROVE  /\ InOutbox(n, row.execution)'
         /\ \A e \in ExecutionIds : InOutbox(n, e) => InOutbox(n, e)'
         /\ \A k \in Daemons \ {n} : outbox'[k] = outbox[k]
<1>1. outbox \in [Daemons -> Seq(Row)] /\ outbox[n] \in Seq(Row)
  BY DEF DaemonTypeOK
<1>2. outbox'[n] = Append(outbox[n], row) /\ Len(outbox[n]) \in Nat
  BY <1>1
<1>3. /\ DOMAIN outbox[n] = 1..Len(outbox[n]) /\ DOMAIN outbox'[n] = 1..(Len(outbox[n]) + 1)
      /\ outbox'[n][Len(outbox[n]) + 1] = row
      /\ \A i \in 1..Len(outbox[n]) : outbox'[n][i] = outbox[n][i]
  BY <1>1, <1>2
<1>4. InOutbox(n, row.execution)'
  <2>1. Len(outbox[n]) + 1 \in DOMAIN outbox'[n]
    BY <1>2, <1>3
  <2>2. QED
    BY <1>3, <2>1 DEF InOutbox
<1>5. ASSUME NEW e \in ExecutionIds, InOutbox(n, e) PROVE InOutbox(n, e)'
  <2>1. PICK i \in DOMAIN outbox[n] : outbox[n][i].execution = e
    BY <1>5 DEF InOutbox
  <2>2. i \in DOMAIN outbox'[n] /\ outbox'[n][i] = outbox[n][i]
    BY <1>2, <1>3
  <2>3. QED
    BY <2>1, <2>2 DEF InOutbox
<1>6. QED
  BY <1>1, <1>4, <1>5

LEMMA OutboxTail ==
  ASSUME DaemonTypeOK, NEW n \in Daemons, outbox[n] # <<>>,
         outbox' = [outbox EXCEPT ![n] = Tail(outbox[n])]
  PROVE  /\ \A e \in ExecutionIds :
              InOutbox(n, e) => e = NextPending(n).execution \/ InOutbox(n, e)'
         /\ \A k \in Daemons \ {n} : outbox'[k] = outbox[k]
<1>1. outbox \in [Daemons -> Seq(Row)] /\ outbox[n] \in Seq(Row)
  BY DEF DaemonTypeOK
<1>2. outbox'[n] = Tail(outbox[n]) /\ Len(outbox[n]) \in Nat /\ Len(outbox[n]) # 0
  BY <1>1
<1>3. /\ DOMAIN outbox[n] = 1..Len(outbox[n]) /\ DOMAIN outbox'[n] = 1..(Len(outbox[n]) - 1)
      /\ \A i \in 1..(Len(outbox[n]) - 1) : outbox'[n][i] = outbox[n][i + 1]
  BY <1>1, <1>2
<1>4. ASSUME NEW e \in ExecutionIds, InOutbox(n, e), e # NextPending(n).execution
      PROVE  InOutbox(n, e)'
  <2>1. PICK i \in 1..Len(outbox[n]) : outbox[n][i].execution = e
    BY <1>3, <1>4 DEF InOutbox
  <2>2. i # 1
    BY <1>4, <2>1 DEF NextPending
  <2>3. i - 1 \in 1..(Len(outbox[n]) - 1) /\ (i - 1) + 1 = i
    BY <1>2, <2>2
  <2>4. outbox'[n][i - 1] = outbox[n][i]
    BY <1>3, <2>3
  <2>5. QED
    BY <1>3, <2>1, <2>3, <2>4 DEF InOutbox
<1>5. QED
  BY <1>1, <1>4

(* What a daemon has read of its rows stays true, whoever acts.             *)
LEMMA StageKept ==
  ASSUME SystemInv, [Next]_vars, NEW k \in Daemons, StageOK(k),
         processed'[k] = processed[k], outbox'[k] = outbox[k],
         phase'[k] \in TaskPhases =>
           phase[k] \in TaskPhases /\ memory'[k].status = memory[k].status,
         phase'[k] \in LatePhases =>
           phase[k] \in LatePhases \/ Completed(NextPending(k).execution)'
  PROVE  StageOK(k)'
<1>1. TypeOK /\ DaemonTypeOK /\ PhasesOK
  BY DEF SystemInv, RegistryInv
<1>2. ASSUME phase'[k] \in TaskPhases, memory'[k].status = "Completed"
      PROVE  Completed(NextTask(k))'
  <2>1. HasTask(k)
    BY <1>1, <1>2 DEF PhasesOK
  <2>2. NextTask(k)' = NextTask(k) /\ NextTask(k) \in ExecutionIds
    BY <1>1, <2>1, TaskKept, CursorTask
  <2>3. Completed(NextTask(k))
    BY <1>2 DEF StageOK
  <2>4. executions'[NextTask(k)].status = "Completed"
    BY <1>1, <2>2, <2>3, CompletedKept DEF Completed
  <2>5. QED
    BY <2>2, <2>4 DEF Completed
<1>3. ASSUME phase'[k] \in LatePhases
      PROVE  Completed(NextPending(k).execution)'
  <2>1. CASE phase[k] \in LatePhases
    <3>1. outbox[k] # <<>>
      BY <1>1, <2>1 DEF PhasesOK, ResultPhases, LatePhases
    <3>2. NextPending(k)' = NextPending(k) /\ NextPending(k).execution \in ExecutionIds
      BY <1>1, <3>1, HeadRow DEF NextPending
    <3>3. Completed(NextPending(k).execution)
      BY <2>1 DEF StageOK
    <3>4. executions'[NextPending(k).execution].status = "Completed"
      BY <1>1, <3>2, <3>3, CompletedKept DEF Completed
    <3>5. QED
      BY <3>2, <3>4 DEF Completed
  <2>2. QED
    BY <1>3, <2>1
<1>4. QED
  BY <1>2, <1>3 DEF StageOK

(* The records of a daemon whose database the step leaves alone.            *)
LEMMA RecordsKept ==
  ASSUME SystemInv, [Next]_vars, NEW k \in Daemons, processed'[k] = processed[k],
         outbox'[k] = outbox[k], \A i \in DOMAIN processed[k] : RecordOK(k, i)
  PROVE  \A i \in DOMAIN processed'[k] : RecordOK(k, i)'
<1> SUFFICES ASSUME NEW i \in DOMAIN processed[k] PROVE RecordOK(k, i)'
  OBVIOUS
<1>1. InOutbox(k, processed[k][i].execution) => InOutbox(k, processed[k][i].execution)'
  BY DEF InOutbox
<1>2. processed'[k][i] = processed[k][i]
  OBVIOUS
<1>3. QED
  BY <1>1, <1>2, RecordKept

(* One record is appended at the cursor, which a foreign, finished or       *)
(* computed task has reached.                                               *)
LEMMA RecordAdded ==
  ASSUME SystemInv, [Next]_vars, NEW n \in Daemons, HasTask(n), NEW e, e = NextTask(n),
         NEW outcome \in {"skipped", "completed"}, executionIds' = executionIds,
         processed' = [processed EXCEPT ![n] =
           Append(@, [execution |-> e, outcome |-> outcome])],
         \A x \in ExecutionIds : InOutbox(n, x) => InOutbox(n, x)',
         outcome = "skipped" => ~Mine(e) \/ Completed(e)',
         outcome = "completed" => Mine(e) /\ InOutbox(n, e)',
         \A i \in DOMAIN processed[n] : RecordOK(n, i)
  PROVE  \A i \in DOMAIN processed'[n] : RecordOK(n, i)'
<1> DEFINE record == [execution |-> e, outcome |-> outcome]
           last == Len(processed[n]) + 1
<1>1. TypeOK /\ DaemonTypeOK /\ PhasesOK
  BY DEF SystemInv, RegistryInv
<1>2. processed \in [Daemons -> Seq(TaskRecord)] /\ processed[n] \in Seq(TaskRecord)
  BY <1>1 DEF DaemonTypeOK
<1>3. /\ Len(processed[n]) \in Nat /\ Len(executionIds) \in Nat
      /\ last \in 1..Len(executionIds) /\ e \in ExecutionIds /\ e = executionIds[last]
  BY <1>1, CursorTask DEF NextTask
<1>4. processed'[n] = Append(processed[n], record)
  BY <1>2
<1>5. /\ DOMAIN processed[n] = 1..Len(processed[n]) /\ DOMAIN processed'[n] = 1..last
      /\ processed'[n][last] = record
      /\ \A i \in 1..Len(processed[n]) : processed'[n][i] = processed[n][i]
  <2> HIDE DEF record
  <2> QED BY <1>2, <1>4
<1>6. ASSUME NEW i, i = last PROVE RecordOK(n, i)'
  <2>1. processed'[n][i].execution = e /\ processed'[n][i].outcome = outcome
    BY <1>5, <1>6
  <2>2. i <= Len(executionIds') /\ e = executionIds'[i]
    BY <1>3, <1>6
  <2> HIDE DEF last
  <2>3. QED
    BY <2>1, <2>2 DEF RecordOK, Mine, Completed, InOutbox
<1>7. ASSUME NEW i \in 1..Len(processed[n]) PROVE RecordOK(n, i)'
  <2>1. i \in DOMAIN processed[n] /\ processed'[n][i] = processed[n][i]
    BY <1>5
  <2>2. processed[n][i].execution \in ExecutionIds
    BY <1>1, <2>1, RecordTyped
  <2>3. InOutbox(n, processed[n][i].execution) => InOutbox(n, processed[n][i].execution)'
    BY <2>1, <2>2 DEF InOutbox
  <2>4. RecordOK(n, i)
    BY <2>1
  <2>5. QED
    BY <2>1, <2>3, <2>4, RecordKept
<1>8. \A i \in DOMAIN processed'[n] : i = last \/ i \in 1..Len(processed[n])
  BY <1>3, <1>5
<1> HIDE DEF last
<1>9. QED
  BY <1>6, <1>7, <1>8

(* A row leaves the outbox when the chain has its result.                   *)
LEMMA RecordsSubmitted ==
  ASSUME SystemInv, [Next]_vars, NEW n \in Daemons, outbox[n] # <<>>,
         processed'[n] = processed[n], outbox' = [outbox EXCEPT ![n] = Tail(outbox[n])],
         Completed(NextPending(n).execution),
         \A i \in DOMAIN processed[n] : RecordOK(n, i)
  PROVE  \A i \in DOMAIN processed'[n] : RecordOK(n, i)'
<1> SUFFICES ASSUME NEW i \in DOMAIN processed[n] PROVE RecordOK(n, i)'
  OBVIOUS
<1>1. TypeOK /\ DaemonTypeOK
  BY DEF SystemInv, RegistryInv
<1> DEFINE e == processed[n][i].execution
           head == NextPending(n).execution
<1>2. e \in ExecutionIds /\ head \in ExecutionIds
  BY <1>1, RecordTyped, HeadRow
<1>3. executions'[head].status = "Completed"
  BY <1>1, <1>2, CompletedKept DEF Completed
<1>4. InOutbox(n, e) => e = head \/ InOutbox(n, e)'
  BY <1>1, <1>2, OutboxTail
<1>5. InOutbox(n, e) => InOutbox(n, e)' \/ Completed(e)'
  BY <1>3, <1>4 DEF Completed
<1>6. processed'[n][i] = processed[n][i]
  OBVIOUS
<1> HIDE DEF e
<1>7. QED
  BY <1>5, <1>6, RecordKept DEF e

(* What the step of a daemon leaves of its own stage.                       *)
LEMMA StageStep ==
  ASSUME SystemInv, [Next]_vars, NEW n \in Daemons, DaemonStep(n) \/ Crash(n), StageOK(n)
  PROVE  StageOK(n)'
<1>1. TypeOK /\ DaemonTypeOK /\ PhasesOK
  BY DEF SystemInv, RegistryInv
<1>2. phase \in [Daemons -> CallPhases \cup TaskPhases \cup ResultPhases \cup UploadPhases]
      /\ memory \in [Daemons -> Memory]
  BY <1>1 DEF DaemonTypeOK
<1> USE DEF CallPhases, TaskPhases, LatePhases
<1>3. CASE EndsCall(n)
  BY <1>2, <1>3 DEF EndsCall, StageOK
<1>4. CASE ReadTask(n)
  <2>1. HasTask(n) /\ UNCHANGED vars /\ UNCHANGED <<processed, outbox>>
    BY <1>4 DEF ReadTask, Chain, ledgerVars
  <2>2. NextTask(n)' = NextTask(n)
    BY <1>1, <2>1, TaskKept
  <2>3. memory'[n].status = "Completed" => executions[NextTask(n)].status = "Completed"
    BY <1>2, <1>4 DEF ReadTask, Memory
  <2>4. phase'[n] \in TaskPhases
    BY <1>2, <1>4 DEF ReadTask
  <2>5. executions' = executions
    BY <2>1 DEF vars
  <2>6. QED
    BY <2>2, <2>3, <2>4, <2>5 DEF StageOK, Completed
<1>5. CASE (Walks(n, "assign", "run") \/ Walks(n, "run", "decide")) /\ Quiet
  <2>1. phase[n] \in TaskPhases /\ phase'[n] \in TaskPhases /\ memory' = memory
    BY <1>2, <1>5 DEF Walks
  <2>2. UNCHANGED <<processed, outbox>>
    BY <1>5 DEF Quiet, ledgerVars
  <2>3. QED
    BY <2>1, <2>2, StageKept
<1>6. CASE ResultWalk(n) /\ Quiet
  <2>1. UNCHANGED <<processed, outbox>>
    BY <1>6 DEF Quiet, ledgerVars
  <2>2. CASE \/ Walks(n, "outbox", "key") \/ Walks(n, "outbox", "result")
             \/ Walks(n, "key", "keyLocations") \/ Walks(n, "keyLocations", "result")
    <3>1. phase'[n] \in {"key", "keyLocations", "result"}
      BY <1>2, <2>2 DEF Walks
    <3>2. QED
      BY <3>1 DEF StageOK
  <2>3. CASE Walks(n, "update", "open") \/ Walks(n, "open", "mark")
    <3>1. phase[n] \in LatePhases /\ phase'[n] \in LatePhases
      BY <1>2, <2>3 DEF Walks
    <3>2. QED
      BY <2>1, <3>1, StageKept
  <2>4. CASE VisitVariable(n, "confirmed")
    <3>1. phase[n] \in LatePhases
      BY <2>4 DEF VisitVariable, At
    <3>2. phase'[n] \in LatePhases
      BY <1>2, <2>4 DEF VisitVariable, Send, Goto, Visit, At
    <3>3. QED
      BY <2>1, <3>1, <3>2, StageKept
  <2>5. CASE SubmitTask(n, "confirmed") /\ Walks(n, "result", "declare")
    <3> DEFINE e == NextPending(n).execution
    <3>1. outbox[n] # <<>> /\ phase'[n] = "declare"
      BY <1>1, <1>2, <2>5 DEF Walks, PhasesOK, ResultPhases
    <3>2. e \in ExecutionIds /\ executions \in [ExecutionIds -> Execution]
      BY <1>1, <3>1, HeadRow DEF TypeOK
    <3>3. executions'[e].status = "Completed"
      <4>1. CASE executions[e].status = "Completed" /\ Chain
        BY <4>1 DEF Chain, vars
      <4>2. ASSUME NEW r, NEW key, NEW nodes, NEW version, NEW root, NEW signers, NEW d,
                   SubmitResult(n, e, d, r, key, nodes, version, root, signers)
            PROVE  executions'[e].status = "Completed"
        <5> HIDE DEF e
        <5> QED BY <3>2, <4>2 DEF SubmitResult, CompletedExecution, Execution
      <4>3. QED
        BY <2>5, <4>1, <4>2 DEF SubmitTask, Send, OnControl
    <3>4. NextPending(n)' = NextPending(n)
      BY <2>1 DEF NextPending
    <3>5. Completed(e)'
      BY <3>3, <3>4 DEF Completed
    <3>6. QED
      BY <3>1, <3>5 DEF StageOK
  <2>6. QED
    BY <1>6, <2>2, <2>3, <2>4, <2>5 DEF ResultWalk
<1>7. CASE UploadWalk(n) /\ Quiet
  <2>1. \E p \in UploadPhases : phase' = [phase EXCEPT ![n] = p]
    BY <1>1, <1>7, UploadWalkFacts
  <2>2. phase'[n] \in UploadPhases
    BY <1>2, <2>1
  <2>3. QED
    BY <2>2 DEF StageOK, UploadPhases
<1>8. QED
  BY <1>3, <1>4, <1>5, <1>6, <1>7, StepKinds DEF PollWalk

(* The other daemons see their database, phase and memory unchanged.        *)
LEMMA OthersKept ==
  ASSUME DaemonTypeOK, TypeOK, PhasesOK, NEW n \in Daemons, DaemonStep(n) \/ Crash(n),
         NEW k \in Daemons \ {n}
  PROVE  /\ phase'[k] = phase[k] /\ memory'[k] = memory[k]
         /\ processed'[k] = processed[k] /\ outbox'[k] = outbox[k]
<1>1. phase \in [Daemons -> CallPhases \cup TaskPhases \cup ResultPhases \cup UploadPhases]
      /\ memory \in [Daemons -> Memory]
  BY DEF DaemonTypeOK
<1>2. EndsCall(n) => phase'[k] = phase[k] /\ memory'[k] = memory[k]
  BY <1>1 DEF EndsCall
<1>3. CASE EndsCall(n) /\ Quiet
  BY <1>2, <1>3 DEF Quiet, ledgerVars
<1>4. CASE EndsCall(n) /\ (SkipTask(n) \/ CommitComputation(n) \/ MarkSubmitted(n)
                           \/ MarkUploadRegistered(n))
  BY <1>2, <1>4, CommitTypes
<1>5. CASE ReadTask(n)
  BY <1>1, <1>5 DEF ReadTask, ledgerVars
<1>6. CASE (Walks(n, "assign", "run") \/ Walks(n, "run", "decide")) /\ Quiet
  BY <1>1, <1>6 DEF Walks, Quiet, ledgerVars
<1>7. CASE ResultWalk(n) /\ Quiet
  BY <1>1, <1>7, ResultWalkFacts DEF Quiet, ledgerVars
<1>8. CASE UploadWalk(n) /\ Quiet
  BY <1>1, <1>8, UploadWalkFacts DEF Quiet, ledgerVars
<1>9. QED
  BY <1>3, <1>4, <1>5, <1>6, <1>7, <1>8, StepKinds DEF PollWalk

LEMMA SkipStep == SystemInv /\ SkipInv /\ [DaemonNext]_allVars => SkipInv'
<1> SUFFICES ASSUME SystemInv, SkipInv, [DaemonNext]_allVars PROVE SkipInv'
  OBVIOUS
<1>1. TypeOK /\ DaemonTypeOK /\ PhasesOK /\ [Next]_vars
  BY SystemStep DEF SystemInv, RegistryInv
<1>2. \A k \in Daemons : StageOK(k) /\ \A i \in DOMAIN processed[k] : RecordOK(k, i)
  BY RecordForm DEF SkipInv
<1>3. SUFFICES ASSUME NEW k \in Daemons
               PROVE  StageOK(k)' /\ \A i \in DOMAIN processed'[k] : RecordOK(k, i)'
  <2>1. NothingIsSkipped' <=> \A n \in Daemons : \A i \in DOMAIN processed'[n] : RecordOK(n, i)'
    BY DEF NothingIsSkipped, RecordOK, Recorded, Completed, InOutbox
  <2>2. QED
    BY <1>3, <2>1 DEF SkipInv
<1>4. ASSUME phase'[k] = phase[k], memory'[k] = memory[k],
             processed'[k] = processed[k], outbox'[k] = outbox[k]
      PROVE  StageOK(k)' /\ \A i \in DOMAIN processed'[k] : RecordOK(k, i)'
  BY <1>1, <1>2, <1>4, StageKept, RecordsKept
<1>5. ASSUME NEW n \in Daemons, DaemonStep(n) \/ Crash(n), n # k
      PROVE  StageOK(k)' /\ \A i \in DOMAIN processed'[k] : RecordOK(k, i)'
  BY <1>1, <1>4, <1>5, OthersKept
<1>6. ASSUME DaemonStep(k) \/ Crash(k)
      PROVE  StageOK(k)' /\ \A i \in DOMAIN processed'[k] : RecordOK(k, i)'
  <2>1. StageOK(k)'
    BY <1>1, <1>2, <1>6, StageStep
  <2>2. CASE Quiet \/ MarkUploadRegistered(k) \/ PollWalk(k)
    <3>1. UNCHANGED <<processed, outbox>>
      BY <2>2 DEF Quiet, MarkUploadRegistered, PollWalk, ReadTask, ledgerVars
    <3>2. QED
      BY <1>1, <1>2, <2>1, <3>1, RecordsKept
  <2>3. CASE SkipTask(k)
    <3>1. phase[k] = "decide" /\ HasTask(k) /\ executionIds' = executionIds /\ outbox' = outbox
      BY <1>1, <2>3 DEF SkipTask, At, PhasesOK, TaskPhases, Chain, vars
    <3>2. PICK e \in ExecutionIds : e = NextTask(k)
      BY <1>1, <3>1, CursorTask
    <3>3. processed' = [processed EXCEPT ![k] = Append(@, [execution |-> e, outcome |-> "skipped"])]
      BY <2>3, <3>2 DEF SkipTask
    <3>4. ~Mine(e) \/ Completed(e)
      BY <1>2, <2>3, <3>1, <3>2 DEF SkipTask, Skippable, Mine, StageOK, TaskPhases
    <3>5. Completed(e) => Completed(e)'
      BY <1>1, CompletedKept
    <3>6. \A x \in ExecutionIds : InOutbox(k, x) => InOutbox(k, x)'
      BY <3>1 DEF InOutbox
    <3>7. QED
      BY <1>1, <1>2, <2>1, <3>1, <3>2, <3>3, <3>4, <3>5, <3>6, RecordAdded
  <2>4. CASE CommitComputation(k)
    <3>1. phase[k] = "decide" /\ HasTask(k) /\ executionIds' = executionIds
      BY <1>1, <2>4 DEF CommitComputation, At, PhasesOK, TaskPhases, Chain, vars
    <3>2. PICK e \in ExecutionIds : e = NextTask(k)
      BY <1>1, <3>1, CursorTask
    <3>3. processed' = [processed EXCEPT ![k] = Append(@, [execution |-> e, outcome |-> "completed"])]
      BY <2>4, <3>2 DEF CommitComputation
    <3>4. Mine(e)
      BY <2>4, <3>2 DEF CommitComputation, Skippable, Mine
    <3>5. PICK row \in Row : row.execution = e /\ outbox' = [outbox EXCEPT ![k] = Append(outbox[k], row)]
      BY <1>1, <2>4, <3>2, CommittedRow
    <3>6. /\ InOutbox(k, e)'
          /\ \A x \in ExecutionIds : InOutbox(k, x) => InOutbox(k, x)'
      <4>1. /\ InOutbox(k, row.execution)'
            /\ \A x \in ExecutionIds : InOutbox(k, x) => InOutbox(k, x)'
        BY <1>1, <3>5, OutboxAppend
      <4>2. QED
        BY <3>5, <4>1 DEF InOutbox
    <3>7. QED
      BY <1>1, <1>2, <2>1, <3>1, <3>2, <3>3, <3>4, <3>6, RecordAdded
  <2>5. CASE MarkSubmitted(k)
    <3>1. phase[k] = "mark" /\ outbox[k] # <<>> /\ processed' = processed
          /\ outbox' = [outbox EXCEPT ![k] = Tail(outbox[k])]
      BY <1>1, <2>5 DEF MarkSubmitted, At, PhasesOK, ResultPhases
    <3>2. Completed(NextPending(k).execution)
      BY <1>2, <3>1 DEF StageOK, LatePhases
    <3>3. QED
      BY <1>1, <1>2, <2>1, <3>1, <3>2, RecordsSubmitted
  <2>6. QED
    BY <1>6, <2>2, <2>3, <2>4, <2>5, StepKinds
<1>7. ASSUME UNCHANGED <<loopVars, ledgerVars>>
      PROVE  StageOK(k)' /\ \A i \in DOMAIN processed'[k] : RecordOK(k, i)'
  BY <1>4, <1>7 DEF loopVars, ledgerVars
<1>8. QED
  <2>1. ASSUME NEW n \in Daemons, NEW upload \in Uploads, AcceptUpload(n, upload)
        PROVE  UNCHANGED <<loopVars, ledgerVars>>
    BY <2>1 DEF AcceptUpload
  <2>2. ASSUME Environment \/ UNCHANGED allVars PROVE UNCHANGED <<loopVars, ledgerVars>>
    BY <2>2 DEF Environment, daemonVars, allVars, loopVars, ledgerVars
  <2>3. QED
    BY <1>5, <1>6, <1>7, <2>1, <2>2 DEF DaemonNext

(* docs/privacy-contract-language.md:96, for any number of daemons, tasks,  *)
(* crashes and lost answers: the records of a daemon are a prefix of the    *)
(* queue of the chain, a skipped task is foreign or done, and a computed    *)
(* one is in the outbox or accepted.                                        *)
THEOREM DaemonsSkipNothing == DaemonSpec => []NothingIsSkipped
<1>1. DaemonInit => SkipInv
  BY DEF DaemonInit, SkipInv, NothingIsSkipped, StageOK, TaskPhases, LatePhases
<1>2. SkipInv => NothingIsSkipped
  BY DEF SkipInv
<1>3. QED
  BY <1>1, <1>2, SkipStep, SystemAlways, PTL DEF DaemonSpec

-----------------------------------------------------------------------------
(* Uploads reach the chain before they leave the queue *)

UploadPending(n, u) == \E i \in DOMAIN pendingUploads[n] : pendingUploads[n][i] = u
Located(d) == Available(d) /\ dataStorageNodes[d] # {}

(* A daemon that accepted an upload with the id registered it: for the      *)
(* owner, with itself as the location.                                      *)
TakenByDaemon(u) ==
  /\ dataReferences[u.dataId].owner = u.owner
  /\ \E m \in Daemons : /\ dataReferences[u.dataId].storageSetRoot = {m}
                         /\ \E w \in acceptedUploads[m] : w.dataId = u.dataId

UploadsAreOwned ==
  \A u \in Uploads : Available(u.dataId) => Preempted(u.dataId) \/ TakenByDaemon(u)

QueuesAreAccepted ==
  \A n \in Daemons : \A u \in Uploads : UploadPending(n, u) => u \in acceptedUploads[n]

(* What a daemon has made sure of is still so when it takes the next step.  *)
UploadStageOK(n) ==
  /\ phase[n] = "uploadLocations" => Available(NextUpload(n).dataId)
  /\ phase[n] = "uploadMark" => Located(NextUpload(n).dataId)

UploadRowsOK(n) ==
  \A u \in acceptedUploads[n] : UploadPending(n, u) \/ Located(u.dataId)

UploadInv ==
  /\ LocationsInv /\ UploadsAreOwned /\ QueuesAreAccepted
  /\ \A n \in Daemons : UploadStageOK(n) /\ UploadRowsOK(n)

LEMMA LocatedStays ==
  ASSUME SystemInv, [Next]_vars, NEW d \in DataIds
  PROVE  /\ Available(d) => Available(d)' /\ dataReferences'[d].owner = dataReferences[d].owner
         /\ Located(d) => Located(d)'
<1>1. TypeOK /\ RegistryInv
  BY DEF SystemInv, RegistryInv
<1>2. Available(d) => Available(d)' /\ dataReferences'[d].owner = dataReferences[d].owner
  BY <1>1, ReferencesAdvance DEF Advances
<1>3. QED
  BY <1>1, <1>2, LocatedKept DEF Located

LEMMA HeadIsPending ==
  ASSUME DaemonTypeOK, NEW n \in Daemons, pendingUploads[n] # <<>>
  PROVE  UploadPending(n, NextUpload(n))
<1>1. pendingUploads[n] \in Seq(Uploads)
  BY DEF DaemonTypeOK
<1>2. 1 \in DOMAIN pendingUploads[n]
  BY <1>1
<1>3. QED
  BY <1>2 DEF UploadPending, NextUpload

(* What is registered stays as it is: no daemon moves a reference.          *)
LEMMA ReferenceStays ==
  ASSUME [DaemonNext]_allVars, NEW d \in DataIds, Available(d)
  PROVE  dataReferences'[d] = dataReferences[d]
<1>1. ASSUME NEW sender, NEW owner, NEW f, NEW r, NEW key, NEW nodes, NEW version,
             RegisterData(sender, owner, f, r, key, nodes, version)
      PROVE  dataReferences'[d] = dataReferences[d]
  BY <1>1 DEF RegisterData, Unregistered
<1>2. ASSUME NEW sender, NEW e, NEW f, NEW r, NEW key, NEW nodes, NEW version, NEW root,
             NEW signers, SubmitResult(sender, e, f, r, key, nodes, version, root, signers)
      PROVE  dataReferences'[d] = dataReferences[d]
  BY <1>2 DEF SubmitResult, Unregistered
<1>3. CASE dataReferences' = dataReferences
  BY <1>3
<1>4. ASSUME NEW n \in Daemons, NEW answer, Remote(n, answer)
      PROVE  dataReferences'[d] = dataReferences[d]
  <2>1. CASE EnsureResultKey(n, answer) \/ EnsureUploadKey(n, answer)
    BY <1>1, <1>3, <2>1 DEF EnsureResultKey, EnsureUploadKey, Send, RegisterKey, PublishKey,
       OnControl, RegisterDataLocations
  <2>2. CASE SubmitTask(n, answer)
    BY <1>2, <1>3, <2>2 DEF SubmitTask, Send, OnControl, Chain, vars
  <2>3. CASE RegisterUpload(n, answer)
    BY <1>1, <2>3 DEF RegisterUpload, Send, OnControl
  <2>4. CASE \/ AssignTask(n, answer) \/ RunTask(n, answer) \/ VisitVariable(n, answer)
             \/ UpdateVariables(n, answer) \/ OpenResult(n, answer) \/ PublishUpload(n, answer)
    <3>1. dataReferences' = dataReferences
      BY <2>4 DEF AssignTask, RunTask, VisitVariable, UpdateVariables, OpenResult, PublishUpload,
         Send, OnControl, Chain, vars, dataVars, AssignCommittee, MarkRunning,
         DeclareStateVariable, UpdateStateVariablesAfterResult, FulfillOpening,
         RegisterDataLocations
    <3>2. QED
      BY <1>3, <3>1
  <2>5. QED
    BY <1>4, <2>1, <2>2, <2>3, <2>4 DEF Remote
<1>5. ASSUME NEW n \in Daemons, Local(n) \/ ReturnError(n) \/ Crash(n)
      PROVE  dataReferences' = dataReferences
  BY <1>5 DEF Local, ReturnError, Crash, Idle, ReadTask, SkipTask, KeepTask,
     CommitComputation, ReadOutbox, MarkSubmitted, ReadUpload, MarkUploadRegistered, Chain, vars
<1>6. ASSUME NEW n \in Daemons, NEW upload \in Uploads, AcceptUpload(n, upload)
      PROVE  dataReferences' = dataReferences
  BY <1>6 DEF AcceptUpload, Chain, vars
<1>7. ASSUME Environment PROVE dataReferences'[d] = dataReferences[d]
  <2>1. CASE \E r \in Registrations : RegisterOutside(r)
    BY <1>1, <1>3, <2>1 DEF RegisterOutside, RegisterDataLocations
  <2>2. CASE ~\E r \in Registrations : RegisterOutside(r)
    BY <1>3, <1>7, <2>2
       DEF Environment, Invoke, SetRuntime, BeginHandoff, FinalizeHandoff, Tick, dataVars
  <2>3. QED
    BY <2>1, <2>2
<1>8. QED
  BY <1>3, <1>4, <1>5, <1>6, <1>7 DEF DaemonNext, DaemonStep, allVars, vars

(* What a daemon has accepted it keeps.                                     *)
LEMMA AcceptedStays ==
  ASSUME DaemonTypeOK, [DaemonNext]_allVars, NEW m \in Daemons
  PROVE  acceptedUploads[m] \subseteq acceptedUploads'[m]
<1>1. acceptedUploads \in [Daemons -> SUBSET Uploads]
  BY DEF DaemonTypeOK
<1>2. ASSUME NEW n \in Daemons, DaemonStep(n) \/ Crash(n)
      PROVE  acceptedUploads' = acceptedUploads
  BY <1>2 DEF DaemonStep, Crash, Local, ReturnError, Remote, Idle, ReadTask, SkipTask, KeepTask,
     CommitComputation, ReadOutbox, MarkSubmitted, ReadUpload, MarkUploadRegistered,
     AssignTask, RunTask, EnsureResultKey, SubmitTask, VisitVariable, UpdateVariables,
     OpenResult, EnsureUploadKey, RegisterUpload, PublishUpload, uploadVars
<1>3. ASSUME NEW n \in Daemons, NEW upload \in Uploads, AcceptUpload(n, upload)
      PROVE  acceptedUploads[m] \subseteq acceptedUploads'[m]
  BY <1>1, <1>3 DEF AcceptUpload
<1>4. CASE Environment \/ UNCHANGED allVars
  BY <1>4 DEF Environment, daemonVars, allVars
<1>5. QED
  BY <1>2, <1>3, <1>4 DEF DaemonNext

(* A daemon registers the upload at the head of its queue.                  *)
Registers(n, d) ==
  \E w \in Uploads : /\ UploadPending(n, w) /\ d = w.dataId
                      /\ dataReferences'[d].owner = w.owner
                      /\ dataReferences'[d].storageSetRoot = {n}

(* A new reference is a key, a result, an upload that a daemon registers, or *)
(* was registered by another account.                                       *)
LEMMA NewReferences ==
  ASSUME TypeOK, DaemonTypeOK, PhasesOK, [DaemonNext]_allVars, NEW d \in DataIds,
         ~Available(d), Available(d)'
  PROVE  \/ \E x \in Users : d = KeyOf[x]
         \/ \E e \in ExecutionIds : \E b \in Basis(e) : d = OutputId(e, b)
         \/ \E n \in Daemons : Registers(n, d)
         \/ \E r \in Registrations : d = r.dataId /\ dataReferences'[d].owner = r.owner
<1>1. dataReferences \in [DataIds -> DataReference]
  BY DEF TypeOK
<1>2. dataReferences' # dataReferences
  BY DEF Available
<1>3. ASSUME NEW sender, NEW owner, NEW f \in DataIds, NEW r, NEW key, NEW nodes, NEW version,
             RegisterData(sender, owner, f, r, key, nodes, version)
      PROVE  /\ d = f /\ dataReferences'[d].owner = owner
             /\ dataReferences'[d].storageSetRoot = nodes
  BY <1>1, <1>3 DEF RegisterData, Available
<1>4. ASSUME NEW n \in Daemons, NEW answer, Remote(n, answer)
      PROVE  \/ \E x \in Users : d = KeyOf[x]
             \/ \E e \in ExecutionIds : \E b \in Basis(e) : d = OutputId(e, b)
             \/ Registers(n, d)
  <2>1. CASE EnsureResultKey(n, answer)
    <3>1. outbox[n] # <<>>
      BY <2>1 DEF EnsureResultKey, At, PhasesOK, ResultPhases
    <3>2. RegisterKey(n, Requester(n)) \/ PublishKey(n, Requester(n))
      BY <2>1 DEF EnsureResultKey, Send
    <3>3. RegisterKey(n, Requester(n))
      BY <1>2, <3>2 DEF PublishKey, OnControl, RegisterDataLocations
    <3>4. Requester(n) \in Users /\ KeyOf[Requester(n)] \in DataIds
      BY <3>1, HeadRow
    <3>5. QED
      BY <1>3, <3>3, <3>4 DEF RegisterKey, OnControl
  <2>2. CASE EnsureUploadKey(n, answer)
    <3>1. pendingUploads[n] # <<>>
      BY <2>2 DEF EnsureUploadKey, At, PhasesOK, UploadPhases
    <3>2. RegisterKey(n, NextUpload(n).owner) \/ PublishKey(n, NextUpload(n).owner)
      BY <2>2 DEF EnsureUploadKey, Send
    <3>3. RegisterKey(n, NextUpload(n).owner)
      BY <1>2, <3>2 DEF PublishKey, OnControl, RegisterDataLocations
    <3>4. NextUpload(n).owner \in Users /\ KeyOf[NextUpload(n).owner] \in DataIds
      BY <3>1, HeadUpload
    <3>5. QED
      BY <1>3, <3>3, <3>4 DEF RegisterKey, OnControl
  <2>3. CASE SubmitTask(n, answer)
    <3>1. outbox[n] # <<>>
      BY <2>3 DEF SubmitTask, At, PhasesOK, ResultPhases
    <3>2. PICK r, key, nodes, version, root, signers :
            SubmitResult(n, NextPending(n).execution, Output(n), r, key, nodes, version, root, signers)
      BY <1>2, <2>3 DEF SubmitTask, Send, OnControl, Chain, vars
    <3>3. Output(n) \in DataIds
      BY <3>1, HeadRow
    <3>4. d = Output(n)
      BY <1>1, <3>2, <3>3 DEF SubmitResult, Available
    <3>5. QED
      BY <3>1, <3>4, HeadRow
  <2>4. CASE RegisterUpload(n, answer)
    <3>1. pendingUploads[n] # <<>>
      BY <2>4 DEF RegisterUpload, At, PhasesOK, UploadPhases
    <3>2. NextUpload(n) \in Uploads /\ NextUpload(n).dataId \in DataIds
      BY <3>1, HeadUpload
    <3>3. \E r, key :
            RegisterData(n, NextUpload(n).owner, NextUpload(n).dataId, r, key, {n}, 1)
      BY <2>4 DEF RegisterUpload, Send, OnControl
    <3>4. /\ d = NextUpload(n).dataId /\ dataReferences'[d].owner = NextUpload(n).owner
          /\ dataReferences'[d].storageSetRoot = {n}
      BY <1>3, <3>2, <3>3
    <3>5. UploadPending(n, NextUpload(n))
      BY <3>1, HeadIsPending
    <3>6. QED
      BY <3>2, <3>4, <3>5 DEF Registers
  <2>5. CASE \/ AssignTask(n, answer) \/ RunTask(n, answer) \/ VisitVariable(n, answer)
             \/ UpdateVariables(n, answer) \/ OpenResult(n, answer) \/ PublishUpload(n, answer)
    <3>1. dataReferences' = dataReferences
      BY <2>5 DEF AssignTask, RunTask, VisitVariable, UpdateVariables, OpenResult, PublishUpload,
         Send, OnControl, Chain, vars, dataVars, AssignCommittee, MarkRunning,
         DeclareStateVariable, UpdateStateVariablesAfterResult, FulfillOpening,
         RegisterDataLocations
    <3>2. QED
      BY <1>2, <3>1
  <2>6. QED
    BY <1>4, <2>1, <2>2, <2>3, <2>4, <2>5 DEF Remote
<1>5. ASSUME NEW n \in Daemons, Local(n) \/ ReturnError(n) \/ Crash(n) PROVE FALSE
  BY <1>2, <1>5 DEF Local, ReturnError, Crash, Idle, ReadTask, SkipTask, KeepTask,
     CommitComputation, ReadOutbox, MarkSubmitted, ReadUpload, MarkUploadRegistered, Chain, vars
<1>6. ASSUME NEW n \in Daemons, NEW upload \in Uploads, AcceptUpload(n, upload) PROVE FALSE
  BY <1>2, <1>6 DEF AcceptUpload, Chain, vars
<1>7. ASSUME Environment
      PROVE  \E r \in Registrations : d = r.dataId /\ dataReferences'[d].owner = r.owner
  <2> USE DEF requestVars, codeVars
  <2>1. PICK r \in Registrations : RegisterOutside(r)
    BY <1>2, <1>7 DEF Environment, Invoke, SetRuntime, BeginHandoff, FinalizeHandoff, Tick, dataVars
  <2>2. r.dataId \in DataIds
    BY DaemonAssumption DEF Registration
  <2>3. RegisterData(r.owner, r.owner, r.dataId, r.representation, r.fheKeyId, r.nodes, 1)
    BY <1>2, <2>1 DEF RegisterOutside, RegisterDataLocations
  <2>4. QED
    BY <1>3, <2>2, <2>3
<1>8. CASE UNCHANGED allVars
  BY <1>2, <1>8 DEF allVars, vars
<1>9. ASSUME NEW n \in Daemons, DaemonStep(n) \/ Crash(n)
      PROVE  \E answer \in Answers : Remote(n, answer)
  BY <1>5, <1>9 DEF DaemonStep
<1>10. CASE \E n \in Daemons : DaemonStep(n) \/ Crash(n)
  <2>1. PICK n \in Daemons : \E answer \in Answers : Remote(n, answer)
    BY <1>9, <1>10
  <2>2. QED
    BY <1>4, <2>1
<1>11. QED
  BY <1>6, <1>7, <1>8, <1>10 DEF DaemonNext

LEMMA UploadsOwnedStep ==
  ASSUME SystemInv, [DaemonNext]_allVars, UploadsAreOwned, QueuesAreAccepted
  PROVE  UploadsAreOwned'
<1>1. TypeOK /\ DaemonTypeOK /\ PhasesOK
  BY DEF SystemInv, RegistryInv
<1>2. SUFFICES ASSUME NEW u \in Uploads, Available(u.dataId)'
               PROVE  Preempted(u.dataId)' \/ TakenByDaemon(u)'
  BY DEF UploadsAreOwned, Available
<1>3. PICK d \in DataIds : d = u.dataId
  BY DaemonAssumption DEF UploadRequest
<1>4. ASSUME NEW m \in Daemons, NEW w \in acceptedUploads[m], w.dataId = d,
             dataReferences'[d].storageSetRoot = {m}, dataReferences'[d].owner = u.owner
      PROVE  TakenByDaemon(u)'
  <2>1. w \in acceptedUploads'[m]
    BY <1>1, AcceptedStays
  <2>2. QED
    BY <1>3, <1>4, <2>1 DEF TakenByDaemon
<1>5. CASE Available(u.dataId)
  <2>1. dataReferences'[d] = dataReferences[d]
    BY <1>3, <1>5, ReferenceStays
  <2>2. CASE Preempted(u.dataId)
    BY <1>3, <2>1, <2>2 DEF Preempted
  <2>3. CASE TakenByDaemon(u)
    BY <1>3, <1>4, <2>1, <2>3 DEF TakenByDaemon
  <2>4. QED
    BY <1>5, <2>2, <2>3 DEF UploadsAreOwned
<1>6. CASE ~Available(u.dataId)
  <2>1. ~Available(d) /\ Available(d)'
    BY <1>2, <1>3, <1>6 DEF Available
  <2>2. /\ \A x \in Users : d # KeyOf[x]
        /\ \A e \in ExecutionIds : \A b \in Basis(e) : d # OutputId(e, b)
    BY <1>3, UploadIdsAssumption
  <2>3. \/ \E n \in Daemons : Registers(n, d)
        \/ \E r \in Registrations : d = r.dataId /\ dataReferences'[d].owner = r.owner
    BY <1>1, <2>1, <2>2, NewReferences
  <2>4. ASSUME NEW n \in Daemons, Registers(n, d) PROVE TakenByDaemon(u)'
    <3>1. PICK w \in Uploads : /\ UploadPending(n, w) /\ d = w.dataId
                               /\ dataReferences'[d].owner = w.owner
                               /\ dataReferences'[d].storageSetRoot = {n}
      BY <2>4 DEF Registers
    <3>2. w.owner = u.owner
      BY <1>3, <3>1, UploadIdsAssumption
    <3>3. w \in acceptedUploads[n]
      BY <3>1 DEF QueuesAreAccepted
    <3>4. QED
      BY <1>4, <3>1, <3>2, <3>3
  <2>5. QED
    BY <1>3, <2>3, <2>4 DEF Preempted
<1>7. QED
  BY <1>5, <1>6

(* The queue of uploads grows at its end and loses its head.                *)
LEMMA PendingAppend ==
  ASSUME DaemonTypeOK, NEW n \in Daemons, NEW upload \in Uploads,
         pendingUploads' = [pendingUploads EXCEPT ![n] = Append(@, upload)]
  PROVE  /\ UploadPending(n, upload)'
         /\ \A u \in Uploads : UploadPending(n, u) => UploadPending(n, u)'
         /\ \A u \in Uploads : UploadPending(n, u)' => UploadPending(n, u) \/ u = upload
         /\ pendingUploads[n] # <<>> => NextUpload(n)' = NextUpload(n)
         /\ \A k \in Daemons \ {n} : pendingUploads'[k] = pendingUploads[k]
<1>1. pendingUploads \in [Daemons -> Seq(Uploads)] /\ pendingUploads[n] \in Seq(Uploads)
  BY DEF DaemonTypeOK
<1> DEFINE len == Len(pendingUploads[n])
<1>2. pendingUploads'[n] = Append(pendingUploads[n], upload) /\ len \in Nat
  BY <1>1
<1>3. /\ DOMAIN pendingUploads[n] = 1..len /\ DOMAIN pendingUploads'[n] = 1..(len + 1)
      /\ pendingUploads'[n][len + 1] = upload
      /\ \A i \in 1..len : pendingUploads'[n][i] = pendingUploads[n][i]
  BY <1>1, <1>2
<1>4. len + 1 \in DOMAIN pendingUploads'[n] /\ \A i \in 1..len : i \in DOMAIN pendingUploads'[n]
  BY <1>2, <1>3
<1>5. UploadPending(n, upload)'
  BY <1>3, <1>4 DEF UploadPending
<1>6. \A u \in Uploads : UploadPending(n, u) => UploadPending(n, u)'
  BY <1>3, <1>4 DEF UploadPending
<1>7. \A u \in Uploads : UploadPending(n, u)' => UploadPending(n, u) \/ u = upload
  <2>1. \A i \in 1..(len + 1) : i \in 1..len \/ i = len + 1
    BY <1>2
  <2>2. QED
    BY <1>3, <2>1 DEF UploadPending
<1>8. pendingUploads[n] # <<>> => NextUpload(n)' = NextUpload(n)
  <2>1. pendingUploads[n] # <<>> => 1 \in 1..len
    BY <1>1, <1>2
  <2>2. QED
    BY <1>3, <2>1 DEF NextUpload
<1>9. QED
  BY <1>1, <1>5, <1>6, <1>7, <1>8

LEMMA PendingTail ==
  ASSUME DaemonTypeOK, NEW n \in Daemons, pendingUploads[n] # <<>>,
         pendingUploads' = [pendingUploads EXCEPT ![n] = Tail(@)]
  PROVE  /\ \A u \in Uploads : UploadPending(n, u) => u = NextUpload(n) \/ UploadPending(n, u)'
         /\ \A u \in Uploads : UploadPending(n, u)' => UploadPending(n, u)
         /\ \A k \in Daemons \ {n} : pendingUploads'[k] = pendingUploads[k]
<1>1. pendingUploads \in [Daemons -> Seq(Uploads)] /\ pendingUploads[n] \in Seq(Uploads)
  BY DEF DaemonTypeOK
<1> DEFINE len == Len(pendingUploads[n])
<1>2. pendingUploads'[n] = Tail(pendingUploads[n]) /\ len \in Nat /\ len # 0
  BY <1>1
<1>3. /\ DOMAIN pendingUploads[n] = 1..len /\ DOMAIN pendingUploads'[n] = 1..(len - 1)
      /\ \A i \in 1..(len - 1) : pendingUploads'[n][i] = pendingUploads[n][i + 1]
  BY <1>1, <1>2
<1>4. ASSUME NEW u \in Uploads, UploadPending(n, u), u # NextUpload(n)
      PROVE  UploadPending(n, u)'
  <2>1. PICK i \in 1..len : pendingUploads[n][i] = u
    BY <1>3, <1>4 DEF UploadPending
  <2>2. i # 1
    BY <1>4, <2>1 DEF NextUpload
  <2>3. i - 1 \in 1..(len - 1) /\ (i - 1) + 1 = i
    BY <1>2, <2>2
  <2>4. pendingUploads'[n][i - 1] = u
    BY <1>3, <2>1, <2>3
  <2>5. QED
    BY <1>3, <2>3, <2>4 DEF UploadPending
<1>5. \A u \in Uploads : UploadPending(n, u)' => UploadPending(n, u)
  <2>1. \A i \in 1..(len - 1) : i + 1 \in 1..len
    BY <1>2
  <2>2. QED
    BY <1>3, <2>1 DEF UploadPending
<1>6. QED
  BY <1>1, <1>4, <1>5

(* A queue holds what its daemon has accepted.                              *)
LEMMA QueuesStep ==
  ASSUME SystemInv, [DaemonNext]_allVars, QueuesAreAccepted
  PROVE  QueuesAreAccepted'
<1>1. DaemonTypeOK /\ PhasesOK
  BY DEF SystemInv
<1>2. SUFFICES ASSUME NEW k \in Daemons, NEW u \in Uploads, UploadPending(k, u)'
               PROVE  u \in acceptedUploads'[k]
  BY DEF QueuesAreAccepted
<1>3. acceptedUploads[k] \subseteq acceptedUploads'[k]
  BY <1>1, AcceptedStays
<1>4. CASE UploadPending(k, u)
  BY <1>3, <1>4 DEF QueuesAreAccepted
<1>5. CASE pendingUploads' = pendingUploads
  BY <1>2, <1>4, <1>5 DEF UploadPending
<1>6. ASSUME NEW n \in Daemons, DaemonStep(n) \/ Crash(n) PROVE u \in acceptedUploads'[k]
  <2>1. CASE MarkUploadRegistered(n)
    <3>1. pendingUploads[n] # <<>> /\ pendingUploads' = [pendingUploads EXCEPT ![n] = Tail(@)]
      BY <1>1, <2>1 DEF MarkUploadRegistered, At, PhasesOK, UploadPhases
    <3>2. /\ \A w \in Uploads : UploadPending(n, w)' => UploadPending(n, w)
          /\ \A j \in Daemons \ {n} : pendingUploads'[j] = pendingUploads[j]
      BY <1>1, <3>1, PendingTail
    <3>3. UploadPending(k, u)
      BY <1>2, <3>2 DEF UploadPending
    <3>4. QED
      BY <1>4, <3>3
  <2>2. CASE ~MarkUploadRegistered(n)
    <3>1. pendingUploads' = pendingUploads
      BY <1>6, <2>2 DEF DaemonStep, Crash, Local, ReturnError, Remote, Idle, ReadTask, SkipTask,
         KeepTask, CommitComputation, ReadOutbox, MarkSubmitted, ReadUpload,
         AssignTask, RunTask, EnsureResultKey, SubmitTask, VisitVariable, UpdateVariables,
         OpenResult, EnsureUploadKey, RegisterUpload, PublishUpload, uploadVars
    <3>2. QED
      BY <1>5, <3>1
  <2>3. QED
    BY <2>1, <2>2
<1>7. ASSUME NEW n \in Daemons, NEW upload \in Uploads, AcceptUpload(n, upload)
      PROVE  u \in acceptedUploads'[k]
  <2>1. /\ acceptedUploads' = [acceptedUploads EXCEPT ![n] = @ \cup {upload}]
        /\ pendingUploads' = [pendingUploads EXCEPT ![n] = Append(@, upload)]
    BY <1>7 DEF AcceptUpload
  <2>2. /\ \A w \in Uploads : UploadPending(n, w)' => UploadPending(n, w) \/ w = upload
        /\ \A j \in Daemons \ {n} : pendingUploads'[j] = pendingUploads[j]
    BY <1>1, <2>1, PendingAppend
  <2>3. UploadPending(k, u) \/ (k = n /\ u = upload)
    BY <1>2, <2>2 DEF UploadPending
  <2>4. acceptedUploads \in [Daemons -> SUBSET Uploads]
    BY <1>1 DEF DaemonTypeOK
  <2>5. QED
    BY <1>4, <2>1, <2>3, <2>4
<1>8. CASE Environment \/ UNCHANGED allVars
  BY <1>5, <1>8 DEF Environment, daemonVars, allVars
<1>9. QED
  BY <1>6, <1>7, <1>8 DEF DaemonNext

(* The stage and the rows of a daemon that leaves its queue as it is.       *)
LEMMA UploadStageKept ==
  ASSUME SystemInv, [Next]_vars, NEW k \in Daemons, UploadStageOK(k),
         phase'[k] \in {"uploadLocations", "uploadMark"} =>
           phase[k] = phase'[k] /\ pendingUploads[k] # <<>> /\ NextUpload(k)' = NextUpload(k)
  PROVE  UploadStageOK(k)'
<1>1. DaemonTypeOK
  BY DEF SystemInv
<1>2. SUFFICES ASSUME phase'[k] \in {"uploadLocations", "uploadMark"} PROVE UploadStageOK(k)'
  BY DEF UploadStageOK
<1>3. PICK d \in DataIds : d = NextUpload(k).dataId
  BY <1>1, <1>2, HeadUpload
<1>4. (Available(d) => Available(d)') /\ (Located(d) => Located(d)')
  BY LocatedStays
<1>5. /\ phase[k] = "uploadLocations" => Available(d)
      /\ phase[k] = "uploadMark" => Located(d)
  BY <1>3 DEF UploadStageOK
<1>6. /\ phase'[k] = "uploadLocations" => Available(d)'
      /\ phase'[k] = "uploadMark" => Located(d)'
  BY <1>2, <1>4, <1>5
<1>7. NextUpload(k)'.dataId = d
  BY <1>2, <1>3
<1>8. (Available(NextUpload(k).dataId))' = Available(d)'
      /\ (Located(NextUpload(k).dataId))' = Located(d)'
  BY <1>7 DEF Available, Located
<1>9. QED
  BY <1>6, <1>8 DEF UploadStageOK

LEMMA UploadRowsKept ==
  ASSUME SystemInv, [Next]_vars, NEW k \in Daemons, UploadRowsOK(k),
         acceptedUploads'[k] = acceptedUploads[k],
         \A u \in Uploads : UploadPending(k, u) => UploadPending(k, u)' \/ Located(u.dataId)
  PROVE  UploadRowsOK(k)'
<1>1. acceptedUploads[k] \subseteq Uploads
  BY DEF SystemInv, DaemonTypeOK
<1>2. ASSUME NEW u \in acceptedUploads[k] PROVE UploadPending(k, u)' \/ Located(u.dataId)'
  <2>1. u \in Uploads /\ u.dataId \in DataIds
    BY <1>1, DaemonAssumption DEF UploadRequest
  <2>2. UploadPending(k, u)' \/ Located(u.dataId)
    BY <2>1 DEF UploadRowsOK
  <2>3. Located(u.dataId) => Located(u.dataId)'
    BY <2>1, LocatedStays
  <2>4. QED
    BY <2>2, <2>3
<1>3. QED
  BY <1>2 DEF UploadRowsOK

LEMMA UploadStageStep ==
  ASSUME SystemInv, [Next]_vars, NEW n \in Daemons, DaemonStep(n) \/ Crash(n), UploadStageOK(n)
  PROVE  UploadStageOK(n)'
<1>1. TypeOK /\ DaemonTypeOK /\ PhasesOK
  BY DEF SystemInv, RegistryInv
<1>2. /\ phase \in [Daemons -> CallPhases \cup TaskPhases \cup ResultPhases \cup UploadPhases]
      /\ dataReferences \in [DataIds -> DataReference]
      /\ dataStorageNodes \in [DataIds -> SUBSET Nodes]
  BY <1>1 DEF DaemonTypeOK, TypeOK
<1>3. ASSUME phase'[n] \notin {"uploadLocations", "uploadMark"} PROVE UploadStageOK(n)'
  BY <1>3 DEF UploadStageOK
<1>4. CASE EndsCall(n)
  BY <1>2, <1>3, <1>4 DEF EndsCall, CallPhases
<1>5. CASE PollWalk(n)
  BY <1>2, <1>3, <1>5 DEF PollWalk, ReadTask, Walks
<1>6. CASE ResultWalk(n)
  <2>1. \E p \in ResultPhases : phase' = [phase EXCEPT ![n] = p]
    BY <1>1, <1>6, ResultWalkFacts
  <2>2. QED
    BY <1>2, <1>3, <2>1 DEF ResultPhases
<1>7. CASE UploadWalk(n) /\ Quiet
  <2>1. pendingUploads[n] # <<>> /\ NextUpload(n)' = NextUpload(n)
    BY <1>1, <1>7, UploadWalkFacts DEF Quiet, uploadVars, NextUpload
  <2>2. PICK d \in DataIds : d = NextUpload(n).dataId
    BY <1>1, <2>1, HeadUpload
  <2>3. ASSUME phase'[n] = "uploadLocations" => Available(d)',
               phase'[n] = "uploadMark" => Located(d)'
        PROVE  UploadStageOK(n)'
    <3>1. NextUpload(n)'.dataId = d
      BY <2>1, <2>2
    <3>2. (Available(NextUpload(n).dataId))' = Available(d)'
          /\ (Located(NextUpload(n).dataId))' = Located(d)'
      BY <3>1 DEF Available, Located
    <3>3. QED
      BY <2>3, <3>2 DEF UploadStageOK
  <2>4. CASE ReadUpload(n)
    <3>1. phase'[n] # "uploadMark" /\ (phase'[n] = "uploadLocations" => Available(d))
      BY <1>2, <2>1, <2>2, <2>4 DEF ReadUpload, Goto
    <3>2. Available(d) => Available(d)'
      BY LocatedStays
    <3>3. QED
      BY <2>3, <3>1, <3>2
  <2>5. CASE Walks(n, "uploadKey", "uploadKeyLocations") \/ Walks(n, "uploadKeyLocations", "uploadData")
    BY <1>2, <1>3, <2>5 DEF Walks
  <2>6. CASE RegisterUpload(n, "confirmed") /\ Walks(n, "uploadData", "uploadLocations")
    <3>1. phase'[n] = "uploadLocations"
      BY <1>2, <2>6 DEF Walks
    <3>2. ASSUME NEW owner, NEW r, NEW key, RegisterData(n, owner, d, r, key, {n}, 1)
          PROVE  Available(d)'
      BY <1>2, <3>2 DEF RegisterData, Available
    <3>3. Available(d)'
      BY <2>2, <2>6, <3>2 DEF RegisterUpload, Send, OnControl
    <3>4. QED
      BY <2>3, <3>1, <3>3
  <2>7. CASE PublishUpload(n, "confirmed") /\ Walks(n, "uploadLocations", "uploadMark")
    <3>1. phase'[n] = "uploadMark" /\ Available(d)
      BY <1>2, <2>2, <2>7 DEF Walks, UploadStageOK
    <3>2. Available(d)'
      BY <3>1, LocatedStays
    <3>3. dataStorageNodes'[d] # {}
      <4>1. CASE dataStorageNodes[d] # {} /\ Chain
        BY <4>1 DEF Chain, vars
      <4>2. CASE RegisterDataLocations(n, d, {n})
        BY <1>2, <4>2 DEF RegisterDataLocations
      <4>3. QED
        BY <2>2, <2>7, <4>1, <4>2 DEF PublishUpload, Send, OnControl
    <3>4. QED
      BY <2>3, <3>1, <3>2, <3>3 DEF Located
  <2>8. QED
    BY <1>7, <2>4, <2>5, <2>6, <2>7 DEF UploadWalk
<1>8. QED
  BY <1>4, <1>5, <1>6, <1>7, StepKinds

LEMMA UploadStep == SystemInv /\ UploadInv /\ [DaemonNext]_allVars => UploadInv'
<1> SUFFICES ASSUME SystemInv, UploadInv, [DaemonNext]_allVars PROVE UploadInv'
  OBVIOUS
<1>1. TypeOK /\ DaemonTypeOK /\ PhasesOK /\ [Next]_vars
  BY SystemStep DEF SystemInv, RegistryInv
<1>2. LocationsInv' /\ UploadsAreOwned' /\ QueuesAreAccepted'
  BY <1>1, LocationsStep, UploadsOwnedStep, QueuesStep DEF UploadInv, SystemInv
<1>3. SUFFICES ASSUME NEW k \in Daemons PROVE UploadStageOK(k)' /\ UploadRowsOK(k)'
  BY <1>2 DEF UploadInv
<1>4. UploadStageOK(k) /\ UploadRowsOK(k)
  BY DEF UploadInv
<1>5. phase[k] \in {"uploadLocations", "uploadMark"} => pendingUploads[k] # <<>>
  BY <1>1 DEF PhasesOK, UploadPhases
<1>6. ASSUME acceptedUploads'[k] = acceptedUploads[k], pendingUploads'[k] = pendingUploads[k]
      PROVE  UploadRowsOK(k)'
  BY <1>1, <1>4, <1>6, UploadRowsKept DEF UploadPending
<1>7. ASSUME phase'[k] = phase[k], acceptedUploads'[k] = acceptedUploads[k],
             pendingUploads'[k] = pendingUploads[k]
      PROVE  UploadStageOK(k)' /\ UploadRowsOK(k)'
  <2>1. NextUpload(k)' = NextUpload(k)
    BY <1>7 DEF NextUpload
  <2>2. QED
    BY <1>1, <1>4, <1>5, <1>6, <1>7, <2>1, UploadStageKept
<1>8. ASSUME NEW n \in Daemons, DaemonStep(n) \/ Crash(n)
      PROVE  UploadStageOK(k)' /\ UploadRowsOK(k)'
  <2>1. CASE n # k
    <3>1. phase'[k] = phase[k]
      BY <1>1, <1>8, <2>1, OthersKept
    <3>2. acceptedUploads'[k] = acceptedUploads[k] /\ pendingUploads'[k] = pendingUploads[k]
      BY <1>1, <1>8, <2>1, StepKinds, CommitTypes
         DEF Quiet, uploadVars, PollWalk, ReadTask
    <3>3. QED
      BY <1>7, <3>1, <3>2
  <2>2. CASE n = k
    <3>1. UploadStageOK(k)'
      BY <1>1, <1>4, <1>8, <2>2, UploadStageStep
    <3>2. CASE MarkUploadRegistered(k)
      <4>1. /\ phase[k] = "uploadMark" /\ pendingUploads[k] # <<>>
            /\ pendingUploads' = [pendingUploads EXCEPT ![k] = Tail(@)]
            /\ acceptedUploads' = acceptedUploads
        BY <1>5, <3>2 DEF MarkUploadRegistered, At
      <4>2. Located(NextUpload(k).dataId)
        BY <1>4, <4>1 DEF UploadStageOK
      <4>3. \A u \in Uploads : UploadPending(k, u) => u = NextUpload(k) \/ UploadPending(k, u)'
        BY <1>1, <4>1, PendingTail
      <4>4. \A u \in Uploads : UploadPending(k, u) => UploadPending(k, u)' \/ Located(u.dataId)
        BY <4>2, <4>3
      <4>5. QED
        BY <1>1, <1>4, <3>1, <4>1, <4>4, UploadRowsKept
    <3>3. CASE Quiet \/ SkipTask(k) \/ CommitComputation(k) \/ MarkSubmitted(k) \/ PollWalk(k)
      <4>1. UNCHANGED <<acceptedUploads, pendingUploads>>
        BY <3>3 DEF Quiet, SkipTask, CommitComputation, MarkSubmitted, PollWalk, ReadTask, uploadVars
      <4>2. QED
        BY <1>6, <3>1, <4>1
    <3>4. QED
      BY <1>8, <2>2, <3>2, <3>3, StepKinds
  <2>3. QED
    BY <2>1, <2>2
<1>9. ASSUME NEW n \in Daemons, NEW upload \in Uploads, AcceptUpload(n, upload)
      PROVE  UploadStageOK(k)' /\ UploadRowsOK(k)'
  <2>1. /\ phase' = phase
        /\ acceptedUploads' = [acceptedUploads EXCEPT ![n] = @ \cup {upload}]
        /\ pendingUploads' = [pendingUploads EXCEPT ![n] = Append(@, upload)]
    BY <1>9 DEF AcceptUpload, loopVars
  <2>2. acceptedUploads \in [Daemons -> SUBSET Uploads]
    BY <1>1 DEF DaemonTypeOK
  <2>3. CASE n # k
    <3>1. acceptedUploads'[k] = acceptedUploads[k] /\ pendingUploads'[k] = pendingUploads[k]
      BY <1>1, <2>1, <2>2, <2>3, PendingAppend
    <3>2. QED
      BY <1>7, <2>1, <3>1
  <2>4. CASE n = k
    <3>1. /\ UploadPending(k, upload)'
          /\ \A u \in Uploads : UploadPending(k, u) => UploadPending(k, u)'
          /\ pendingUploads[k] # <<>> => NextUpload(k)' = NextUpload(k)
      BY <1>1, <2>1, <2>4, PendingAppend
    <3>2. UploadStageOK(k)'
      BY <1>1, <1>4, <1>5, <2>1, <3>1, UploadStageKept
    <3>3. acceptedUploads'[k] = acceptedUploads[k] \cup {upload}
      BY <2>1, <2>2, <2>4
    <3>4. ASSUME NEW u \in acceptedUploads[k]
          PROVE  UploadPending(k, u)' \/ Located(u.dataId)'
      <4>1. u \in Uploads /\ u.dataId \in DataIds
        BY <2>2, DaemonAssumption DEF UploadRequest
      <4>2. UploadPending(k, u) \/ Located(u.dataId)
        BY <1>4 DEF UploadRowsOK
      <4>3. QED
        BY <1>1, <3>1, <4>1, <4>2, LocatedStays
    <3>5. UploadRowsOK(k)'
      BY <3>1, <3>3, <3>4 DEF UploadRowsOK
    <3>6. QED
      BY <3>2, <3>5
  <2>5. QED
    BY <2>3, <2>4
<1>10. ASSUME Environment \/ UNCHANGED allVars
       PROVE  UploadStageOK(k)' /\ UploadRowsOK(k)'
  <2>1. UNCHANGED <<phase, acceptedUploads, pendingUploads>>
    BY <1>10 DEF Environment, daemonVars, allVars
  <2>2. QED
    BY <1>7, <2>1
<1>11. QED
  BY <1>8, <1>9, <1>10 DEF DaemonNext

(* An accepted upload is in the queue until it is registered for its owner, *)
(* and located at a daemon that accepted it, whatever the daemons crash on  *)
(* and whichever of them is faster to register it; unless another account   *)
(* was faster to take the id.                                               *)
THEOREM UploadsReachTheChain == DaemonSpec => []UploadsAreLocated
<1>1. DaemonInit => UploadInv
  <2>1. \A u \in Uploads : u.dataId \in DataIds
    BY DaemonAssumption DEF UploadRequest
  <2>2. DaemonInit => QueuesAreAccepted
    BY DEF DaemonInit, QueuesAreAccepted, UploadPending
  <2>3. QED
    BY <2>1, <2>2, DeploymentOK
       DEF DaemonInit, UploadInv, UploadsAreOwned, UploadStageOK, UploadRowsOK, Available
<1>2. SystemInv /\ UploadInv => UploadsAreLocated
  <2> SUFFICES ASSUME SystemInv, UploadInv, NEW n \in Daemons, NEW u \in acceptedUploads[n],
                      ~UploadPending(n, u)
               PROVE  /\ Available(u.dataId) /\ dataStorageNodes[u.dataId] # {}
                      /\ \/ Preempted(u.dataId)
                         \/ dataReferences[u.dataId].owner = u.owner /\ HeldByDaemon(u.dataId)
    BY DEF UploadsAreLocated, UploadPending
  <2>1. u \in Uploads /\ u.dataId \in DataIds
    BY DaemonAssumption DEF SystemInv, DaemonTypeOK, UploadRequest
  <2>2. Located(u.dataId)
    BY DEF UploadInv, UploadRowsOK
  <2>3. dataStorageNodes[u.dataId] = dataReferences[u.dataId].storageSetRoot
    BY <2>1, <2>2 DEF UploadInv, LocationsInv, LocationsMatchRoot, Located
  <2>4. TakenByDaemon(u) => HeldByDaemon(u.dataId)
    BY <2>3 DEF TakenByDaemon, HeldByDaemon
  <2>5. QED
    BY <2>1, <2>2, <2>4 DEF UploadInv, UploadsAreOwned, Located, TakenByDaemon
<1>3. QED
  BY <1>1, <1>2, UploadStep, SystemAlways, PTL DEF DaemonSpec

-----------------------------------------------------------------------------
(* What the steps of the system do to the chain *)

(* The transactions that complete an execution, move a binding or open a    *)
(* result are a daemon's, for the head of its outbox.                       *)
Submits(n) ==
  /\ phase[n] = "result" /\ outbox[n] # <<>>
  /\ \E r \in Representations, key \in DataIds \cup {None} :
       SubmitResult(n, NextPending(n).execution, Output(n), r, key, {n}, 1, NewRoot(n), {n})
Declares(n) ==
  /\ phase[n] = "declare" /\ outbox[n] # <<>>
  /\ \E v \in VariablesToVisit(n) : DeclareStateVariable(n, DaemonContract, v, Output(n))
  /\ UNCHANGED openingResults
Updates(n) ==
  /\ phase[n] = "update" /\ outbox[n] # <<>>
  /\ UpdateStateVariablesAfterResult(n, NextPending(n).execution, memory[n].existing, {n})
  /\ UNCHANGED openingResults
Opens(n) ==
  /\ phase[n] = "open" /\ outbox[n] # <<>>
  /\ FulfillOpening(n, NextPending(n).execution, NextPending(n).basis)

Invokes(e) ==
  /\ \E t \in Times :
       Invoke(ContractOwner[ContractOf(e)], e, Call[e].selector, Call[e].inputs, t)
  /\ UNCHANGED daemonVars

(* Nothing is requested or completed, and no output changes.                *)
Settled ==
  /\ UNCHANGED <<contracts, requests, executionIds>>
  /\ \A e \in ExecutionIds : /\ Completed(e)' <=> Completed(e)
                             /\ Requested(e)' <=> Requested(e)
                             /\ executions'[e].outputId = executions[e].outputId
BindingsSame == UNCHANGED <<stateVariables, updatesFinalized, openingResults>>

LEMMA SettledFrame ==
  UNCHANGED <<contracts, requests, executionIds, executions>> => Settled
BY DEF Settled, Completed, Requested

(* The moves of an execution between committees.                            *)
LEMMA CommitteeMoves ==
  ASSUME TypeOK, NEW sender, NEW e \in ExecutionIds,
         \/ \E k : AssignCommittee(sender, e, k) \/ BeginHandoff(sender, e, k)
         \/ MarkRunning(sender, e)
         \/ \E signers : FinalizeHandoff(sender, e, signers)
  PROVE  Settled /\ UNCHANGED <<stateVariables, updatesFinalized>>
<1>1. executions \in [ExecutionIds -> Execution]
  BY DEF TypeOK
<1>2. ASSUME NEW x, executions' = [executions EXCEPT ![e] = x], x.outputId = executions[e].outputId,
             executions[e].status \notin {"None", "Completed"} \/ executions[e].status = "Requested",
             x.status \notin {"None", "Completed"},
             UNCHANGED <<contracts, requests, executionIds>>
      PROVE  Settled
  BY <1>1, <1>2 DEF Settled, Completed, Requested
<1>3. ASSUME NEW k, AssignCommittee(sender, e, k) \/ BeginHandoff(sender, e, k)
      PROVE  Settled /\ UNCHANGED <<stateVariables, updatesFinalized>>
  <2>1. CASE AssignCommittee(sender, e, k)
    <3> DEFINE x == [executions[e] EXCEPT !.status = "CommitteeAssigned", !.currentCommitteeId = k]
    <3>1. executions' = [executions EXCEPT ![e] = x]
      BY <1>1, <2>1 DEF AssignCommittee, Execution
    <3>2. x.outputId = executions[e].outputId /\ x.status = "CommitteeAssigned"
      BY <1>1 DEF Execution
    <3>3. /\ executions[e].status = "Requested"
          /\ UNCHANGED <<contracts, requests, executionIds, stateVariables, updatesFinalized>>
      BY <2>1 DEF AssignCommittee, codeVars, requestVars, bindingVars
    <3> HIDE DEF x
    <3>4. QED
      BY <1>2, <3>1, <3>2, <3>3
  <2>2. CASE BeginHandoff(sender, e, k)
    <3> DEFINE x == [executions[e] EXCEPT !.status = "Handoff", !.nextCommitteeId = k]
    <3>1. executions' = [executions EXCEPT ![e] = x]
      BY <1>1, <2>2 DEF BeginHandoff, Execution
    <3>2. x.outputId = executions[e].outputId /\ x.status = "Handoff"
      BY <1>1 DEF Execution
    <3>3. /\ executions[e].status = "Running"
          /\ UNCHANGED <<contracts, requests, executionIds, stateVariables, updatesFinalized>>
      BY <2>2 DEF BeginHandoff, codeVars, requestVars, bindingVars
    <3> HIDE DEF x
    <3>4. QED
      BY <1>2, <3>1, <3>2, <3>3
  <2>3. QED
    BY <1>3, <2>1, <2>2
<1>4. CASE MarkRunning(sender, e)
  <2> DEFINE x == [executions[e] EXCEPT !.status = "Running"]
  <2>1. executions' = [executions EXCEPT ![e] = x]
    BY <1>1, <1>4 DEF MarkRunning, Execution
  <2>2. x.outputId = executions[e].outputId /\ x.status = "Running"
    BY <1>1 DEF Execution
  <2>3. /\ executions[e].status = "CommitteeAssigned"
        /\ UNCHANGED <<contracts, requests, executionIds, stateVariables, updatesFinalized>>
    BY <1>4 DEF MarkRunning, codeVars, requestVars, bindingVars
  <2> HIDE DEF x
  <2>4. QED
    BY <1>2, <2>1, <2>2, <2>3
<1>5. ASSUME NEW signers, FinalizeHandoff(sender, e, signers)
      PROVE  Settled /\ UNCHANGED <<stateVariables, updatesFinalized>>
  <2> DEFINE x == HandedOff(executions[e])
  <2>1. executions' = [executions EXCEPT ![e] = x]
    BY <1>1, <1>5 DEF FinalizeHandoff
  <2>2. x.outputId = executions[e].outputId /\ x.status = "Running"
    BY <1>1 DEF Execution, HandedOff
  <2>3. /\ executions[e].status = "Handoff"
        /\ UNCHANGED <<contracts, requests, executionIds, stateVariables, updatesFinalized>>
    BY <1>5 DEF FinalizeHandoff, codeVars, requestVars, bindingVars
  <2> HIDE DEF x
  <2>4. QED
    BY <1>2, <2>1, <2>2, <2>3
<1>6. QED
  BY <1>3, <1>4, <1>5

LEMMA RemoteMoves ==
  ASSUME SystemInv, NEW n \in Daemons, NEW answer, Remote(n, answer)
  PROVE  /\ Quiet
         /\ \/ Settled /\ BindingsSame
            \/ Submits(n) /\ BindingsSame
            \/ (Declares(n) \/ Updates(n) \/ Opens(n)) /\ Settled
<1>1. TypeOK /\ DaemonTypeOK /\ PhasesOK
  BY DEF SystemInv, RegistryInv
<1>2. Quiet
  BY DEF Remote, Quiet, AssignTask, RunTask, EnsureResultKey, SubmitTask, VisitVariable,
     UpdateVariables, OpenResult, EnsureUploadKey, RegisterUpload, PublishUpload
<1>3. Chain => Settled /\ BindingsSame
  BY SettledFrame DEF Chain, vars, BindingsSame
<1>4. phase[n] \in ResultPhases => outbox[n] # <<>>
  BY <1>1 DEF PhasesOK
<1>5. CASE AssignTask(n, answer) \/ RunTask(n, answer)
  <2>1. HasTask(n)
    BY <1>1, <1>5 DEF AssignTask, RunTask, At, PhasesOK, TaskPhases
  <2>2. NextTask(n) \in ExecutionIds
    BY <1>1, <2>1, CursorTask
  <2>3. \/ AssignCommittee(n, NextTask(n), ActiveCommittee[n])
        \/ MarkRunning(n, NextTask(n))
    BY <1>5 DEF AssignTask, RunTask, Send, OnControl
  <2>4. UNCHANGED openingResults
    BY <1>5 DEF AssignTask, RunTask, Send, OnControl
  <2>5. QED
    BY <1>1, <1>2, <2>2, <2>3, <2>4, CommitteeMoves DEF BindingsSame
<1>6. CASE EnsureResultKey(n, answer) \/ EnsureUploadKey(n, answer) \/ RegisterUpload(n, answer)
             \/ PublishUpload(n, answer)
  <2>1. UNCHANGED <<contracts, requests, executionIds, executions, stateVariables,
                    updatesFinalized, openingResults>>
    BY <1>6 DEF EnsureResultKey, EnsureUploadKey, RegisterUpload, PublishUpload, Send, OnControl,
       RegisterKey, PublishKey, RegisterData, RegisterDataLocations, codeVars, requestVars,
       bindingVars, Chain, vars
  <2>2. QED
    BY <1>2, <2>1, SettledFrame DEF BindingsSame
<1>7. CASE SubmitTask(n, answer)
  <2> DEFINE e == NextPending(n).execution
             representation == IF Encrypted(n) THEN "FHE" ELSE "SecretSharing"
             key == IF Encrypted(n) THEN KeyOf[Requester(n)] ELSE None
  <2>1. phase[n] = "result" /\ outbox[n] # <<>>
    BY <1>4, <1>7 DEF SubmitTask, At, ResultPhases
  <2>2. representation \in Representations /\ key \in DataIds \cup {None}
    BY <1>1, <2>1, HeadRow DEF Representations
  <2>3. \/ Chain
        \/ /\ SubmitResult(n, e, Output(n), representation, key, {n}, 1, NewRoot(n), {n})
           /\ UNCHANGED openingResults
    BY <1>7 DEF SubmitTask, Send, OnControl
  <2> HIDE DEF representation, key
  <2>4. QED
    BY <1>2, <1>3, <2>1, <2>2, <2>3 DEF Submits, SubmitResult, BindingsSame, bindingVars
<1>8. CASE VisitVariable(n, answer)
  <2>1. phase[n] = "declare" /\ outbox[n] # <<>>
    BY <1>4, <1>8 DEF VisitVariable, At, ResultPhases
  <2>2. Chain \/ Declares(n)
    BY <1>8, <2>1 DEF VisitVariable, Send, OnControl, Declares
  <2>3. Declares(n) => Settled
    BY SettledFrame DEF Declares, DeclareStateVariable, codeVars, requestVars
  <2>4. QED
    BY <1>2, <1>3, <2>2, <2>3
<1>9. CASE UpdateVariables(n, answer)
  <2>1. phase[n] = "update" /\ outbox[n] # <<>>
    BY <1>4, <1>9 DEF UpdateVariables, At, ResultPhases
  <2>2. Chain \/ Updates(n)
    BY <1>9, <2>1 DEF UpdateVariables, Send, OnControl, Updates
  <2>3. Updates(n) => Settled
    BY SettledFrame DEF Updates, UpdateStateVariablesAfterResult, codeVars, requestVars
  <2>4. QED
    BY <1>2, <1>3, <2>2, <2>3
<1>10. CASE OpenResult(n, answer)
  <2>1. phase[n] = "open" /\ outbox[n] # <<>>
    BY <1>4, <1>10 DEF OpenResult, At, ResultPhases
  <2>2. Chain \/ Opens(n)
    BY <1>10, <2>1 DEF OpenResult, Send, Opens
  <2>3. Opens(n) => Settled
    BY SettledFrame DEF Opens, FulfillOpening, vars
  <2>4. QED
    BY <1>2, <1>3, <2>2, <2>3
<1>11. QED
  BY <1>5, <1>6, <1>7, <1>8, <1>9, <1>10 DEF Remote

LEMMA SystemMoves ==
  ASSUME SystemInv, [DaemonNext]_allVars
  PROVE  \/ Settled /\ BindingsSame
         \/ \E n \in Daemons : Submits(n) /\ BindingsSame /\ Quiet
         \/ \E n \in Daemons : (Declares(n) \/ Updates(n) \/ Opens(n)) /\ Settled /\ Quiet
         \/ \E e \in ExecutionIds : Invokes(e) /\ BindingsSame
<1>1. TypeOK
  BY DEF SystemInv, RegistryInv
<1>2. Chain => Settled /\ BindingsSame
  BY SettledFrame DEF Chain, vars, BindingsSame
<1>3. ASSUME NEW n \in Daemons, Local(n) \/ ReturnError(n) \/ Crash(n) PROVE Chain
  BY <1>3 DEF Local, ReturnError, Crash, Idle, ReadTask, SkipTask, KeepTask,
     CommitComputation, ReadOutbox, MarkSubmitted, ReadUpload, MarkUploadRegistered
<1>4. ASSUME NEW n \in Daemons, NEW upload \in Uploads, AcceptUpload(n, upload) PROVE Chain
  BY <1>4 DEF AcceptUpload
<1>5. CASE Environment
  <2>1. ASSUME NEW e \in ExecutionIds, NEW t \in Times,
               Invoke(ContractOwner[ContractOf(e)], e, Call[e].selector, Call[e].inputs, t)
        PROVE  Invokes(e) /\ BindingsSame
    BY <1>5, <2>1 DEF Environment, Invokes, Invoke, BindingsSame, bindingVars
  <2>2. CASE (\E next \in RuntimeAccounts \ {runtime} : SetRuntime(Admin, next)) \/ Tick
    BY <1>5, <2>2, SettledFrame
       DEF Environment, SetRuntime, Tick, codeVars, requestVars, bindingVars, BindingsSame
  <2>3. CASE \/ \E e \in ExecutionIds, k \in CommitteeIds : BeginHandoff(runtime, e, k)
             \/ \E e \in ExecutionIds, n \in Nodes : FinalizeHandoff(runtime, e, {n})
    BY <1>1, <1>5, <2>3, CommitteeMoves DEF Environment, BindingsSame
  <2>4. CASE \E r \in Registrations : RegisterOutside(r)
    <3>1. UNCHANGED <<codeVars, requestVars, executions, bindingVars>>
      BY <2>4 DEF RegisterOutside, RegisterData, RegisterDataLocations, codeVars, requestVars,
                  bindingVars
    <3>2. UNCHANGED openingResults
      BY <1>5 DEF Environment
    <3>3. QED
      BY <3>1, <3>2, SettledFrame DEF codeVars, requestVars, bindingVars, BindingsSame
  <2>5. QED
    BY <1>5, <2>1, <2>2, <2>3, <2>4 DEF Environment
<1>6. CASE UNCHANGED allVars
  BY <1>6, SettledFrame DEF allVars, vars, BindingsSame
<1>7. QED
  BY <1>2, <1>3, <1>4, <1>5, <1>6, RemoteMoves DEF DaemonNext, DaemonStep

-----------------------------------------------------------------------------
(* One daemon.  Its cells run ahead of the chain by the results in its      *)
(* outbox, which it submits in order; a second one would skip what the      *)
(* first has completed and keep its own cells as they were.                 *)

(* A result that the chain takes, and a request.                            *)
LEMMA SubmitFacts ==
  ASSUME SystemInv, NEW n \in Daemons, Submits(n), NEW e, e = NextPending(n).execution
  PROVE  /\ e \in ExecutionIds /\ ContractOf(e) \in ContractIds
         /\ executions[e].status = "Running"
         /\ contracts[ContractOf(e)].stateRoot = requests[e].oldStateRoot
         /\ UNCHANGED <<requests, executionIds>>
         /\ contracts'[ContractOf(e)].stateRoot =
              (IF Writes(n) = {} THEN requests[e].oldStateRoot ELSE e)
         /\ \A c \in ContractIds \ {ContractOf(e)} : contracts'[c] = contracts[c]
         /\ \A f \in ExecutionIds \ {e} : executions'[f] = executions[f]
         /\ executions'[e].status = "Completed" /\ executions'[e].outputId = Output(n)
<1>1. TypeOK /\ DaemonTypeOK
  BY DEF SystemInv, RegistryInv
<1>2. /\ executions \in [ExecutionIds -> Execution]
      /\ contracts \in [ContractIds -> ConfidentialContract]
  BY <1>1 DEF TypeOK
<1>3. e \in ExecutionIds
  BY <1>1, HeadRow DEF Submits
<1>4. ContractOf(e) \in ContractIds
  BY <1>3 DEF ExecutionIds, ContractOf
<1>5. NewRoot(n) = IF Writes(n) = {} THEN requests[e].oldStateRoot ELSE e
  BY DEF NewRoot, DerivedRoot
<1>6. PICK r \in Representations, key \in DataIds \cup {None} :
        SubmitResult(n, e, Output(n), r, key, {n}, 1, NewRoot(n), {n})
  BY DEF Submits
<1>7. /\ executions[e].status = "Running"
      /\ contracts[ContractOf(e)].stateRoot = requests[e].oldStateRoot
      /\ UNCHANGED <<requests, executionIds>>
  BY <1>6 DEF SubmitResult, Submittable, OldRootIsCurrent, requestVars
<1>8. /\ contracts'[ContractOf(e)].stateRoot = NewRoot(n)
      /\ \A c \in ContractIds \ {ContractOf(e)} : contracts'[c] = contracts[c]
  BY <1>2, <1>4, <1>6 DEF SubmitResult, ConfidentialContract
<1>9. /\ \A f \in ExecutionIds \ {e} : executions'[f] = executions[f]
      /\ executions'[e].status = "Completed" /\ executions'[e].outputId = Output(n)
  BY <1>2, <1>3, <1>6 DEF SubmitResult, CompletedExecution, Execution
<1>10. QED
  BY <1>3, <1>4, <1>5, <1>7, <1>8, <1>9

LEMMA InvokeFacts ==
  ASSUME SystemInv, NEW e \in ExecutionIds, Invokes(e)
  PROVE  /\ executions[e].status = "None" /\ executions'[e].status = "Requested"
         /\ executions'[e].outputId = executions[e].outputId
         /\ \A f \in ExecutionIds \ {e} :
              executions'[f] = executions[f] /\ requests'[f] = requests[f]
         /\ ContractOf(e) \in ContractIds
         /\ requests'[e].oldStateRoot = contracts[ContractOf(e)].stateRoot
         /\ executionIds' = Append(executionIds, e)
         /\ contracts' = contracts
<1>1. TypeOK
  BY DEF SystemInv, RegistryInv
<1>2. executions \in [ExecutionIds -> Execution] /\ requests \in [ExecutionIds -> Request]
  BY <1>1 DEF TypeOK
<1>3. PICK t \in Times : Invoke(ContractOwner[ContractOf(e)], e, Call[e].selector, Call[e].inputs, t)
  BY DEF Invokes
<1>4. /\ executions[e].status = "None"
      /\ executions' = [executions EXCEPT ![e].status = "Requested"]
      /\ executionIds' = Append(executionIds, e) /\ contracts' = contracts
  BY <1>3 DEF Invoke, codeVars
<1>5. /\ \A f \in ExecutionIds \ {e} : requests'[f] = requests[f]
      /\ requests'[e].oldStateRoot = contracts[ContractOf(e)].stateRoot
  BY <1>2, <1>3 DEF Invoke
<1>6. /\ executions'[e].status = "Requested"
      /\ executions'[e].outputId = executions[e].outputId
      /\ \A f \in ExecutionIds \ {e} : executions'[f] = executions[f]
  BY <1>2, <1>4 DEF Execution
<1>7. ContractOf(e) \in ContractIds
  BY DEF ExecutionIds, ContractOf
<1>8. QED
  BY <1>4, <1>5, <1>6, <1>7

-----------------------------------------------------------------------------
(* The chain of accepted writes *)

(* The queue holds each requested execution once.                           *)
QueueOK ==
  /\ \A i, j \in DOMAIN executionIds : executionIds[i] = executionIds[j] => i = j
  /\ \A i \in DOMAIN executionIds : Requested(executionIds[i])
  /\ \A e \in ExecutionIds : Requested(e) => \E i \in DOMAIN executionIds : executionIds[i] = e

(* A root that an execution wrote is older in the queue than the requests   *)
(* that start from it.                                                      *)
RootsAreOlder ==
  /\ \A c \in ContractIds :
       contracts[c].stateRoot \in ExecutionIds => Requested(contracts[c].stateRoot)
  /\ \A i \in DOMAIN executionIds :
       requests[executionIds[i]].oldStateRoot \in ExecutionIds =>
         \E j \in 1..(i - 1) : executionIds[j] = requests[executionIds[i]].oldStateRoot
  /\ \A e \in ExecutionIds : ~Requested(e) => requests[e].oldStateRoot = ZeroRoot

\* g solves the equation that defines WriterAt.
WriterEquation(g) ==
  g = [root \in Roots |->
        [v \in Variables |->
           IF root \notin ExecutionIds THEN None
           ELSE IF v \in Call[root].writes THEN root
           ELSE g[requests[root].oldStateRoot][v]]]

ChainInv == QueueOK /\ RootsAreOlder /\ \E g : WriterEquation(g)

LEMMA WriterSolves == ChainInv => WriterEquation(WriterAt)
<1> DEFINE w == CHOOSE g : WriterEquation(g)
<1>1. ChainInv => WriterEquation(w)
  BY DEF ChainInv
<1>2. WriterAt = w
  BY DEF WriterAt, WriterEquation
<1>3. QED
  BY <1>1, <1>2

LEMMA ZeroIsNoExecution == ZeroRoot \notin ExecutionIds /\ ZeroRoot \in Roots /\ ExecutionIds \subseteq Roots
BY NullAssumption DEF Roots

(* What the equation says at a root.                                        *)
LEMMA WriterCases ==
  ASSUME NEW g, WriterEquation(g), NEW root \in Roots, NEW v \in Variables
  PROVE  /\ root \notin ExecutionIds => g[root][v] = None
         /\ root \in ExecutionIds /\ v \in Call[root].writes => g[root][v] = root
         /\ root \in ExecutionIds /\ v \notin Call[root].writes =>
              g[root][v] = g[requests[root].oldStateRoot][v]
BY DEF WriterEquation

(* The equation has one solution: of the roots at which two differ, take    *)
(* the oldest in the queue.                                                 *)
LEMMA OneSolution ==
  ASSUME SystemInv, QueueOK, RootsAreOlder,
         NEW g, WriterEquation(g), NEW h, WriterEquation(h), NEW root \in Roots
  PROVE  g[root] = h[root]
<1>1. executionIds \in Seq(ExecutionIds) /\ requests \in [ExecutionIds -> Request]
  BY DEF SystemInv, RegistryInv, TypeOK
<1> DEFINE T == {i \in DOMAIN executionIds : g[executionIds[i]] # h[executionIds[i]]}
<1>2. DOMAIN executionIds = 1..Len(executionIds) /\ Len(executionIds) \in Nat
  BY <1>1
<1>3. ASSUME NEW r \in Roots, r \in ExecutionIds => g[requests[r].oldStateRoot] = h[requests[r].oldStateRoot]
      PROVE  g[r] = h[r]
  <2>1. \A v \in Variables :
          g[r][v] = (IF r \notin ExecutionIds THEN None
                     ELSE IF v \in Call[r].writes THEN r ELSE g[requests[r].oldStateRoot][v])
        /\ h[r][v] = (IF r \notin ExecutionIds THEN None
                      ELSE IF v \in Call[r].writes THEN r ELSE h[requests[r].oldStateRoot][v])
    BY WriterCases
  <2>2. g[r] = [v \in Variables |-> g[r][v]] /\ h[r] = [v \in Variables |-> h[r][v]]
    BY DEF WriterEquation
  <2>3. \A v \in Variables : g[r][v] = h[r][v]
    BY <1>3, <2>1
  <2>4. QED
    BY <2>2, <2>3
<1>4. \A r \in Roots \ ExecutionIds : g[r] = h[r]
  BY <1>3
<1>5. T = {}
  <2> SUFFICES ASSUME T # {} PROVE FALSE
    OBVIOUS
  <2>1. T \subseteq Nat
    BY <1>2
  <2> HIDE DEF T
  <2>2. PICK i \in T : \A j \in T : i <= j
    BY <2>1, LeastNumber
  <2> USE DEF T
  <2>3. i \in DOMAIN executionIds /\ executionIds[i] \in ExecutionIds /\ i \in Nat
    BY <1>1, <1>2, <2>2
  <2> DEFINE old == requests[executionIds[i]].oldStateRoot
  <2>4. old \in Roots
    BY <1>1, <2>3 DEF Request
  <2>5. g[old] = h[old]
    <3>1. CASE old \notin ExecutionIds
      BY <1>4, <2>4, <3>1
    <3>2. CASE old \in ExecutionIds
      <4>1. PICK j \in 1..(i - 1) : executionIds[j] = old
        BY <2>3, <3>2 DEF RootsAreOlder
      <4>2. j \in DOMAIN executionIds /\ ~(i <= j)
        BY <1>2, <2>3, <4>1
      <4>3. QED
        BY <2>2, <4>1, <4>2
    <3>3. QED
      BY <3>1, <3>2
  <2>6. g[executionIds[i]] = h[executionIds[i]]
    BY <1>3, <2>3, <2>5, ZeroIsNoExecution
  <2>7. QED
    BY <2>2, <2>6
<1>6. CASE root \notin ExecutionIds
  BY <1>4, <1>6
<1>7. CASE root \in ExecutionIds /\ Requested(root)
  BY <1>5, <1>7 DEF QueueOK
<1>8. CASE root \in ExecutionIds /\ ~Requested(root)
  <2>1. requests[root].oldStateRoot = ZeroRoot
    BY <1>8 DEF RootsAreOlder
  <2>2. g[ZeroRoot] = h[ZeroRoot]
    BY <1>4, ZeroIsNoExecution
  <2>3. QED
    BY <1>3, <2>1, <2>2
<1>9. QED
  BY <1>6, <1>7, <1>8
(* What a step does to the state of the contracts.                          *)
ChainMoves ==
  \/ Settled
  \/ \E n \in Daemons : Submits(n)
  \/ \E e \in ExecutionIds : Invokes(e)

LEMMA QueueStep ==
  ASSUME SystemInv, QueueOK, RootsAreOlder, ChainMoves
  PROVE  QueueOK' /\ RootsAreOlder'
<1>1. /\ executionIds \in Seq(ExecutionIds) /\ requests \in [ExecutionIds -> Request]
      /\ contracts \in [ContractIds -> ConfidentialContract]
  BY DEF SystemInv, RegistryInv, TypeOK
<1>2. /\ DOMAIN executionIds = 1..Len(executionIds) /\ Len(executionIds) \in Nat
      /\ \A i \in DOMAIN executionIds : executionIds[i] \in ExecutionIds
  BY <1>1
<1>3. ASSUME UNCHANGED <<requests, executionIds>>,
             \A e \in ExecutionIds : Requested(e)' <=> Requested(e),
             \A c \in ContractIds : contracts'[c].stateRoot \in ExecutionIds =>
               Requested(contracts'[c].stateRoot)
      PROVE  QueueOK' /\ RootsAreOlder'
  <2>1. QueueOK'
    BY <1>2, <1>3 DEF QueueOK
  <2>2. \A c \in ContractIds : contracts'[c].stateRoot \in ExecutionIds =>
           Requested(contracts[c].stateRoot)'
    <3> SUFFICES ASSUME NEW c \in ContractIds, NEW r \in ExecutionIds, r = contracts'[c].stateRoot
                 PROVE  Requested(r)'
      OBVIOUS
    <3>1. Requested(r)
      BY <1>3
    <3>2. QED
      BY <1>3, <3>1
  <2>3. \A i \in DOMAIN executionIds' :
           requests'[executionIds'[i]].oldStateRoot \in ExecutionIds =>
             \E j \in 1..(i - 1) : executionIds'[j] = requests'[executionIds'[i]].oldStateRoot
    BY <1>3 DEF RootsAreOlder
  <2>4. \A e \in ExecutionIds : ~Requested(e)' => requests'[e].oldStateRoot = ZeroRoot
    BY <1>3 DEF RootsAreOlder
  <2>5. QED
    BY <2>1, <2>2, <2>3, <2>4 DEF RootsAreOlder
<1>4. CASE Settled
  BY <1>3, <1>4 DEF Settled, RootsAreOlder
<1>5. ASSUME NEW n \in Daemons, Submits(n) PROVE QueueOK' /\ RootsAreOlder'
  <2>1. PICK e : e = NextPending(n).execution
    OBVIOUS
  <2>2. /\ e \in ExecutionIds /\ Requested(e) /\ Requested(e)'
        /\ UNCHANGED <<requests, executionIds>>
        /\ \A f \in ExecutionIds : Requested(f)' <=> Requested(f)
    BY <1>5, <2>1, SubmitFacts DEF Requested
  <2>3. ASSUME NEW c \in ContractIds, contracts'[c].stateRoot \in ExecutionIds
        PROVE  Requested(contracts'[c].stateRoot)
    <3>1. contracts'[c].stateRoot \in {e, contracts[c].stateRoot}
      BY <1>5, <2>1, SubmitFacts
    <3>2. QED
      BY <2>2, <2>3, <3>1 DEF RootsAreOlder
  <2>4. QED
    BY <1>3, <2>2, <2>3
<1>6. ASSUME NEW e \in ExecutionIds, Invokes(e) PROVE QueueOK' /\ RootsAreOlder'
  <2> DEFINE len == Len(executionIds)
  <2>1. /\ ~Requested(e) /\ Requested(e)' /\ contracts' = contracts
        /\ \A f \in ExecutionIds \ {e} : (Requested(f)' <=> Requested(f)) /\ requests'[f] = requests[f]
        /\ requests'[e].oldStateRoot = contracts[ContractOf(e)].stateRoot
        /\ ContractOf(e) \in ContractIds
        /\ executionIds' = Append(executionIds, e)
    BY <1>6, InvokeFacts DEF Requested
  <2>2. /\ DOMAIN executionIds' = 1..(len + 1) /\ len + 1 \in DOMAIN executionIds'
        /\ executionIds'[len + 1] = e
        /\ \A i \in 1..len : executionIds'[i] = executionIds[i] /\ executionIds[i] # e
    BY <1>1, <1>2, <2>1 DEF QueueOK
  <2> HIDE DEF len
  <2>3. \A i \in DOMAIN executionIds' : i = len + 1 \/ i \in 1..len
    BY <1>2, <2>2 DEF len
  <2>4. QueueOK'
    <3>1. \A i, j \in DOMAIN executionIds' : executionIds'[i] = executionIds'[j] => i = j
      BY <1>2, <2>2, <2>3 DEF QueueOK, len
    <3>2. ASSUME NEW i \in DOMAIN executionIds' PROVE Requested(executionIds[i])'
      <4>1. PICK f \in ExecutionIds : f = executionIds'[i]
        BY <1>2, <2>2, <2>3 DEF len
      <4>2. Requested(f)'
        BY <1>2, <2>1, <2>2, <2>3, <4>1 DEF QueueOK, len
      <4>3. QED
        BY <4>1, <4>2 DEF Requested
    <3>3. ASSUME NEW f \in ExecutionIds, Requested(f)'
          PROVE  \E i \in DOMAIN executionIds' : executionIds'[i] = f
      <4>1. CASE f = e
        BY <2>2, <4>1
      <4>2. CASE f # e
        <5>1. PICK i \in DOMAIN executionIds : executionIds[i] = f
          BY <2>1, <3>3, <4>2 DEF QueueOK
        <5>2. i \in DOMAIN executionIds' /\ executionIds'[i] = f
          BY <1>2, <2>2, <5>1 DEF len
        <5>3. QED
          BY <5>2
      <4>3. QED
        BY <4>1, <4>2
    <3>4. QED
      BY <3>1, <3>2, <3>3 DEF QueueOK
  <2>5. RootsAreOlder'
    <3>1. \A c \in ContractIds : contracts'[c].stateRoot \in ExecutionIds =>
             Requested(contracts[c].stateRoot)'
      <4> SUFFICES ASSUME NEW c \in ContractIds, NEW r \in ExecutionIds, r = contracts'[c].stateRoot
                   PROVE  Requested(r)'
        OBVIOUS
      <4>1. Requested(r)
        BY <2>1 DEF RootsAreOlder
      <4>2. QED
        BY <2>1, <4>1
    <3>2. ASSUME NEW i \in DOMAIN executionIds', NEW r \in ExecutionIds,
                 r = requests'[executionIds'[i]].oldStateRoot
          PROVE  \E j \in 1..(i - 1) : executionIds'[j] = r
      <4>1. CASE i = len + 1
        <5>1. r = contracts[ContractOf(e)].stateRoot
          BY <2>1, <2>2, <3>2, <4>1
        <5>2. PICK j \in DOMAIN executionIds : executionIds[j] = r
          BY <2>1, <5>1 DEF RootsAreOlder, QueueOK
        <5>3. j \in 1..(i - 1) /\ executionIds'[j] = r
          BY <1>2, <2>2, <4>1, <5>2 DEF len
        <5>4. QED
          BY <5>3
      <4>2. CASE i \in 1..len
        <5>1. i \in DOMAIN executionIds /\ r = requests[executionIds[i]].oldStateRoot
          BY <1>2, <2>1, <2>2, <3>2, <4>2 DEF len
        <5>2. PICK j \in 1..(i - 1) : executionIds[j] = r
          BY <5>1 DEF RootsAreOlder
        <5>3. executionIds'[j] = r
          BY <1>2, <2>2, <4>2, <5>2 DEF len
        <5>4. QED
          BY <5>3
      <4>3. QED
        BY <2>3, <4>1, <4>2
    <3>3. \A f \in ExecutionIds : ~Requested(f)' => requests'[f].oldStateRoot = ZeroRoot
      BY <2>1 DEF RootsAreOlder
    <3>4. QED
      BY <3>1, <3>2, <3>3 DEF RootsAreOlder, Requested
  <2>6. QED
    BY <2>4, <2>5
<1>7. QED
  BY <1>4, <1>5, <1>6 DEF ChainMoves

WriterIsSolution == \A g : WriterEquation(g) => \A root \in Roots : WriterAt[root] = g[root]

LEMMA SolutionIsWriter == SystemInv /\ ChainInv => WriterIsSolution
BY WriterSolves, OneSolution DEF ChainInv, WriterIsSolution

LEMMA NextWriter == SystemInv' /\ ChainInv' => WriterIsSolution'
BY SolutionIsWriter, PTL

(* A step keeps the writers at every root that a request can have started   *)
(* from; a new request extends them at its own, new root.                   *)
LEMMA WriterStep ==
  ASSUME SystemInv, SystemInv', ChainInv, ChainMoves
  PROVE  /\ ChainInv'
         /\ \A r \in Roots : r \notin ExecutionIds \/ Requested(r) => WriterAt'[r] = WriterAt[r]
<1>1. QueueOK' /\ RootsAreOlder'
  BY QueueStep DEF ChainInv
<1>2. requests \in [ExecutionIds -> Request]
  BY DEF SystemInv, RegistryInv, TypeOK
<1>3. PICK w : w = WriterAt
  OBVIOUS
<1>4. WriterEquation(w)
  BY <1>3, WriterSolves
<1>5. ASSUME NEW g, WriterEquation(g)',
             \A r \in Roots : r \notin ExecutionIds \/ Requested(r) => g[r] = w[r]
      PROVE  /\ ChainInv'
             /\ \A r \in Roots : r \notin ExecutionIds \/ Requested(r) => WriterAt'[r] = WriterAt[r]
  <2>1. ChainInv'
    <3>1. \E h : WriterEquation(h)'
      BY <1>5
    <3>2. QED
      BY <1>1, <3>1 DEF ChainInv
  <2>2. \A r \in Roots : WriterAt'[r] = g[r]
    BY <1>5, <2>1, NextWriter DEF WriterIsSolution
  <2>3. QED
    BY <1>3, <1>5, <2>1, <2>2
<1>6. ASSUME requests' = requests
      PROVE  /\ ChainInv'
             /\ \A r \in Roots : r \notin ExecutionIds \/ Requested(r) => WriterAt'[r] = WriterAt[r]
  <2>1. WriterEquation(w)'
    BY <1>4, <1>6 DEF WriterEquation
  <2>2. QED
    BY <1>5, <2>1
<1>7. ASSUME NEW e \in ExecutionIds, Invokes(e)
      PROVE  /\ ChainInv'
             /\ \A r \in Roots : r \notin ExecutionIds \/ Requested(r) => WriterAt'[r] = WriterAt[r]
  <2> DEFINE base == contracts[ContractOf(e)].stateRoot
             row == [v \in Variables |-> IF v \in Call[e].writes THEN e ELSE w[base][v]]
             g == [root \in Roots |-> IF root = e THEN row ELSE w[root]]
  <2>1. /\ ~Requested(e) /\ requests'[e].oldStateRoot = base
        /\ \A f \in ExecutionIds \ {e} : requests'[f].oldStateRoot = requests[f].oldStateRoot
        /\ ContractOf(e) \in ContractIds
    BY <1>7, InvokeFacts DEF Requested
  <2>2. base # e
    BY <2>1 DEF ChainInv, RootsAreOlder
  <2>3. \A f \in ExecutionIds \ {e} : requests[f].oldStateRoot # e
    <3>1. ASSUME NEW f \in ExecutionIds \ {e}, requests[f].oldStateRoot = e PROVE FALSE
      <4>1. Requested(f)
        BY <3>1, ZeroIsNoExecution DEF ChainInv, RootsAreOlder
      <4>2. PICK i \in DOMAIN executionIds : executionIds[i] = f
        BY <4>1 DEF ChainInv, QueueOK
      <4>3. PICK j \in 1..(i - 1) : executionIds[j] = e
        BY <3>1, <4>2 DEF ChainInv, RootsAreOlder
      <4>4. j \in DOMAIN executionIds
        BY <4>2, <4>3 DEF SystemInv, RegistryInv, TypeOK
      <4>5. Requested(e)
        BY <4>3, <4>4 DEF ChainInv, QueueOK
      <4>6. QED
        BY <2>1, <4>5
    <3>2. QED
      BY <3>1
  <2>4. \A f \in ExecutionIds : requests[f].oldStateRoot \in Roots
    BY <1>2 DEF Request
  <2>5. base \in Roots
    BY <2>1 DEF SystemInv, RegistryInv, TypeOK, ConfidentialContract
  <2> HIDE DEF base
  <2>6. g[base] = w[base]
    BY <2>2, <2>5
  <2>7. \A f \in ExecutionIds \ {e} : g[requests'[f].oldStateRoot] = w[requests[f].oldStateRoot]
    BY <2>1, <2>3, <2>4
  <2>8. ASSUME NEW root \in Roots
        PROVE  g[root] = [v \in Variables |->
                 IF root \notin ExecutionIds THEN None
                 ELSE IF v \in Call[root].writes THEN root
                 ELSE g[requests'[root].oldStateRoot][v]]
    <3>1. CASE root = e
      <4>1. g[root] = row
        BY <3>1
      <4> HIDE DEF g
      <4>2. QED
        BY <2>1, <2>6, <3>1, <4>1
    <3>2. CASE root # e
      <4>1. g[root] = w[root]
        BY <3>2
      <4>2. w[root] = [v \in Variables |->
                 IF root \notin ExecutionIds THEN None
                 ELSE IF v \in Call[root].writes THEN root
                 ELSE w[requests[root].oldStateRoot][v]]
        BY <1>4 DEF WriterEquation
      <4> HIDE DEF g
      <4>3. QED
        BY <2>7, <3>2, <4>1, <4>2
    <3>3. QED
      BY <3>1, <3>2
  <2>9. PICK h : h = g
    OBVIOUS
  <2>10. WriterEquation(h)'
    <3> HIDE DEF row
    <3>1. g = [root \in Roots |-> g[root]]
      OBVIOUS
    <3> HIDE DEF g
    <3>2. h = [root \in Roots |-> [v \in Variables |->
                 IF root \notin ExecutionIds THEN None
                 ELSE IF v \in Call[root].writes THEN root
                 ELSE h[requests'[root].oldStateRoot][v]]]
      BY <2>8, <2>9, <3>1
    <3>3. QED
      BY <3>2 DEF WriterEquation
  <2>11. \A r \in Roots : r \notin ExecutionIds \/ Requested(r) => h[r] = w[r]
    BY <2>1, <2>9
  <2>12. QED
    BY <1>5, <2>10, <2>11
<1>8. QED
  BY <1>6, <1>7, SubmitFacts DEF ChainMoves, Settled

-----------------------------------------------------------------------------
(* A committee of one: the daemon n, and no other, runs *)

\* The moves that change the records, the cells or the outbox of n.
Works(n) == SkipTask(n) \/ CommitComputation(n) \/ MarkSubmitted(n)

\* The moves that change what the chain holds.
Publishes(n) ==
  \/ Settled /\ BindingsSame
  \/ Submits(n) /\ BindingsSame
  \/ (Declares(n) \/ Updates(n) \/ Opens(n)) /\ Settled
  \/ \E e \in ExecutionIds : Invokes(e) /\ BindingsSame

LEMMA SoleMoves ==
  ASSUME SystemInv, [DaemonNext]_allVars, NEW n, Daemons = {n}
  PROVE  \/ Works(n) /\ Settled /\ BindingsSame
         \/ Publishes(n) /\ UNCHANGED ledgerVars
<1>1. n \in Daemons
  OBVIOUS
<1>2. Publishes(n)
  BY <1>1, SystemMoves DEF Publishes
<1>3. ASSUME Works(n) PROVE Settled /\ BindingsSame
  BY <1>3, SettledFrame
     DEF Works, SkipTask, CommitComputation, MarkSubmitted, Chain, vars, BindingsSame
<1>4. CASE DaemonStep(n) \/ Crash(n)
  <2>1. CASE EndsCall(n) /\ Quiet
    BY <1>2, <2>1 DEF Quiet
  <2>2. CASE EndsCall(n) /\ (SkipTask(n) \/ CommitComputation(n) \/ MarkSubmitted(n)
                            \/ MarkUploadRegistered(n))
    BY <1>2, <1>3, <2>2 DEF Works, MarkUploadRegistered
  <2>3. CASE PollWalk(n)
    BY <1>2, <2>3 DEF PollWalk, ReadTask, Quiet
  <2>4. CASE (ResultWalk(n) \/ UploadWalk(n)) /\ Quiet
    BY <1>2, <2>4 DEF Quiet
  <2>5. QED
    BY <1>1, <1>4, <2>1, <2>2, <2>3, <2>4, StepKinds
<1>5. CASE Environment \/ UNCHANGED allVars \/ \E u \in Uploads : AcceptUpload(n, u)
  BY <1>2, <1>5 DEF Environment, AcceptUpload, allVars, daemonVars, ledgerVars
<1>6. QED
  BY <1>4, <1>5 DEF DaemonNext

-----------------------------------------------------------------------------
(* The rows of the outbox *)

Exec(n, i) == outbox[n][i].execution
Touches(n, i, v) == v \in Call[Exec(n, i)].writes
IsRecorded(n, e) ==
  \E i \in DOMAIN processed[n] : processed[n][i] = [execution |-> e, outcome |-> "completed"]

(* The outbox holds results of this daemon that the chain has not taken     *)
(* yet, but for the oldest, which it may just have taken; and whatever the  *)
(* chain took was one of them.                                              *)
RowsOK(n) ==
  /\ \A i, j \in DOMAIN outbox[n] : Exec(n, i) = Exec(n, j) => i = j
  /\ \A i \in DOMAIN outbox[n] : IsRecorded(n, Exec(n, i))
  /\ \A i \in DOMAIN outbox[n] : i # 1 => ~Completed(Exec(n, i))
  /\ \A i \in DOMAIN outbox[n] : Completed(Exec(n, i)) =>
       executions[Exec(n, i)].outputId = OutputId(Exec(n, i), outbox[n][i].basis)
  /\ \A e \in ExecutionIds : Mine(e) /\ Completed(e) => IsRecorded(n, e)

LEMMA RowFacts ==
  ASSUME SystemInv, NEW n \in Daemons
  PROVE  /\ outbox[n] \in Seq(Row) /\ DOMAIN outbox[n] = 1..Len(outbox[n]) /\ Len(outbox[n]) \in Nat
         /\ outbox[n] # <<>> => 1 \in DOMAIN outbox[n]
         /\ \A i \in DOMAIN outbox[n] :
              /\ Exec(n, i) \in ExecutionIds /\ outbox[n][i].basis \in Basis(Exec(n, i))
              /\ Call[Exec(n, i)].reads \subseteq Variables
              /\ Call[Exec(n, i)].writes \subseteq Variables
<1>1. outbox[n] \in Seq(Row)
  BY DEF SystemInv, DaemonTypeOK
<1>2. DOMAIN outbox[n] = 1..Len(outbox[n]) /\ Len(outbox[n]) \in Nat
  BY <1>1
<1>3. outbox[n] # <<>> => 1 \in DOMAIN outbox[n]
  BY <1>1
<1>4. ASSUME NEW i \in DOMAIN outbox[n]
      PROVE  /\ Exec(n, i) \in ExecutionIds /\ outbox[n][i].basis \in Basis(Exec(n, i))
             /\ Call[Exec(n, i)].reads \subseteq Variables
             /\ Call[Exec(n, i)].writes \subseteq Variables
  <2>1. outbox[n][i] \in Row
    BY <1>1, <1>2, <1>4
  <2>2. PICK e \in ExecutionIds : outbox[n][i] \in [execution : {e}, basis : Basis(e)]
    BY <2>1 DEF Row
  <2>3. Exec(n, i) \in ExecutionIds /\ outbox[n][i].basis \in Basis(Exec(n, i))
    BY <2>2 DEF Exec
  <2>4. QED
    BY <2>3, DaemonAssumption DEF CallRecord
<1>5. QED
  BY <1>1, <1>2, <1>3, <1>4

(* The task at the cursor has no record yet.                                *)
LEMMA CursorIsFresh ==
  ASSUME SystemInv, NothingIsSkipped, QueueOK, NEW n \in Daemons, HasTask(n),
         NEW e, e = NextTask(n)
  PROVE  e \in ExecutionIds /\ ~IsRecorded(n, e)
<1>1. TypeOK /\ DaemonTypeOK
  BY DEF SystemInv, RegistryInv
<1>2. /\ processed[n] \in Seq(TaskRecord) /\ Len(processed[n]) \in Nat
      /\ Len(processed[n]) + 1 \in DOMAIN executionIds /\ DOMAIN executionIds = 1..Len(executionIds)
      /\ Len(executionIds) \in Nat /\ e \in ExecutionIds /\ e = executionIds[Len(processed[n]) + 1]
  BY <1>1, CursorTask DEF TypeOK, DaemonTypeOK, NextTask
<1>3. ASSUME NEW i \in DOMAIN processed[n],
             processed[n][i] = [execution |-> e, outcome |-> "completed"]
      PROVE  FALSE
  <2>1. i \in 1..Len(processed[n]) /\ processed[n][i].execution = e
    BY <1>2, <1>3
  <2>2. e = executionIds[i] /\ i <= Len(executionIds)
    BY <1>3, <2>1 DEF NothingIsSkipped
  <2>3. i \in DOMAIN executionIds /\ i # Len(processed[n]) + 1
    BY <1>2, <2>1, <2>2
  <2>4. QED
    BY <1>2, <2>2, <2>3 DEF QueueOK
<1>4. QED
  BY <1>2, <1>3 DEF IsRecorded

LEMMA SkipFacts ==
  ASSUME SystemInv, NEW n \in Daemons, SkipTask(n)
  PROVE  /\ UNCHANGED <<cells, outbox>>
         /\ \A e \in ExecutionIds : IsRecorded(n, e)' <=> IsRecorded(n, e)
<1>1. TypeOK /\ DaemonTypeOK /\ PhasesOK
  BY DEF SystemInv, RegistryInv
<1> DEFINE record == [execution |-> NextTask(n), outcome |-> "skipped"]
<1>2. processed[n] \in Seq(TaskRecord) /\ processed'[n] = Append(processed[n], record)
  BY <1>1 DEF DaemonTypeOK, SkipTask
<1>3. record.outcome # "completed"
  OBVIOUS
<1> HIDE DEF record
<1>4. /\ DOMAIN processed[n] = 1..Len(processed[n]) /\ Len(processed[n]) \in Nat
      /\ DOMAIN processed'[n] = 1..(Len(processed[n]) + 1)
      /\ processed'[n][Len(processed[n]) + 1] = record
      /\ \A i \in 1..Len(processed[n]) : processed'[n][i] = processed[n][i]
  BY <1>2
<1>5. ASSUME NEW e \in ExecutionIds PROVE IsRecorded(n, e)' <=> IsRecorded(n, e)
  <2>1. record # [execution |-> e, outcome |-> "completed"]
    BY <1>3
  <2>2. QED
    BY <1>4, <2>1 DEF IsRecorded
<1>6. QED
  BY <1>5 DEF SkipTask

LEMMA CommitFacts ==
  ASSUME SystemInv, NothingIsSkipped, QueueOK, NEW n \in Daemons, RowsOK(n), CommitComputation(n),
         NEW e, e = NextTask(n)
  PROVE  LET len == Len(outbox[n]) IN
         /\ e \in ExecutionIds /\ ~Completed(e) /\ ~IsRecorded(n, e) /\ len \in Nat
         /\ DOMAIN outbox[n] = 1..len /\ DOMAIN outbox'[n] = 1..(len + 1)
         /\ outbox'[n][len + 1].execution = e
         /\ outbox'[n][len + 1].basis = [v \in Call[e].reads |-> cells[n][v]]
         /\ \A i \in 1..len : outbox'[n][i] = outbox[n][i]
         /\ IsRecorded(n, e)' /\ \A x \in ExecutionIds : IsRecorded(n, x) => IsRecorded(n, x)'
         /\ \A x \in ExecutionIds : IsRecorded(n, x)' => IsRecorded(n, x) \/ x = e
         /\ cells'[n] = [v \in Variables |-> IF v \in Call[e].writes THEN e ELSE cells[n][v]]
<1>0. PICK len : len = Len(outbox[n])
  OBVIOUS
<1>1. TypeOK /\ DaemonTypeOK /\ PhasesOK
  BY DEF SystemInv, RegistryInv
<1>2. HasTask(n)
  BY <1>1 DEF CommitComputation, At, PhasesOK, TaskPhases
<1>3. e \in ExecutionIds /\ ~IsRecorded(n, e)
  BY <1>2, CursorIsFresh
<1>4. ~Completed(e)
  <2>1. Mine(e)
    BY DEF CommitComputation, Skippable, Mine
  <2>2. QED
    BY <1>3, <2>1 DEF RowsOK
<1>5. outbox[n] \in Seq(Row) /\ DOMAIN outbox[n] = 1..len /\ len \in Nat
  BY <1>0, RowFacts
<1>6. PICK row \in Row :
           /\ row.execution = e
           /\ row.basis = [v \in Call[e].reads |-> cells[n][v]]
           /\ outbox' = [outbox EXCEPT ![n] = Append(outbox[n], row)]
  BY <1>1, CommittedRow
<1>7. outbox'[n] = Append(outbox[n], row)
  BY <1>1, <1>6 DEF DaemonTypeOK
<1>8. /\ DOMAIN outbox'[n] = 1..(len + 1) /\ outbox'[n][len + 1] = row
      /\ \A i \in 1..len : outbox'[n][i] = outbox[n][i]
  BY <1>5, <1>6, <1>7
<1> DEFINE record == [execution |-> e, outcome |-> "completed"]
<1>9. processed[n] \in Seq(TaskRecord) /\ processed'[n] = Append(processed[n], record)
  BY <1>1 DEF DaemonTypeOK, CommitComputation
<1>10. \A x : record = [execution |-> x, outcome |-> "completed"] => x = e
  OBVIOUS
<1>11. \A x \in ExecutionIds : IsRecorded(n, x)' =
          \E i \in DOMAIN processed'[n] : processed'[n][i] = [execution |-> x, outcome |-> "completed"]
  BY DEF IsRecorded
<1>12. IsRecorded(n, e)' = \E i \in DOMAIN processed'[n] : processed'[n][i] = record
  BY DEF IsRecorded
<1> HIDE DEF record
<1>13. /\ DOMAIN processed[n] = 1..Len(processed[n]) /\ Len(processed[n]) \in Nat
      /\ DOMAIN processed'[n] = 1..(Len(processed[n]) + 1)
      /\ processed'[n][Len(processed[n]) + 1] = record
      /\ \A i \in 1..Len(processed[n]) : processed'[n][i] = processed[n][i]
  BY <1>9
<1>14. /\ Len(processed[n]) + 1 \in DOMAIN processed'[n]
       /\ \A i \in DOMAIN processed[n] : i \in DOMAIN processed'[n]
       /\ \A i \in DOMAIN processed'[n] : i = Len(processed[n]) + 1 \/ i \in DOMAIN processed[n]
  BY <1>13
<1>15. IsRecorded(n, e)'
  BY <1>12, <1>13, <1>14
<1>16. ASSUME NEW x \in ExecutionIds, IsRecorded(n, x) PROVE IsRecorded(n, x)'
  <2>1. PICK i \in DOMAIN processed[n] : processed[n][i] = [execution |-> x, outcome |-> "completed"]
    BY <1>16 DEF IsRecorded
  <2>2. QED
    BY <1>11, <1>13, <1>14, <2>1
<1>17. ASSUME NEW x \in ExecutionIds, IsRecorded(n, x)' PROVE IsRecorded(n, x) \/ x = e
  <2>1. PICK i \in DOMAIN processed'[n] : processed'[n][i] = [execution |-> x, outcome |-> "completed"]
    BY <1>11, <1>17
  <2>2. CASE i = Len(processed[n]) + 1
    BY <1>10, <1>13, <2>1, <2>2
  <2>3. CASE i \in DOMAIN processed[n]
    BY <1>13, <2>1, <2>3 DEF IsRecorded
  <2>4. QED
    BY <1>14, <2>1, <2>2, <2>3
<1>18. cells'[n] = [v \in Variables |-> IF v \in Call[e].writes THEN e ELSE cells[n][v]]
  BY <1>1 DEF CommitComputation, DaemonTypeOK
<1>19. QED
  BY <1>0, <1>3, <1>4, <1>5, <1>6, <1>8, <1>15, <1>16, <1>17, <1>18

LEMMA MarkFacts ==
  ASSUME SystemInv, SkipInv, NEW n \in Daemons, MarkSubmitted(n), NEW len, len = Len(outbox[n])
  PROVE  /\ outbox[n] # <<>> /\ Completed(Exec(n, 1)) /\ UNCHANGED <<processed, cells>>
         /\ len \in Nat \ {0} /\ DOMAIN outbox[n] = 1..len /\ DOMAIN outbox'[n] = 1..(len - 1)
         /\ \A i \in 1..(len - 1) : outbox'[n][i] = outbox[n][i + 1]
<1>1. TypeOK /\ DaemonTypeOK /\ PhasesOK
  BY DEF SystemInv, RegistryInv
<1>2. phase[n] = "mark" /\ outbox[n] # <<>>
  BY <1>1 DEF MarkSubmitted, At, PhasesOK, ResultPhases
<1>3. Completed(Exec(n, 1))
  BY <1>2 DEF SkipInv, StageOK, LatePhases, NextPending, Exec
<1>4. outbox[n] \in Seq(Row) /\ outbox'[n] = Tail(outbox[n])
  BY <1>1 DEF MarkSubmitted, DaemonTypeOK
<1>5. /\ len \in Nat \ {0} /\ DOMAIN outbox[n] = 1..len /\ DOMAIN outbox'[n] = 1..(len - 1)
      /\ \A i \in 1..(len - 1) : outbox'[n][i] = outbox[n][i + 1]
  BY <1>2, <1>4
<1>6. QED
  BY <1>2, <1>3, <1>5 DEF MarkSubmitted

(* Rows and records that stay are as good as before while no result comes   *)
(* to the chain.                                                            *)
LEMMA RowsKept ==
  ASSUME SystemInv, NEW n \in Daemons, RowsOK(n), outbox'[n] = outbox[n],
         \A e \in ExecutionIds : IsRecorded(n, e) => IsRecorded(n, e)',
         \A e \in ExecutionIds : /\ Completed(e)' <=> Completed(e)
                                 /\ executions'[e].outputId = executions[e].outputId
  PROVE  RowsOK(n)'
<1>1. \A i \in DOMAIN outbox[n] : Exec(n, i)' = Exec(n, i) /\ Exec(n, i) \in ExecutionIds
  BY RowFacts DEF Exec
<1>2. ASSUME NEW i \in DOMAIN outbox[n]
      PROVE  /\ IsRecorded(n, Exec(n, i))'
             /\ i # 1 => ~Completed(Exec(n, i))'
             /\ Completed(Exec(n, i))' =>
                  executions'[Exec(n, i)'].outputId = OutputId(Exec(n, i)', outbox'[n][i].basis)
  <2>1. PICK e \in ExecutionIds : e = Exec(n, i)
    BY <1>1, <1>2
  <2>2. /\ IsRecorded(n, e) /\ (i # 1 => ~Completed(e))
        /\ Completed(e) => executions[e].outputId = OutputId(e, outbox[n][i].basis)
    BY <1>2, <2>1 DEF RowsOK
  <2>3. IsRecorded(n, e)' /\ (i # 1 => ~Completed(e)')
        /\ (Completed(e)' => executions'[e].outputId = OutputId(e, outbox'[n][i].basis))
    BY <2>2
  <2>4. Exec(n, i)' = e
    BY <1>1, <1>2, <2>1
  <2>5. QED
    BY <2>3, <2>4 DEF IsRecorded, Completed
<1>3. \A i, j \in DOMAIN outbox'[n] : Exec(n, i)' = Exec(n, j)' => i = j
  BY <1>1 DEF RowsOK
<1>4. \A e \in ExecutionIds : Mine(e) /\ Completed(e)' => IsRecorded(n, e)'
  BY DEF RowsOK
<1>5. QED
  BY <1>2, <1>3, <1>4 DEF RowsOK, Completed, IsRecorded, Mine

LEMMA RowsCommitted ==
  ASSUME SystemInv, NothingIsSkipped, QueueOK, NEW n \in Daemons, RowsOK(n),
         CommitComputation(n), Settled
  PROVE  RowsOK(n)'
<1>1. PICK e : e = NextTask(n)
  OBVIOUS
<1>0. PICK len : len = Len(outbox[n])
  OBVIOUS
<1>2. /\ e \in ExecutionIds /\ ~Completed(e) /\ ~IsRecorded(n, e) /\ len \in Nat
      /\ DOMAIN outbox[n] = 1..len /\ DOMAIN outbox'[n] = 1..(len + 1)
      /\ outbox'[n][len + 1].execution = e
      /\ \A i \in 1..len : outbox'[n][i] = outbox[n][i]
      /\ IsRecorded(n, e)' /\ \A x \in ExecutionIds : IsRecorded(n, x) => IsRecorded(n, x)'
  BY <1>0, <1>1, CommitFacts
<1>3. Exec(n, len + 1)' = e /\ \A i \in 1..len : Exec(n, i)' = Exec(n, i) /\ Exec(n, i) \in ExecutionIds
  BY <1>2, RowFacts DEF Exec
<1>4. ASSUME NEW i \in DOMAIN outbox'[n], NEW x \in ExecutionIds, x = Exec(n, i)'
      PROVE  /\ IsRecorded(n, x)'
             /\ i # 1 => ~Completed(x)'
             /\ Completed(x)' => executions'[x].outputId = OutputId(x, outbox'[n][i].basis)
  <2>1. CASE i = len + 1
    BY <1>2, <1>3, <1>4, <2>1 DEF Settled
  <2>2. CASE i \in 1..len
    <3>1. x = Exec(n, i) /\ i \in DOMAIN outbox[n]
      BY <1>2, <1>3, <1>4, <2>2
    <3>2. /\ IsRecorded(n, x) /\ (i # 1 => ~Completed(x))
          /\ Completed(x) => executions[x].outputId = OutputId(x, outbox[n][i].basis)
      BY <3>1 DEF RowsOK
    <3>3. QED
      BY <1>2, <1>4, <2>2, <3>2 DEF Settled
  <2>3. QED
    BY <1>2, <1>4, <2>1, <2>2
<1>5. \A i \in DOMAIN outbox'[n] : Exec(n, i)' \in ExecutionIds
  BY <1>2, <1>3
<1>6. \A i, j \in DOMAIN outbox'[n] : Exec(n, i)' = Exec(n, j)' => i = j
  <2>1. \A i \in 1..len : Exec(n, i) # e
    BY <1>2 DEF RowsOK
  <2>2. \A i, j \in 1..len : Exec(n, i) = Exec(n, j) => i = j
    BY <1>2 DEF RowsOK
  <2>3. QED
    BY <1>2, <1>3, <2>1, <2>2
<1>7. \A x \in ExecutionIds : Mine(x) /\ Completed(x)' => IsRecorded(n, x)'
  BY <1>2 DEF RowsOK, Settled
<1>8. QED
  BY <1>4, <1>5, <1>6, <1>7 DEF RowsOK, Completed, IsRecorded, Mine

LEMMA RowsMarked ==
  ASSUME SystemInv, SkipInv, NEW n \in Daemons, RowsOK(n), MarkSubmitted(n), Settled
  PROVE  RowsOK(n)'
<1>1. PICK len : len = Len(outbox[n])
  OBVIOUS
<1>2. /\ processed' = processed /\ len \in Nat \ {0}
      /\ DOMAIN outbox[n] = 1..len /\ DOMAIN outbox'[n] = 1..(len - 1)
      /\ \A i \in 1..(len - 1) : outbox'[n][i] = outbox[n][i + 1]
  BY <1>1, MarkFacts
<1>3. \A i \in 1..(len - 1) : /\ Exec(n, i)' = Exec(n, i + 1) /\ i + 1 \in DOMAIN outbox[n]
                              /\ Exec(n, i + 1) \in ExecutionIds
  BY <1>2, RowFacts DEF Exec
<1>4. ASSUME NEW i \in DOMAIN outbox'[n], NEW x \in ExecutionIds, x = Exec(n, i)'
      PROVE  IsRecorded(n, x)' /\ ~Completed(x)'
  <2>1. x = Exec(n, i + 1) /\ i + 1 \in DOMAIN outbox[n] /\ i + 1 # 1
    BY <1>2, <1>3, <1>4
  <2>2. IsRecorded(n, x) /\ ~Completed(x)
    BY <2>1 DEF RowsOK
  <2>3. QED
    BY <1>2, <2>2 DEF Settled, IsRecorded
<1>5. \A i \in DOMAIN outbox'[n] : Exec(n, i)' \in ExecutionIds
  BY <1>2, <1>3
<1>6. \A i, j \in DOMAIN outbox'[n] : Exec(n, i)' = Exec(n, j)' => i = j
  <2> SUFFICES ASSUME NEW i \in DOMAIN outbox'[n], NEW j \in DOMAIN outbox'[n],
                      Exec(n, i)' = Exec(n, j)'
               PROVE  i = j
    OBVIOUS
  <2>1. Exec(n, i + 1) = Exec(n, j + 1) /\ i + 1 \in DOMAIN outbox[n] /\ j + 1 \in DOMAIN outbox[n]
    BY <1>2, <1>3
  <2>2. i + 1 = j + 1
    BY <2>1 DEF RowsOK
  <2>3. QED
    BY <1>2, <2>2
<1>7. \A x \in ExecutionIds : Mine(x) /\ Completed(x)' => IsRecorded(n, x)'
  BY <1>2 DEF RowsOK, Settled, IsRecorded
<1>8. \A i \in DOMAIN outbox'[n] : IsRecorded(n, Exec(n, i))' /\ ~Completed(Exec(n, i))'
  BY <1>2, <1>4, <1>5 DEF IsRecorded, Completed
<1>9. \A x \in ExecutionIds : Mine(x)' /\ Completed(x)' => IsRecorded(n, x)'
  BY <1>7 DEF Mine
<1>10. QED
  BY <1>6, <1>8, <1>9 DEF RowsOK

(* The head has become the result of its execution.                         *)
LEMMA RowsSubmitted ==
  ASSUME SystemInv, NEW n \in Daemons, RowsOK(n), Submits(n), UNCHANGED ledgerVars
  PROVE  RowsOK(n)'
<1>1. PICK e : e = NextPending(n).execution
  OBVIOUS
<1>2. /\ e \in ExecutionIds /\ e = Exec(n, 1) /\ 1 \in DOMAIN outbox[n]
      /\ executions'[e].status = "Completed"
      /\ executions'[e].outputId = OutputId(e, outbox[n][1].basis)
      /\ \A f \in ExecutionIds \ {e} : executions'[f] = executions[f]
  <2>1. /\ e \in ExecutionIds /\ executions'[e].status = "Completed"
        /\ executions'[e].outputId = Output(n)
        /\ \A f \in ExecutionIds \ {e} : executions'[f] = executions[f]
    BY <1>1, SubmitFacts
  <2>2. e = Exec(n, 1) /\ Output(n) = OutputId(e, outbox[n][1].basis)
    BY <1>1 DEF Exec, NextPending, Output
  <2>3. outbox[n] # <<>>
    BY DEF Submits
  <2>4. 1 \in DOMAIN outbox[n]
    BY <2>3, RowFacts
  <2>5. QED
    BY <2>1, <2>2, <2>4
<1>3. UNCHANGED <<processed, outbox>>
  BY DEF ledgerVars
<1>4. \A i \in DOMAIN outbox[n] : Exec(n, i)' = Exec(n, i) /\ Exec(n, i) \in ExecutionIds
  BY <1>3, RowFacts DEF Exec
<1>5. ASSUME NEW i \in DOMAIN outbox[n], NEW x \in ExecutionIds, x = Exec(n, i)
      PROVE  /\ IsRecorded(n, x)'
             /\ i # 1 => ~Completed(x)'
             /\ Completed(x)' => executions'[x].outputId = OutputId(x, outbox'[n][i].basis)
  <2>1. /\ IsRecorded(n, x) /\ (i # 1 => ~Completed(x))
        /\ Completed(x) => executions[x].outputId = OutputId(x, outbox[n][i].basis)
    BY <1>5 DEF RowsOK
  <2>2. x = e <=> i = 1
    BY <1>2, <1>5 DEF RowsOK
  <2>3. IsRecorded(n, x)'
    BY <1>3, <2>1 DEF IsRecorded
  <2>4. QED
    BY <1>2, <1>3, <2>1, <2>2, <2>3 DEF Completed
<1>6. \A i, j \in DOMAIN outbox'[n] : Exec(n, i)' = Exec(n, j)' => i = j
  BY <1>3, <1>4 DEF RowsOK
<1>7. ASSUME NEW x \in ExecutionIds, Mine(x), Completed(x)' PROVE IsRecorded(n, x)'
  <2>1. IsRecorded(n, x)
    BY <1>2, <1>7 DEF RowsOK, Completed
  <2>2. QED
    BY <1>3, <2>1 DEF IsRecorded
<1>8. QED
  <2>1. ASSUME NEW i \in DOMAIN outbox'[n]
        PROVE  /\ IsRecorded(n, Exec(n, i))'
               /\ i # 1 => ~Completed(Exec(n, i))'
               /\ Completed(Exec(n, i))' =>
                    executions'[Exec(n, i)'].outputId = OutputId(Exec(n, i)', outbox'[n][i].basis)
    BY <1>3, <1>4, <1>5, <2>1 DEF Completed, IsRecorded
  <2>2. QED
    BY <1>6, <1>7, <2>1 DEF RowsOK, Completed, IsRecorded, Mine

LEMMA RowsStep ==
  ASSUME SystemInv, SkipInv, ChainInv, [DaemonNext]_allVars, NEW n, Daemons = {n}, RowsOK(n)
  PROVE  RowsOK(n)'
<1>1. n \in Daemons /\ NothingIsSkipped /\ QueueOK
  BY DEF SkipInv, ChainInv
<1>2. CASE Works(n) /\ Settled
  <2>1. CASE SkipTask(n)
    BY <1>1, <1>2, <2>1, SkipFacts, RowsKept DEF Settled
  <2>2. QED
    BY <1>1, <1>2, <2>1, RowsCommitted, RowsMarked DEF Works
<1>3. CASE Publishes(n) /\ UNCHANGED ledgerVars
  <2>1. UNCHANGED <<processed, outbox>>
    BY <1>3 DEF ledgerVars
  <2>2. \A e \in ExecutionIds : IsRecorded(n, e) => IsRecorded(n, e)'
    BY <2>1 DEF IsRecorded
  <2>3. CASE Settled
    BY <1>1, <2>1, <2>2, <2>3, RowsKept DEF Settled
  <2>4. CASE Submits(n)
    BY <1>1, <1>3, <2>4, RowsSubmitted
  <2>5. ASSUME NEW e \in ExecutionIds, Invokes(e) PROVE RowsOK(n)'
    <3>1. \A f \in ExecutionIds : /\ Completed(f)' <=> Completed(f)
                                  /\ executions'[f].outputId = executions[f].outputId
      BY <2>5, InvokeFacts DEF Completed
    <3>2. QED
      BY <1>1, <2>1, <2>2, <3>1, RowsKept
  <2>6. QED
    BY <1>3, <2>3, <2>4, <2>5 DEF Publishes
<1>4. QED
  BY <1>2, <1>3, SoleMoves

LEMMA SoleChainMoves ==
  ASSUME SystemInv, [DaemonNext]_allVars, NEW n, Daemons = {n}
  PROVE  ChainMoves
BY SoleMoves DEF Publishes, ChainMoves

-----------------------------------------------------------------------------
(* The cells a result was computed from *)

\* What the chain holds of variable v.
Accepted(v) == WriterAt[contracts[DaemonContract].stateRoot][v]

(* Before row i, the last result that is not accepted and writes v wrote w; *)
(* or there is none and w is what the chain holds.                          *)
Sees(n, i, v, w) ==
  \/ \E j \in 1..(i - 1) :
       /\ ~Completed(Exec(n, j)) /\ Exec(n, j) = w /\ Touches(n, j, v)
       /\ \A l \in (j + 1)..(i - 1) : ~Touches(n, l, v)
  \/ /\ \A j \in 1..(i - 1) : ~Completed(Exec(n, j)) => ~Touches(n, j, v)
     /\ w = Accepted(v)

(* A pending result was computed from the state the chain will hold when    *)
(* the results before it have been accepted, and the cells are the state    *)
(* after all of them.                                                       *)
BasesOK(n) ==
  /\ \A i \in DOMAIN outbox[n] : ~Completed(Exec(n, i)) =>
       \A v \in Call[Exec(n, i)].reads : Sees(n, i, v, outbox[n][i].basis[v])
  /\ \A v \in Variables : Sees(n, Len(outbox[n]) + 1, v, cells[n][v])

(* What a daemon sees does not change with rows that come later, requests   *)
(* or anything that leaves the results alone.                               *)
LEMMA SeesKept ==
  ASSUME SystemInv, NEW n \in Daemons, NEW i \in 1..(Len(outbox[n]) + 1), NEW v \in Variables, NEW w,
         \A j \in 1..(i - 1) : Exec(n, j)' = Exec(n, j),
         \A e \in ExecutionIds : Completed(e)' <=> Completed(e),
         Accepted(v)' = Accepted(v), Sees(n, i, v, w)
  PROVE  Sees(n, i, v, w)'
<1>1. \A j \in 1..(i - 1) : /\ Exec(n, j) \in ExecutionIds
                            /\ Exec(n, j)' = Exec(n, j)
  <2>1. \A j \in 1..(i - 1) : j \in DOMAIN outbox[n]
    BY RowFacts
  <2>2. QED
    BY <2>1, RowFacts
<1>2. ASSUME NEW j \in 1..(i - 1)
      PROVE  (Completed(Exec(n, j))' <=> Completed(Exec(n, j))) /\ (Touches(n, j, v)' <=> Touches(n, j, v))
  <2>1. PICK e \in ExecutionIds : e = Exec(n, j)
    BY <1>1
  <2>2. Completed(e)' <=> Completed(e)
    OBVIOUS
  <2>3. QED
    BY <1>1, <2>1, <2>2 DEF Completed, Touches
<1>3. CASE \E j \in 1..(i - 1) :
             /\ ~Completed(Exec(n, j)) /\ Exec(n, j) = w /\ Touches(n, j, v)
             /\ \A l \in (j + 1)..(i - 1) : ~Touches(n, l, v)
  <2>1. PICK j \in 1..(i - 1) :
             /\ ~Completed(Exec(n, j)) /\ Exec(n, j) = w /\ Touches(n, j, v)
             /\ \A l \in (j + 1)..(i - 1) : ~Touches(n, l, v)
    BY <1>3
  <2>2. \A l \in (j + 1)..(i - 1) : l \in 1..(i - 1)
    BY RowFacts
  <2>3. /\ ~Completed(Exec(n, j))' /\ Exec(n, j)' = w /\ Touches(n, j, v)'
        /\ \A l \in (j + 1)..(i - 1) : ~Touches(n, l, v)'
    BY <1>1, <1>2, <2>1, <2>2
  <2>4. QED
    BY <2>3 DEF Sees
<1>4. CASE /\ \A j \in 1..(i - 1) : ~Completed(Exec(n, j)) => ~Touches(n, j, v)
           /\ w = Accepted(v)
  <2>1. /\ \A j \in 1..(i - 1) : ~Completed(Exec(n, j))' => ~Touches(n, j, v)'
        /\ w = Accepted(v)'
    BY <1>2, <1>4
  <2>2. QED
    BY <2>1 DEF Sees
<1>5. QED
  BY <1>3, <1>4 DEF Sees

LEMMA AcceptedKept ==
  ASSUME SystemInv, SystemInv', ChainInv, ChainMoves, contracts' = contracts, NEW v
  PROVE  Accepted(v)' = Accepted(v)
<1>1. PICK r : r = contracts[DaemonContract].stateRoot
  OBVIOUS
<1>2. DaemonContract \in ContractIds
  BY DaemonAssumption
<1>3. r \in Roots
  BY <1>1, <1>2 DEF SystemInv, RegistryInv, TypeOK, ConfidentialContract
<1>4. r \notin ExecutionIds \/ Requested(r)
  BY <1>1, <1>2 DEF ChainInv, RootsAreOlder
<1>5. WriterAt'[r] = WriterAt[r]
  BY <1>3, <1>4, WriterStep
<1>6. QED
  BY <1>1, <1>5 DEF Accepted

LEMMA HeadIsMine ==
  ASSUME SystemInv, SkipInv, NEW n \in Daemons, RowsOK(n), NEW i \in DOMAIN outbox[n]
  PROVE  Mine(Exec(n, i))
<1>1. PICK k \in DOMAIN processed[n] :
        processed[n][k] = [execution |-> Exec(n, i), outcome |-> "completed"]
  BY DEF RowsOK, IsRecorded
<1>2. processed[n][k].execution = Exec(n, i) /\ processed[n][k].outcome = "completed"
  BY <1>1
<1>3. QED
  BY <1>1, <1>2 DEF SkipInv, NothingIsSkipped, Recorded

(* A result that the chain takes is the next write after what it holds.     *)
LEMMA AcceptedMoves ==
  ASSUME SystemInv, SystemInv', SkipInv, ChainInv, NEW n \in Daemons, RowsOK(n), Submits(n),
         NEW e, e = Exec(n, 1), NEW v \in Variables
  PROVE  /\ Accepted(v) = WriterAt[requests[e].oldStateRoot][v]
         /\ Accepted(v)' = IF v \in Call[e].writes THEN e ELSE Accepted(v)
<1>1. e = NextPending(n).execution /\ 1 \in DOMAIN outbox[n] /\ Writes(n) = Call[e].writes
  BY RowFacts DEF Exec, NextPending, Submits, Writes
<1>2. ContractOf(e) = DaemonContract
  BY <1>1, HeadIsMine DEF Mine
<1>3. PICK r : r = requests[e].oldStateRoot
  OBVIOUS
<1>4. /\ e \in ExecutionIds /\ Requested(e) /\ contracts[DaemonContract].stateRoot = r
      /\ contracts'[DaemonContract].stateRoot = (IF Writes(n) = {} THEN r ELSE e)
  BY <1>1, <1>2, <1>3, SubmitFacts DEF Requested
<1>5. ChainMoves /\ DaemonContract \in ContractIds
  BY DaemonAssumption DEF ChainMoves
<1>6. r \in Roots /\ e \in Roots /\ (r \notin ExecutionIds \/ Requested(r))
  BY <1>4, <1>5, ZeroIsNoExecution
     DEF SystemInv, RegistryInv, TypeOK, ConfidentialContract, ChainInv, RootsAreOlder
<1>7. WriterAt'[r] = WriterAt[r] /\ WriterAt'[e] = WriterAt[e]
  BY <1>4, <1>5, <1>6, WriterStep
<1>8. WriterAt[e][v] = IF v \in Call[e].writes THEN e ELSE WriterAt[r][v]
  BY <1>3, <1>4, <1>6, WriterSolves, WriterCases
<1>9. Accepted(v) = WriterAt[r][v]
  BY <1>4 DEF Accepted
<1>10. CASE Writes(n) = {}
  <2>1. Accepted(v)' = WriterAt[r][v]
    BY <1>4, <1>7, <1>10 DEF Accepted
  <2>2. QED
    BY <1>1, <1>3, <1>9, <1>10, <2>1
<1>11. CASE Writes(n) # {}
  <2>1. Accepted(v)' = WriterAt[e][v]
    BY <1>4, <1>7, <1>11 DEF Accepted
  <2>2. QED
    BY <1>3, <1>8, <1>9, <2>1
<1>12. QED
  BY <1>10, <1>11

LEMMA SeesSubmitted ==
  ASSUME SystemInv, SystemInv', SkipInv, ChainInv, NEW n \in Daemons, RowsOK(n), Submits(n),
         UNCHANGED ledgerVars, NEW i \in 2..(Len(outbox[n]) + 1), NEW v \in Variables, NEW w,
         Sees(n, i, v, w)
  PROVE  Sees(n, i, v, w)'
<1>1. PICK e : e = Exec(n, 1)
  OBVIOUS
<1>2. /\ 1 \in DOMAIN outbox[n] /\ e \in ExecutionIds /\ e = NextPending(n).execution
      /\ DOMAIN outbox[n] = 1..Len(outbox[n]) /\ Len(outbox[n]) \in Nat
  BY <1>1, RowFacts DEF Submits, Exec, NextPending
<1>3. /\ ~Completed(e) /\ Completed(e)'
      /\ \A f \in ExecutionIds \ {e} : Completed(f)' <=> Completed(f)
  BY <1>2, SubmitFacts DEF Completed
<1>4. Accepted(v)' = IF v \in Call[e].writes THEN e ELSE Accepted(v)
  BY <1>1, AcceptedMoves
<1>5. \A j \in 1..(i - 1) : /\ j \in DOMAIN outbox[n] /\ Exec(n, j) \in ExecutionIds
                            /\ Exec(n, j)' = Exec(n, j) /\ (Touches(n, j, v)' <=> Touches(n, j, v))
  <2>1. \A j \in 1..(i - 1) : j \in DOMAIN outbox[n]
    BY <1>2
  <2>2. QED
    BY <2>1, RowFacts DEF Exec, Touches, ledgerVars
<1>6. ASSUME NEW j \in 1..(i - 1)
      PROVE  Completed(Exec(n, j))' <=> (Completed(Exec(n, j)) \/ j = 1)
  <2>1. PICK f \in ExecutionIds : f = Exec(n, j)
    BY <1>5
  <2>2. f = e <=> j = 1
    BY <1>1, <1>2, <1>5, <2>1 DEF RowsOK
  <2>3. Completed(f)' <=> (Completed(f) \/ j = 1)
    BY <1>3, <2>2
  <2>4. QED
    BY <1>5, <2>1, <2>3 DEF Completed
<1>7. Touches(n, 1, v) <=> v \in Call[e].writes
  BY <1>1 DEF Touches
<1>8. ASSUME NEW j \in 1..(i - 1),
             /\ ~Completed(Exec(n, j)) /\ Exec(n, j) = w /\ Touches(n, j, v)
             /\ \A l \in (j + 1)..(i - 1) : ~Touches(n, l, v)
      PROVE  Sees(n, i, v, w)'
  <2>1. CASE j = 1
    <3>1. w = Accepted(v)'
      BY <1>1, <1>4, <1>7, <1>8, <2>1
    <3>2. \A l \in 1..(i - 1) : l = 1 \/ l \in (j + 1)..(i - 1)
      BY <2>1
    <3>3. \A l \in 1..(i - 1) : ~Completed(Exec(n, l))' => ~Touches(n, l, v)'
      BY <1>5, <1>6, <1>8, <3>2
    <3>4. QED
      BY <3>1, <3>3 DEF Sees
  <2>2. CASE j # 1
    <3>1. \A l \in (j + 1)..(i - 1) : l \in 1..(i - 1)
      OBVIOUS
    <3>2. /\ ~Completed(Exec(n, j))' /\ Exec(n, j)' = w /\ Touches(n, j, v)'
          /\ \A l \in (j + 1)..(i - 1) : ~Touches(n, l, v)'
      BY <1>5, <1>6, <1>8, <2>2, <3>1
    <3>3. QED
      BY <3>2 DEF Sees
  <2>3. QED
    BY <2>1, <2>2
<1>9. ASSUME \A j \in 1..(i - 1) : ~Completed(Exec(n, j)) => ~Touches(n, j, v),
             w = Accepted(v)
      PROVE  Sees(n, i, v, w)'
  <2>1. 1 \in 1..(i - 1)
    BY <1>2
  <2>2. ~Touches(n, 1, v)
    BY <1>1, <1>3, <1>9, <2>1
  <2>3. w = Accepted(v)'
    BY <1>4, <1>7, <1>9, <2>2
  <2>4. \A j \in 1..(i - 1) : ~Completed(Exec(n, j))' => ~Touches(n, j, v)'
    BY <1>5, <1>6, <1>9
  <2>5. QED
    BY <2>3, <2>4 DEF Sees
<1>10. QED
  BY <1>8, <1>9 DEF Sees

LEMMA BasesKept ==
  ASSUME SystemInv, SystemInv', ChainInv, ChainMoves, contracts' = contracts,
         NEW n \in Daemons, BasesOK(n), outbox'[n] = outbox[n], cells'[n] = cells[n],
         \A e \in ExecutionIds : Completed(e)' <=> Completed(e)
  PROVE  BasesOK(n)'
<1>1. PICK len : len = Len(outbox[n])
  OBVIOUS
<1>2. /\ DOMAIN outbox[n] = 1..len /\ len \in Nat
      /\ \A i \in 1..len : /\ Exec(n, i)' = Exec(n, i) /\ Exec(n, i) \in ExecutionIds
                           /\ Call[Exec(n, i)].reads \subseteq Variables
  BY <1>1, RowFacts DEF Exec
<1>3. ASSUME NEW i \in 1..(len + 1), NEW v \in Variables, NEW w, Sees(n, i, v, w)
      PROVE  Sees(n, i, v, w)'
  <2>1. \A j \in 1..(i - 1) : j \in 1..len
    BY <1>2
  <2>2. Accepted(v)' = Accepted(v)
    BY AcceptedKept
  <2>3. QED
    BY <1>1, <1>2, <1>3, <2>1, <2>2, SeesKept
<1>4. ASSUME NEW i \in 1..len, ~Completed(Exec(n, i))', NEW v \in Call[Exec(n, i)].reads
      PROVE  Sees(n, i, v, outbox[n][i].basis[v])'
  <2>1. PICK e \in ExecutionIds : e = Exec(n, i)
    BY <1>2
  <2>2. ~Completed(e)
    BY <1>2, <1>4, <2>1 DEF Completed
  <2>3. PICK w : w = outbox[n][i].basis[v]
    OBVIOUS
  <2>4. Sees(n, i, v, w) /\ v \in Variables
    BY <1>2, <1>4, <2>1, <2>2, <2>3 DEF BasesOK
  <2>5. Sees(n, i, v, w)'
    BY <1>2, <1>3, <2>4
  <2>6. QED
    BY <2>3, <2>5 DEF Sees, Exec, Touches, Completed, Accepted
<1>5. ASSUME NEW v \in Variables PROVE Sees(n, Len(outbox[n]) + 1, v, cells[n][v])'
  <2>1. PICK w : w = cells[n][v]
    OBVIOUS
  <2>2. Sees(n, len + 1, v, w)
    BY <1>1, <2>1 DEF BasesOK
  <2>3. Sees(n, len + 1, v, w)'
    BY <1>2, <1>3, <2>2
  <2>4. QED
    BY <1>1, <2>1, <2>3 DEF Sees, Exec, Touches, Completed, Accepted
<1>6. QED
  BY <1>2, <1>4, <1>5 DEF BasesOK

(* A row that comes later is not seen by the rows before it.                *)
LEMMA NextSeesLater ==
  \A n, v, w : \A i \in Nat \ {0} :
    Sees(n, i, v, w)' /\ ~Touches(n, i, v)' => Sees(n, i + 1, v, w)'
<1> SUFFICES ASSUME NEW n, NEW v, NEW w, NEW i \in Nat \ {0}, Sees(n, i, v, w)', ~Touches(n, i, v)'
             PROVE  Sees(n, i + 1, v, w)'
  OBVIOUS
<1>1. (i + 1) - 1 = i /\ \A j \in 1..i : j = i \/ j \in 1..(i - 1)
  OBVIOUS
<1>2. ASSUME NEW j \in 1..(i - 1),
             /\ ~Completed(Exec(n, j))' /\ Exec(n, j)' = w /\ Touches(n, j, v)'
             /\ \A l \in (j + 1)..(i - 1) : ~Touches(n, l, v)'
      PROVE  Sees(n, i + 1, v, w)'
  <2>1. \A l \in (j + 1)..i : l = i \/ l \in (j + 1)..(i - 1)
    OBVIOUS
  <2>2. j \in 1..i /\ \A l \in (j + 1)..i : ~Touches(n, l, v)'
    BY <1>2, <2>1
  <2>3. QED
    BY <1>1, <1>2, <2>2 DEF Sees
<1>3. ASSUME \A j \in 1..(i - 1) : ~Completed(Exec(n, j))' => ~Touches(n, j, v)', w = Accepted(v)'
      PROVE  Sees(n, i + 1, v, w)'
  <2>1. \A j \in 1..i : ~Completed(Exec(n, j))' => ~Touches(n, j, v)'
    BY <1>1, <1>3
  <2>2. QED
    BY <1>1, <1>3, <2>1 DEF Sees
<1>4. QED
  BY <1>2, <1>3 DEF Sees

LEMMA BasesCommitted ==
  ASSUME SystemInv, SystemInv', SkipInv, ChainInv, ChainMoves, NEW n \in Daemons, RowsOK(n),
         BasesOK(n), CommitComputation(n), Settled
  PROVE  BasesOK(n)'
<1>1. PICK e : e = NextTask(n)
  OBVIOUS
<1>2. PICK len : len = Len(outbox[n])
  OBVIOUS
<1>3. /\ e \in ExecutionIds /\ ~Completed(e) /\ len \in Nat
      /\ DOMAIN outbox[n] = 1..len /\ DOMAIN outbox'[n] = 1..(len + 1)
      /\ outbox'[n][len + 1].execution = e
      /\ outbox'[n][len + 1].basis = [v \in Call[e].reads |-> cells[n][v]]
      /\ \A i \in 1..len : outbox'[n][i] = outbox[n][i]
      /\ cells'[n] = [v \in Variables |-> IF v \in Call[e].writes THEN e ELSE cells[n][v]]
  BY <1>1, <1>2, CommitFacts DEF SkipInv, ChainInv
<1>4. Exec(n, len + 1)' = e /\ \A i \in 1..len : Exec(n, i)' = Exec(n, i) /\ Exec(n, i) \in ExecutionIds
  BY <1>3, RowFacts DEF Exec
<1>5. Len(outbox[n])' = len + 1
  <2>1. outbox'[n] \in Seq(Row)
    BY DEF SystemInv, DaemonTypeOK
  <2>2. Len(outbox'[n]) \in Nat /\ DOMAIN outbox'[n] = 1..Len(outbox'[n])
    BY <2>1
  <2>3. QED
    BY <1>3, <2>2
<1>6. ASSUME NEW i \in 1..(len + 1), NEW v \in Variables, NEW w, Sees(n, i, v, w)
      PROVE  Sees(n, i, v, w)'
  <2>1. \A j \in 1..(i - 1) : j \in 1..len
    BY <1>3
  <2>2. Accepted(v)' = Accepted(v)
    BY AcceptedKept DEF Settled
  <2>3. QED
    BY <1>2, <1>4, <1>6, <2>1, <2>2, SeesKept DEF Settled
<1>7. ASSUME NEW i \in 1..len, ~Completed(Exec(n, i))', NEW v \in Call[Exec(n, i)].reads
      PROVE  Sees(n, i, v, outbox[n][i].basis[v])'
  <2>1. PICK f \in ExecutionIds : f = Exec(n, i)
    BY <1>4
  <2>2. ~Completed(f)
    BY <1>4, <1>7, <2>1 DEF Settled, Completed
  <2>3. PICK w : w = outbox[n][i].basis[v]
    OBVIOUS
  <2>4. Sees(n, i, v, w) /\ v \in Variables
    BY <1>3, <1>7, <2>1, <2>2, <2>3, RowFacts DEF BasesOK
  <2>5. Sees(n, i, v, w)'
    BY <1>3, <1>6, <2>4
  <2>6. outbox'[n][i].basis[v] = w
    BY <1>3, <2>3
  <2>7. QED
    BY <2>5, <2>6 DEF Sees, Exec, Touches, Completed, Accepted
<1>8. ASSUME NEW v \in Variables PROVE Sees(n, len + 1, v, cells[n][v]) /\ len + 1 \in Nat \ {0}
  BY <1>2, <1>3 DEF BasesOK
<1>9. ASSUME NEW v \in Call[e].reads PROVE Sees(n, len + 1, v, outbox[n][len + 1].basis[v])'
  <2>1. v \in Variables
    BY <1>3, DaemonAssumption DEF CallRecord
  <2>2. PICK w : w = cells[n][v]
    OBVIOUS
  <2>3. Sees(n, len + 1, v, w)'
    BY <1>3, <1>6, <1>8, <2>1, <2>2
  <2>4. outbox'[n][len + 1].basis[v] = w
    BY <1>3, <2>2
  <2>5. QED
    BY <2>3, <2>4 DEF Sees, Exec, Touches, Completed, Accepted
<1>10. ASSUME NEW v \in Variables PROVE Sees(n, Len(outbox[n]) + 1, v, cells[n][v])'
  <2>1. PICK w : w = cells'[n][v]
    OBVIOUS
  <2>2. Sees(n, len + 2, v, w)'
    <3>1. CASE v \in Call[e].writes
      <4>1. w = e /\ len + 1 \in 1..((len + 2) - 1)
        BY <1>3, <2>1, <3>1
      <4>2. ~Completed(Exec(n, len + 1))' /\ Exec(n, len + 1)' = w /\ Touches(n, len + 1, v)'
        BY <1>3, <1>4, <3>1, <4>1 DEF Settled, Completed, Touches
      <4>3. \A l \in ((len + 1) + 1)..((len + 2) - 1) : FALSE
        BY <1>3
      <4>4. QED
        BY <4>1, <4>2, <4>3 DEF Sees
    <3>2. CASE v \notin Call[e].writes
      <4>1. w = cells[n][v]
        BY <1>3, <2>1, <3>2
      <4>2. Sees(n, len + 1, v, w)'
        BY <1>3, <1>6, <1>8, <4>1
      <4>3. ~Touches(n, len + 1, v)'
        BY <1>4, <3>2 DEF Touches
      <4>4. Sees(n, (len + 1) + 1, v, w)'
        BY <1>8, <4>2, <4>3, NextSeesLater
      <4>5. (len + 1) + 1 = len + 2
        BY <1>3
      <4>6. QED
        BY <4>4, <4>5
    <3>3. QED
      BY <3>1, <3>2
  <2>3. Len(outbox[n])' + 1 = len + 2
    BY <1>3, <1>5
  <2>4. QED
    BY <2>1, <2>2, <2>3 DEF Sees, Exec, Touches, Completed, Accepted
<1>11. ASSUME NEW i \in DOMAIN outbox'[n], ~Completed(Exec(n, i))', NEW v \in Call[Exec(n, i)'].reads
       PROVE  Sees(n, i, v, outbox[n][i].basis[v])'
  <2>1. CASE i = len + 1
    BY <1>4, <1>9, <1>11, <2>1
  <2>2. CASE i \in 1..len
    BY <1>4, <1>7, <1>11, <2>2
  <2>3. QED
    BY <1>3, <1>11, <2>1, <2>2
<1>12. QED
  BY <1>10, <1>11 DEF BasesOK

(* The row that leaves the outbox is accepted: the rows after it see what   *)
(* they saw.                                                                *)
LEMMA BasesMarked ==
  ASSUME SystemInv, SystemInv', SkipInv, ChainInv, ChainMoves, NEW n \in Daemons, RowsOK(n),
         BasesOK(n), MarkSubmitted(n), Settled
  PROVE  BasesOK(n)'
<1>1. PICK len : len = Len(outbox[n])
  OBVIOUS
<1>2. /\ Completed(Exec(n, 1)) /\ cells' = cells /\ len \in Nat \ {0}
      /\ DOMAIN outbox[n] = 1..len /\ DOMAIN outbox'[n] = 1..(len - 1)
      /\ \A i \in 1..(len - 1) : outbox'[n][i] = outbox[n][i + 1]
  BY <1>1, MarkFacts
<1>3. Len(outbox[n])' = len - 1
  <2>1. outbox'[n] \in Seq(Row)
    BY DEF SystemInv, DaemonTypeOK
  <2>2. Len(outbox'[n]) \in Nat /\ DOMAIN outbox'[n] = 1..Len(outbox'[n])
    BY <2>1
  <2>3. QED
    BY <1>2, <2>2
<1>4. \A i \in 1..(len - 1) : /\ Exec(n, i)' = Exec(n, i + 1) /\ Exec(n, i + 1) \in ExecutionIds
                              /\ i + 1 \in DOMAIN outbox[n]
  BY <1>2, RowFacts DEF Exec
<1>5. ASSUME NEW i \in 1..(len - 1), NEW v
      PROVE  /\ Completed(Exec(n, i))' <=> Completed(Exec(n, i + 1))
             /\ Touches(n, i, v)' <=> Touches(n, i + 1, v)
  <2>1. PICK e \in ExecutionIds : e = Exec(n, i + 1)
    BY <1>4
  <2>2. Completed(e)' <=> Completed(e)
    BY DEF Settled
  <2>3. QED
    BY <1>4, <2>1, <2>2 DEF Completed, Touches
<1>6. ASSUME NEW i \in 1..len, NEW v \in Variables, NEW w, Sees(n, i + 1, v, w)
      PROVE  Sees(n, i, v, w)'
  <2>1. (i + 1) - 1 = i /\ i \in Nat
    BY <1>2
  <2>2. ASSUME NEW j \in 1..i,
               /\ ~Completed(Exec(n, j)) /\ Exec(n, j) = w /\ Touches(n, j, v)
               /\ \A l \in (j + 1)..i : ~Touches(n, l, v)
        PROVE  Sees(n, i, v, w)'
    <3>1. j # 1
      BY <1>2, <2>2
    <3>2. PICK k \in 1..(i - 1) : j = k + 1
      <4>1. j - 1 \in 1..(i - 1) /\ j = (j - 1) + 1
        BY <1>2, <3>1
      <4>2. QED
        BY <4>1
    <3>3. \A l \in 1..(i - 1) : l \in 1..(len - 1)
      BY <1>2
    <3>4. ~Completed(Exec(n, k))' /\ Exec(n, k)' = w /\ Touches(n, k, v)'
      BY <1>4, <1>5, <2>2, <3>2, <3>3
    <3>5. \A l \in (k + 1)..(i - 1) : l + 1 \in (j + 1)..i /\ l \in 1..(len - 1)
      BY <1>2, <3>2
    <3>6. \A l \in (k + 1)..(i - 1) : ~Touches(n, l, v)'
      BY <1>5, <2>2, <3>5
    <3>7. QED
      BY <3>4, <3>6 DEF Sees
  <2>3. ASSUME \A j \in 1..i : ~Completed(Exec(n, j)) => ~Touches(n, j, v), w = Accepted(v)
        PROVE  Sees(n, i, v, w)'
    <3>1. w = Accepted(v)'
      BY <2>3, AcceptedKept DEF Settled
    <3>2. \A j \in 1..(i - 1) : j + 1 \in 1..i /\ j \in 1..(len - 1)
      BY <1>2
    <3>3. \A j \in 1..(i - 1) : ~Completed(Exec(n, j))' => ~Touches(n, j, v)'
      BY <1>5, <2>3, <3>2
    <3>4. QED
      BY <3>1, <3>3 DEF Sees
  <2>4. QED
    BY <1>6, <2>1, <2>2, <2>3 DEF Sees
<1>7. ASSUME NEW i \in DOMAIN outbox'[n], ~Completed(Exec(n, i))', NEW v \in Call[Exec(n, i)'].reads
      PROVE  Sees(n, i, v, outbox[n][i].basis[v])'
  <2>1. i \in 1..(len - 1)
    BY <1>2
  <2>2. /\ ~Completed(Exec(n, i + 1)) /\ i + 1 \in DOMAIN outbox[n] /\ v \in Call[Exec(n, i + 1)].reads
    BY <1>4, <1>5, <1>7, <2>1
  <2>3. PICK w : w = outbox[n][i + 1].basis[v]
    OBVIOUS
  <2>4. Sees(n, i + 1, v, w) /\ v \in Variables
    BY <2>2, <2>3, RowFacts DEF BasesOK
  <2>5. Sees(n, i, v, w)'
    <3>1. i \in 1..len
      BY <1>2, <2>1
    <3>2. QED
      BY <1>6, <2>4, <3>1
  <2>6. outbox'[n][i].basis[v] = w
    BY <1>2, <2>1, <2>3
  <2>7. QED
    BY <2>5, <2>6 DEF Sees, Exec, Touches, Completed, Accepted
<1>8. ASSUME NEW v \in Variables PROVE Sees(n, Len(outbox[n]) + 1, v, cells[n][v])'
  <2>1. PICK w : w = cells[n][v]
    OBVIOUS
  <2>2. Sees(n, len + 1, v, w)
    BY <1>1, <2>1 DEF BasesOK
  <2>3. Sees(n, len, v, w)'
    BY <1>2, <1>6, <2>2
  <2>4. cells'[n][v] = w /\ Len(outbox[n])' + 1 = len
    BY <1>2, <1>3, <2>1
  <2>5. QED
    BY <2>3, <2>4 DEF Sees, Exec, Touches, Completed, Accepted
<1>9. QED
  BY <1>7, <1>8 DEF BasesOK

LEMMA BasesSubmitted ==
  ASSUME SystemInv, SystemInv', SkipInv, ChainInv, NEW n \in Daemons, RowsOK(n), BasesOK(n),
         Submits(n), UNCHANGED ledgerVars
  PROVE  BasesOK(n)'
<1>1. PICK len : len = Len(outbox[n])
  OBVIOUS
<1>2. /\ DOMAIN outbox[n] = 1..len /\ len \in Nat \ {0} /\ UNCHANGED <<cells, outbox>>
  BY <1>1, RowFacts DEF Submits, ledgerVars
<1>3. PICK e : e = NextPending(n).execution
  OBVIOUS
<1>4. /\ e = Exec(n, 1) /\ executions'[e].status = "Completed"
      /\ \A f \in ExecutionIds \ {e} : executions'[f] = executions[f]
  BY <1>3, SubmitFacts DEF Exec, NextPending
<1>5. ASSUME NEW i \in DOMAIN outbox[n], ~Completed(Exec(n, i))', NEW v \in Call[Exec(n, i)].reads
      PROVE  Sees(n, i, v, outbox[n][i].basis[v])'
  <2>1. PICK f \in ExecutionIds : f = Exec(n, i) /\ f = Exec(n, i)'
    BY <1>2, RowFacts DEF Exec
  <2>2. f # e
    BY <1>4, <1>5, <2>1 DEF Completed
  <2>3. ~Completed(f) /\ i # 1
    BY <1>4, <1>5, <2>1, <2>2 DEF Completed
  <2>4. PICK w : w = outbox[n][i].basis[v]
    OBVIOUS
  <2>5. Sees(n, i, v, w) /\ v \in Variables
    BY <2>1, <2>3, <2>4, RowFacts DEF BasesOK
  <2>6. i \in 2..(Len(outbox[n]) + 1)
    BY <1>1, <1>2, <2>3
  <2>7. Sees(n, i, v, w)'
    BY <2>5, <2>6, SeesSubmitted
  <2>8. QED
    BY <1>2, <2>4, <2>7 DEF Sees, Exec, Touches, Completed, Accepted
<1>6. ASSUME NEW v \in Variables PROVE Sees(n, Len(outbox[n]) + 1, v, cells[n][v])'
  <2>1. PICK w : w = cells[n][v]
    OBVIOUS
  <2>2. Sees(n, len + 1, v, w) /\ len + 1 \in 2..(Len(outbox[n]) + 1)
    BY <1>1, <1>2, <2>1 DEF BasesOK
  <2>3. Sees(n, len + 1, v, w)'
    BY <2>2, SeesSubmitted
  <2>4. QED
    BY <1>1, <1>2, <2>1, <2>3 DEF Sees, Exec, Touches, Completed, Accepted
<1>7. \A i \in DOMAIN outbox[n] : Exec(n, i)' = Exec(n, i)
  BY <1>2 DEF Exec
<1>8. QED
  BY <1>2, <1>5, <1>6, <1>7 DEF BasesOK

LEMMA BasesStep ==
  ASSUME SystemInv, SystemInv', SkipInv, ChainInv, [DaemonNext]_allVars, NEW n, Daemons = {n},
         RowsOK(n), BasesOK(n)
  PROVE  BasesOK(n)'
<1>1. n \in Daemons
  OBVIOUS
<1>2. ChainMoves
  BY SoleChainMoves
<1>3. CASE Works(n) /\ Settled
  <2>1. CASE SkipTask(n)
    BY <1>1, <1>2, <1>3, <2>1, BasesKept DEF Settled, SkipTask
  <2>2. QED
    BY <1>1, <1>2, <1>3, <2>1, BasesCommitted, BasesMarked DEF Works
<1>4. CASE Publishes(n) /\ UNCHANGED ledgerVars
  <2>1. UNCHANGED <<cells, outbox>>
    BY <1>4 DEF ledgerVars
  <2>2. CASE Settled
    BY <1>1, <1>2, <2>1, <2>2, BasesKept DEF Settled
  <2>3. CASE Submits(n)
    BY <1>1, <1>4, <2>3, BasesSubmitted
  <2>4. ASSUME NEW e \in ExecutionIds, Invokes(e) PROVE BasesOK(n)'
    <3>1. contracts' = contracts /\ \A f \in ExecutionIds : Completed(f)' <=> Completed(f)
      BY <2>4, InvokeFacts DEF Completed
    <3>2. QED
      BY <1>1, <1>2, <2>1, <3>1, BasesKept
  <2>5. QED
    BY <1>4, <2>2, <2>3, <2>4 DEF Publishes
<1>5. QED
  BY <1>3, <1>4, SoleMoves

LEMMA OldRootIsKnown ==
  ASSUME SystemInv, ChainInv, NEW e \in ExecutionIds, Requested(e)
  PROVE  /\ requests[e].oldStateRoot \in Roots
         /\ requests[e].oldStateRoot \notin ExecutionIds \/ Requested(requests[e].oldStateRoot)
<1>1. requests \in [ExecutionIds -> Request] /\ executionIds \in Seq(ExecutionIds)
  BY DEF SystemInv, RegistryInv, TypeOK
<1>2. PICK i \in DOMAIN executionIds : executionIds[i] = e
  BY DEF ChainInv, QueueOK
<1>3. ASSUME requests[e].oldStateRoot \in ExecutionIds PROVE Requested(requests[e].oldStateRoot)
  <2>1. PICK j \in 1..(i - 1) : executionIds[j] = requests[e].oldStateRoot
    BY <1>2, <1>3 DEF ChainInv, RootsAreOlder
  <2>2. j \in DOMAIN executionIds
    BY <1>1, <1>2, <2>1
  <2>3. QED
    BY <2>1, <2>2 DEF ChainInv, QueueOK
<1>4. QED
  BY <1>1, <1>3 DEF Request

\* Execution e was computed from the state at its old root.
ComputedOnBase(e) ==
  Mine(e) /\ Completed(e) =>
    \A v \in Call[e].reads : executions[e].outputId[2][v] = WriterAt[requests[e].oldStateRoot][v]

LEMMA ComputedStep ==
  ASSUME SystemInv, SystemInv', SkipInv, ChainInv, [DaemonNext]_allVars, NEW n, Daemons = {n},
         RowsOK(n), BasesOK(n), NEW e \in ExecutionIds, ComputedOnBase(e)
  PROVE  ComputedOnBase(e)'
<1>1. n \in Daemons /\ ChainMoves
  BY SoleChainMoves
<1>2. ASSUME requests'[e] = requests[e], executions'[e].outputId = executions[e].outputId,
             Completed(e)' => Completed(e)
      PROVE  ComputedOnBase(e)'
  <2> SUFFICES ASSUME Mine(e), Completed(e)', NEW v \in Call[e].reads
               PROVE  executions'[e].outputId[2][v] = WriterAt'[requests'[e].oldStateRoot][v]
    BY DEF ComputedOnBase, Completed, Mine
  <2>1. PICK r : r = requests[e].oldStateRoot
    OBVIOUS
  <2>2. Completed(e) /\ Requested(e)
    BY <1>2 DEF Completed, Requested
  <2>3. r \in Roots /\ (r \notin ExecutionIds \/ Requested(r))
    BY <2>1, <2>2, OldRootIsKnown
  <2>4. WriterAt'[r] = WriterAt[r]
    BY <1>1, <2>3, WriterStep
  <2>5. QED
    BY <1>2, <2>1, <2>2, <2>4 DEF ComputedOnBase
<1>3. CASE Settled
  BY <1>2, <1>3 DEF Settled
<1>4. ASSUME NEW x \in ExecutionIds, Invokes(x) PROVE ComputedOnBase(e)'
  <2>1. CASE e = x
    BY <1>4, <2>1, InvokeFacts DEF ComputedOnBase, Completed
  <2>2. CASE e # x
    BY <1>2, <1>4, <2>2, InvokeFacts DEF Completed
  <2>3. QED
    BY <2>1, <2>2
<1>5. CASE Submits(n)
  <2>1. PICK head : head = NextPending(n).execution
    OBVIOUS
  <2>2. /\ head \in ExecutionIds /\ head = Exec(n, 1) /\ 1 \in DOMAIN outbox[n] /\ requests' = requests
        /\ executions[head].status = "Running" /\ executions'[head].outputId = OutputId(head, outbox[n][1].basis)
        /\ \A f \in ExecutionIds \ {head} : executions'[f] = executions[f]
    BY <1>1, <1>5, <2>1, SubmitFacts, RowFacts DEF Exec, NextPending, Output, Submits
  <2>3. CASE e # head
    BY <1>2, <2>2, <2>3 DEF Completed
  <2>4. CASE e = head
    <3> SUFFICES ASSUME NEW v \in Call[e].reads
                 PROVE  executions'[e].outputId[2][v] = WriterAt'[requests'[e].oldStateRoot][v]
      BY DEF ComputedOnBase
    <3>1. PICK r : r = requests[e].oldStateRoot
      OBVIOUS
    <3>2. PICK w : w = outbox[n][1].basis[v]
      OBVIOUS
    <3>3. ~Completed(Exec(n, 1)) /\ Requested(e) /\ v \in Variables
      BY <1>1, <2>2, <2>4, RowFacts DEF Completed, Requested
    <3>4. Sees(n, 1, v, w)
      BY <2>2, <2>4, <3>2, <3>3 DEF BasesOK
    <3>5. \A j \in 1..(1 - 1) : FALSE
      OBVIOUS
    <3>6. w = Accepted(v)
      BY <3>4, <3>5 DEF Sees
    <3>7. Accepted(v) = WriterAt[r][v]
      BY <1>1, <1>5, <2>2, <2>4, <3>1, <3>3, AcceptedMoves
    <3>8. r \in Roots /\ (r \notin ExecutionIds \/ Requested(r))
      BY <3>1, <3>3, OldRootIsKnown
    <3>9. WriterAt'[r] = WriterAt[r]
      BY <1>1, <3>8, WriterStep
    <3>10. executions'[e].outputId[2][v] = w
      BY <2>2, <2>4, <3>2 DEF OutputId
    <3>11. QED
      BY <2>2, <3>1, <3>6, <3>7, <3>9, <3>10
  <2>5. QED
    BY <2>3, <2>4
<1>6. QED
  BY <1>3, <1>4, <1>5, SoleMoves DEF Publishes

SoleInv(n) == /\ SystemInv /\ SkipInv /\ ChainInv /\ RowsOK(n) /\ BasesOK(n)
              /\ AcceptedOnAcceptedState

LEMMA SoleStep ==
  ASSUME NEW n, Daemons = {n}
  PROVE  SoleInv(n) /\ [DaemonNext]_allVars => SoleInv(n)'
<1> SUFFICES ASSUME SoleInv(n), [DaemonNext]_allVars PROVE SoleInv(n)'
  OBVIOUS
<1>1. SystemInv /\ SkipInv /\ ChainInv /\ RowsOK(n) /\ BasesOK(n)
  BY DEF SoleInv
<1>2. SystemInv' /\ SkipInv'
  BY <1>1, SystemStep, SkipStep
<1>3. ChainInv'
  BY <1>1, <1>2, SoleChainMoves, WriterStep
<1>4. RowsOK(n)' /\ BasesOK(n)'
  BY <1>1, <1>2, RowsStep, BasesStep
<1>5. \A e \in ExecutionIds : ComputedOnBase(e)
  BY DEF SoleInv, AcceptedOnAcceptedState, ComputedOnBase
<1>6. \A e \in ExecutionIds : ComputedOnBase(e)'
  BY <1>1, <1>2, <1>5, ComputedStep
<1>7. AcceptedOnAcceptedState'
  BY <1>6 DEF AcceptedOnAcceptedState, ComputedOnBase, Mine, Completed
<1>8. QED
  BY <1>2, <1>3, <1>4, <1>7 DEF SoleInv

LEMMA SoleInit ==
  ASSUME NEW n, Daemons = {n}
  PROVE  DaemonInit => SoleInv(n)
<1> SUFFICES ASSUME DaemonInit PROVE SoleInv(n)
  OBVIOUS
<1>1. SystemInv
  BY DeploymentOK DEF SystemInv
<1>2. SkipInv
  BY DEF DaemonInit, SkipInv, NothingIsSkipped, StageOK, TaskPhases, LatePhases
<1>3. /\ processed[n] = <<>> /\ outbox[n] = <<>> /\ executionIds = <<>>
      /\ \A v \in Variables : cells[n][v] = None
      /\ \A e \in ExecutionIds : executions[e].status = "None" /\ requests[e].oldStateRoot = ZeroRoot
      /\ \A c \in ContractIds : contracts[c].stateRoot = GenesisRoot
  BY DEF DaemonInit
<1>4. DOMAIN processed[n] = {} /\ DOMAIN outbox[n] = {} /\ DOMAIN executionIds = {} /\ Len(outbox[n]) = 0
  BY <1>3
<1>5. QueueOK /\ RootsAreOlder
  <2>1. QueueOK
    BY <1>3, <1>4 DEF QueueOK, Requested
  <2>2. GenesisRoot \notin ExecutionIds
    BY NullAssumption
  <2>3. \A c \in ContractIds : contracts[c].stateRoot \notin ExecutionIds
    BY <1>3, <2>2
  <2>4. QED
    BY <1>3, <1>4, <2>1, <2>3 DEF RootsAreOlder
<1>6. \E g : WriterEquation(g)
  <2> DEFINE g == [root \in Roots |-> [v \in Variables |->
                     IF root \notin ExecutionIds THEN None
                     ELSE IF v \in Call[root].writes THEN root ELSE None]]
  <2>1. \A v \in Variables : g[ZeroRoot][v] = None
    BY ZeroIsNoExecution
  <2>2. \A root \in ExecutionIds : requests[root].oldStateRoot = ZeroRoot
    BY <1>3
  <2>3. g = [root \in Roots |-> [v \in Variables |->
                     IF root \notin ExecutionIds THEN None
                     ELSE IF v \in Call[root].writes THEN root
                     ELSE g[requests[root].oldStateRoot][v]]]
    BY <2>1, <2>2
  <2>4. QED
    BY <2>3 DEF WriterEquation
<1>7. ChainInv
  BY <1>5, <1>6 DEF ChainInv
<1>8. RowsOK(n)
  BY <1>3, <1>4 DEF RowsOK, Completed
<1>9. BasesOK(n)
  <2>1. ASSUME NEW v \in Variables PROVE Sees(n, Len(outbox[n]) + 1, v, cells[n][v])
    <3>1. Accepted(v) = None
      <4>1. contracts[DaemonContract].stateRoot = GenesisRoot
        BY <1>3, DaemonAssumption
      <4>2. GenesisRoot \in Roots \ ExecutionIds
        BY NullAssumption DEF Roots
      <4>3. QED
        BY <1>7, <4>1, <4>2, WriterSolves, WriterCases DEF Accepted
    <3>2. \A j \in 1..((Len(outbox[n]) + 1) - 1) : FALSE
      BY <1>4
    <3>3. QED
      BY <1>3, <3>1, <3>2 DEF Sees
  <2>2. QED
    BY <1>4, <2>1 DEF BasesOK
<1>10. AcceptedOnAcceptedState
  BY <1>3 DEF AcceptedOnAcceptedState, Completed
<1>11. QED
  BY <1>1, <1>2, <1>7, <1>8, <1>9, <1>10 DEF SoleInv

(* What the chain accepts was computed on what it had accepted, when one    *)
(* daemon serves the contract: its cells run ahead of the chain by the      *)
(* results in its outbox and no others, and these are submitted in order.   *)
THEOREM ResultsAreOnAcceptedState ==
  ASSUME NEW n, Daemons = {n}
  PROVE  DaemonSpec => []AcceptedOnAcceptedState
<1>1. DaemonInit => SoleInv(n)
  BY SoleInit
<1>2. SoleInv(n) /\ [DaemonNext]_allVars => SoleInv(n)'
  BY SoleStep
<1>3. SoleInv(n) => AcceptedOnAcceptedState
  BY DEF SoleInv
<1>4. QED
  BY <1>1, <1>2, <1>3, PTL DEF DaemonSpec

-----------------------------------------------------------------------------
(* What has left the outbox is on the chain *)

\* The chain has variable v bound to the result at the head.
BoundToHead(n, v) == stateVariables[v].dataId = Output(n)

(* What the walk through the parts of a result has made sure of so far.     *)
WalkOK(n) ==
  /\ phase[n] \in CallPhases \cup {"key", "keyLocations", "result"} =>
       memory[n].visited = {} /\ memory[n].existing = {}
  /\ phase[n] \in LatePhases =>
       /\ memory[n].existing \subseteq memory[n].visited /\ memory[n].visited \subseteq Writes(n)
       /\ \A v \in memory[n].visited : stateVariables[v].exists
  /\ phase[n] \in {"declare", "update"} =>
       \A v \in memory[n].visited \ memory[n].existing : BoundToHead(n, v)
  /\ phase[n] \in {"update", "open", "mark"} => memory[n].visited = Writes(n)
  /\ phase[n] \in {"open", "mark"} => \A v \in Writes(n) : BoundToHead(n, v)
  /\ phase[n] = "mark" /\ Call[Exec(n, 1)].opens =>
       openingResults[Exec(n, 1)] = outbox[n][1].basis

(* The update of an execution is made once, and for its result.             *)
FinalizedOK(n) ==
  /\ \A e \in updatesFinalized : Completed(e)
  /\ outbox[n] # <<>> /\ Exec(n, 1) \in updatesFinalized => \A v \in Writes(n) : BoundToHead(n, v)

(* A cell names the last row that writes it, and the execution that its     *)
(* variable is bound to when no row does.                                   *)
CellOK(n, v) ==
  /\ \A i \in DOMAIN outbox[n] :
       Touches(n, i, v) /\ (\A j \in DOMAIN outbox[n] : j > i => ~Touches(n, j, v)) =>
         cells[n][v] = Exec(n, i)
  /\ (\A i \in DOMAIN outbox[n] : ~Touches(n, i, v)) /\ cells[n][v] # None =>
       Completed(cells[n][v]) /\ stateVariables[v].dataId = executions[cells[n][v]].outputId
CellsOK(n) == \A v \in Variables : CellOK(n, v)

(* The parts of a result that has left the outbox.                          *)
PartsOK(e) ==
  /\ \A v \in Call[e].writes : stateVariables[v].exists
  /\ Call[e].opens => openingResults[e] = executions[e].outputId[2]
DoneOK(n) == \A e \in ExecutionIds : IsRecorded(n, e) /\ ~InOutbox(n, e) => PartsOK(e)

OpeningsOK == openingResults = [e \in ExecutionIds |-> openingResults[e]]

PartsInv(n) == WalkOK(n) /\ FinalizedOK(n) /\ CellsOK(n) /\ DoneOK(n) /\ OpeningsOK

LEMMA HeadFacts ==
  ASSUME SystemInv, NEW n \in Daemons, RowsOK(n), outbox[n] # <<>>
  PROVE  /\ 1 \in DOMAIN outbox[n] /\ Exec(n, 1) \in ExecutionIds
         /\ NextPending(n).execution = Exec(n, 1) /\ NextPending(n).basis = outbox[n][1].basis
         /\ Writes(n) = Call[Exec(n, 1)].writes /\ Writes(n) \subseteq Variables
         /\ Output(n) = OutputId(Exec(n, 1), outbox[n][1].basis)
         /\ Completed(Exec(n, 1)) => executions[Exec(n, 1)].outputId = Output(n)
         /\ \A v : v \in Writes(n) <=> Touches(n, 1, v)
<1>1. /\ 1 \in DOMAIN outbox[n] /\ Exec(n, 1) \in ExecutionIds
      /\ Call[Exec(n, 1)].writes \subseteq Variables
  BY RowFacts
<1>2. /\ NextPending(n).execution = Exec(n, 1) /\ NextPending(n).basis = outbox[n][1].basis
      /\ Writes(n) = Call[Exec(n, 1)].writes
      /\ Output(n) = OutputId(Exec(n, 1), outbox[n][1].basis)
  BY DEF NextPending, Exec, Writes, Output
<1>3. Completed(Exec(n, 1)) => executions[Exec(n, 1)].outputId = Output(n)
  BY <1>1, <1>2 DEF RowsOK
<1>4. QED
  BY <1>1, <1>2, <1>3 DEF Touches

(* Whatever step is taken, a declared variable stays declared, and variables *)
(* and openings change only for the head, to what the head says.            *)
LEMMA BindingMoves ==
  ASSUME SystemInv, [DaemonNext]_allVars, NEW n, Daemons = {n}, RowsOK(n), WalkOK(n), OpeningsOK
  PROVE  /\ \A v \in Variables :
              /\ stateVariables[v].exists => stateVariables'[v].exists
              /\ \/ stateVariables'[v].dataId = stateVariables[v].dataId
                 \/ outbox[n] # <<>> /\ v \in Writes(n) /\ stateVariables'[v].dataId = Output(n)
         /\ \A e \in ExecutionIds :
              \/ openingResults'[e] = openingResults[e]
              \/ /\ outbox[n] # <<>> /\ e = Exec(n, 1)
                 /\ openingResults'[e] = outbox[n][1].basis
         /\ OpeningsOK'
         /\ \/ updatesFinalized' = updatesFinalized
            \/ /\ outbox[n] # <<>> /\ updatesFinalized' = updatesFinalized \cup {Exec(n, 1)}
               /\ phase[n] = "update" /\ Completed(Exec(n, 1))
               /\ \A v \in memory[n].existing : stateVariables'[v].dataId = Output(n)
<1>1. n \in Daemons /\ stateVariables \in [Variables -> StateVariable]
  BY DEF SystemInv, RegistryInv, TypeOK
<1>2. CASE BindingsSame
  BY <1>2 DEF BindingsSame, OpeningsOK
<1>3. CASE Declares(n)
  <2>1. PICK v \in VariablesToVisit(n) : DeclareStateVariable(n, DaemonContract, v, Output(n))
    BY <1>3 DEF Declares
  <2>2. v \in Writes(n) /\ Writes(n) \subseteq Variables /\ outbox[n] # <<>>
    BY <1>1, <1>3, HeadFacts DEF VariablesToVisit, Declares
  <2>3. /\ stateVariables'[v].exists /\ stateVariables'[v].dataId = Output(n)
        /\ \A x \in Variables \ {v} : stateVariables'[x] = stateVariables[x]
        /\ updatesFinalized' = updatesFinalized
    BY <1>1, <2>1, <2>2 DEF DeclareStateVariable
  <2>4. openingResults' = openingResults
    BY <1>3 DEF Declares
  <2>5. QED
    BY <2>2, <2>3, <2>4 DEF OpeningsOK
<1>4. CASE Updates(n)
  <2> DEFINE existing == memory[n].existing
  <2>1. PICK e : e = Exec(n, 1)
    OBVIOUS
  <2>2. /\ outbox[n] # <<>> /\ phase[n] = "update" /\ e \in ExecutionIds /\ e = NextPending(n).execution
        /\ Writes(n) \subseteq Variables
    BY <1>1, <1>4, <2>1, HeadFacts DEF Updates
  <2>3. UpdateStateVariablesAfterResult(n, e, existing, {n}) /\ openingResults' = openingResults
    BY <1>4, <2>2 DEF Updates
  <2>4. Completed(e) /\ executions[e].outputId = Output(n)
    <3>1. Completed(e)
      BY <2>3 DEF UpdateStateVariablesAfterResult, Completed
    <3>2. QED
      BY <1>1, <2>1, <2>2, <3>1, HeadFacts
  <2>5. existing \subseteq Writes(n)
    BY <2>2 DEF WalkOK, LatePhases
  <2> HIDE DEF existing
  <2>6. /\ \A v \in existing : /\ stateVariables[v].exists
                               /\ stateVariables'[v] = Rebound(stateVariables[v], executions[e].outputId)
        /\ \A v \in Variables \ existing : stateVariables'[v] = stateVariables[v]
        /\ updatesFinalized' = updatesFinalized \cup {e}
    BY <2>2, <2>3, <2>5 DEF UpdateStateVariablesAfterResult
  <2>7. \A v \in existing : stateVariables'[v].exists /\ stateVariables'[v].dataId = Output(n)
    <3>1. \A v \in existing : stateVariables[v] \in StateVariable
      BY <1>1, <2>2, <2>5
    <3>2. QED
      BY <2>4, <2>6, <3>1 DEF Rebound, StateVariable
  <2>8. \A v \in memory[n].existing : stateVariables'[v].dataId = Output(n)
    BY <2>7 DEF existing
  <2>9. \A v \in Variables :
              /\ stateVariables[v].exists => stateVariables'[v].exists
              /\ \/ stateVariables'[v].dataId = stateVariables[v].dataId
                 \/ outbox[n] # <<>> /\ v \in Writes(n) /\ stateVariables'[v].dataId = Output(n)
    BY <2>2, <2>5, <2>6, <2>7
  <2>10. QED
    BY <2>1, <2>2, <2>3, <2>4, <2>6, <2>8, <2>9 DEF OpeningsOK
<1>5. CASE Opens(n)
  <2>1. PICK e : e = Exec(n, 1)
    OBVIOUS
  <2>2. /\ outbox[n] # <<>> /\ e \in ExecutionIds /\ e = NextPending(n).execution
        /\ NextPending(n).basis = outbox[n][1].basis
    BY <1>1, <1>5, <2>1, HeadFacts DEF Opens
  <2>3. /\ UNCHANGED <<stateVariables, updatesFinalized>>
        /\ openingResults' = [openingResults EXCEPT ![e] = outbox[n][1].basis]
    BY <1>5, <2>2 DEF Opens, FulfillOpening, vars
  <2>4. /\ openingResults'[e] = outbox[n][1].basis
        /\ \A x \in ExecutionIds \ {e} : openingResults'[x] = openingResults[x]
        /\ openingResults' = [x \in ExecutionIds |-> openingResults'[x]]
    BY <2>2, <2>3 DEF OpeningsOK
  <2>5. OpeningsOK'
    BY <2>4 DEF OpeningsOK
  <2>6. QED
    BY <2>1, <2>2, <2>3, <2>4, <2>5
<1>6. QED
  BY <1>2, <1>3, <1>4, <1>5, SoleMoves DEF Publishes

LEMMA HeadStays ==
  ASSUME SystemInv, [DaemonNext]_allVars, NEW n, Daemons = {n}, RowsOK(n), WalkOK(n), OpeningsOK,
         outbox'[n] = outbox[n]
  PROVE  /\ Writes(n)' = Writes(n) /\ Output(n)' = Output(n) /\ Exec(n, 1)' = Exec(n, 1)
         /\ \A v \in Variables : BoundToHead(n, v) => BoundToHead(n, v)'
<1>1. Writes(n)' = Writes(n) /\ Output(n)' = Output(n) /\ Exec(n, 1)' = Exec(n, 1)
  BY DEF Writes, Output, Exec, NextPending
<1>2. \A v \in Variables : BoundToHead(n, v) => BoundToHead(n, v)'
  BY <1>1, BindingMoves DEF BoundToHead
<1>3. QED
  BY <1>1, <1>2

LEMMA WalkStays ==
  ASSUME SystemInv, [DaemonNext]_allVars, NEW n, Daemons = {n}, RowsOK(n), WalkOK(n), OpeningsOK,
         outbox'[n] = outbox[n], phase'[n] = phase[n], memory'[n] = memory[n]
  PROVE  WalkOK(n)'
<1>1. n \in Daemons /\ PhasesOK
  BY DEF SystemInv
<1>2. /\ Writes(n)' = Writes(n) /\ Exec(n, 1)' = Exec(n, 1)
      /\ \A v \in Variables : BoundToHead(n, v) => BoundToHead(n, v)'
      /\ \A v \in Variables : stateVariables[v].exists => stateVariables'[v].exists
  BY HeadStays, BindingMoves
<1>3. phase[n] \in LatePhases => Writes(n) \subseteq Variables /\ Exec(n, 1) \in ExecutionIds
  BY <1>1, HeadFacts DEF PhasesOK, LatePhases, ResultPhases
<1>4. phase[n] \in LatePhases =>
       /\ memory[n].existing \subseteq memory[n].visited /\ memory[n].visited \subseteq Writes(n)
       /\ \A v \in memory[n].visited : stateVariables'[v].exists
  BY <1>2, <1>3 DEF WalkOK
<1>5. phase[n] \in {"declare", "update"} =>
       \A v \in memory[n].visited \ memory[n].existing : BoundToHead(n, v)'
  BY <1>2, <1>3 DEF WalkOK, LatePhases
<1>6. phase[n] \in {"open", "mark"} => \A v \in Writes(n) : BoundToHead(n, v)'
  BY <1>2, <1>3 DEF WalkOK, LatePhases
<1>7. phase[n] = "mark" /\ Call[Exec(n, 1)].opens =>
       openingResults'[Exec(n, 1)] = outbox'[n][1].basis
  BY <1>3, BindingMoves DEF WalkOK, LatePhases
<1>8. /\ phase[n] \in CallPhases \cup {"key", "keyLocations", "result"} =>
           memory[n].visited = {} /\ memory[n].existing = {}
      /\ phase[n] \in {"update", "open", "mark"} => memory[n].visited = Writes(n)
  BY DEF WalkOK
<1>9. QED
  BY <1>2, <1>4, <1>5, <1>6, <1>7, <1>8 DEF WalkOK, BoundToHead

LEMMA WalkVisits ==
  ASSUME SystemInv, [DaemonNext]_allVars, NEW n, Daemons = {n}, RowsOK(n), WalkOK(n), OpeningsOK,
         VisitVariable(n, "confirmed")
  PROVE  WalkOK(n)'
<1>1. n \in Daemons /\ PhasesOK /\ outbox' = outbox /\ phase[n] = "declare"
  BY DEF SystemInv, VisitVariable, ledgerVars, At
<1>2. outbox[n] # <<>> /\ Writes(n) \subseteq Variables /\ Exec(n, 1) \in ExecutionIds
  BY <1>1, HeadFacts DEF PhasesOK, ResultPhases
<1>3. /\ Writes(n)' = Writes(n) /\ Output(n)' = Output(n) /\ Exec(n, 1)' = Exec(n, 1)
      /\ \A v \in Variables : BoundToHead(n, v) => BoundToHead(n, v)'
      /\ \A v \in Variables : stateVariables[v].exists => stateVariables'[v].exists
  BY <1>1, HeadStays, BindingMoves
<1>4. /\ memory[n].existing \subseteq memory[n].visited /\ memory[n].visited \subseteq Writes(n)
      /\ \A v \in memory[n].visited : stateVariables[v].exists
      /\ \A v \in memory[n].visited \ memory[n].existing : BoundToHead(n, v)
  BY <1>1 DEF WalkOK, LatePhases
<1>5. /\ phase \in [Daemons -> CallPhases \cup TaskPhases \cup ResultPhases \cup UploadPhases]
      /\ memory \in [Daemons -> Memory] /\ stateVariables \in [Variables -> StateVariable]
  BY DEF SystemInv, RegistryInv, TypeOK, DaemonTypeOK
<1>6. CASE VariablesToVisit(n) = {} /\ Goto(n, "update")
  <2>1. phase'[n] = "update" /\ memory'[n] = memory[n]
    BY <1>1, <1>5, <1>6 DEF Goto
  <2>2. memory[n].visited = Writes(n)
    BY <1>4, <1>6 DEF VariablesToVisit
  <2>3. QED
    BY <1>2, <1>3, <1>4, <2>1, <2>2 DEF WalkOK, LatePhases, CallPhases, BoundToHead
<1>7. ASSUME NEW v \in VariablesToVisit(n), NEW found \in {{v}, {}}, Visit(n, v, found),
             stateVariables'[v].exists, found = {} => stateVariables'[v].dataId = Output(n)
      PROVE  WalkOK(n)'
  <2>1. /\ phase'[n] = "declare"
        /\ memory'[n].visited = memory[n].visited \cup {v}
        /\ memory'[n].existing = memory[n].existing \cup found
    BY <1>1, <1>5, <1>7 DEF Visit, Memory
  <2>2. v \in Writes(n) /\ v \notin memory[n].visited
    BY <1>7 DEF VariablesToVisit
  <2>3. /\ memory'[n].existing \subseteq memory'[n].visited /\ memory'[n].visited \subseteq Writes(n)
        /\ \A x \in memory'[n].visited : stateVariables'[x].exists
    BY <1>2, <1>3, <1>4, <1>7, <2>1, <2>2
  <2>4. found = {} => BoundToHead(n, v)'
    BY <1>3, <1>7 DEF BoundToHead
  <2>5. \A x \in memory'[n].visited \ memory'[n].existing : BoundToHead(n, x)'
    <3> SUFFICES ASSUME NEW x \in memory'[n].visited \ memory'[n].existing PROVE BoundToHead(n, x)'
      OBVIOUS
    <3>1. CASE x = v
      BY <1>7, <2>1, <2>4, <3>1
    <3>2. CASE x # v
      BY <1>2, <1>3, <1>4, <2>1, <3>2
    <3>3. QED
      BY <3>1, <3>2
  <2>6. QED
    BY <1>3, <2>1, <2>3, <2>5 DEF WalkOK, LatePhases, CallPhases, BoundToHead
<1>8. ASSUME NEW v \in VariablesToVisit(n), stateVariables[v].exists, Chain, Visit(n, v, {v})
      PROVE  WalkOK(n)'
  <2>1. stateVariables'[v].exists
    BY <1>8 DEF Chain, vars
  <2>2. QED
    BY <1>7, <1>8, <2>1
<1>9. ASSUME NEW v \in VariablesToVisit(n), DeclareStateVariable(n, DaemonContract, v, Output(n)),
             Visit(n, v, {})
      PROVE  WalkOK(n)'
  <2>1. v \in Variables
    BY <1>2 DEF VariablesToVisit
  <2>2. stateVariables'[v].exists /\ stateVariables'[v].dataId = Output(n)
    BY <1>5, <1>9, <2>1 DEF DeclareStateVariable
  <2>3. QED
    BY <1>7, <1>9, <2>2
<1>10. QED
  BY <1>6, <1>8, <1>9 DEF VisitVariable, Send, OnControl

LEMMA WalkUpdates ==
  ASSUME SystemInv, SkipInv, [DaemonNext]_allVars, NEW n, Daemons = {n}, RowsOK(n), WalkOK(n),
         FinalizedOK(n), OpeningsOK, UpdateVariables(n, "confirmed"), Walks(n, "update", "open")
  PROVE  WalkOK(n)'
<1>1. n \in Daemons /\ PhasesOK /\ outbox' = outbox /\ phase[n] = "update"
  BY DEF SystemInv, UpdateVariables, ledgerVars, At
<1>2. outbox[n] # <<>> /\ Writes(n) \subseteq Variables /\ NextPending(n).execution = Exec(n, 1)
  BY <1>1, HeadFacts DEF PhasesOK, ResultPhases
<1>3. /\ Writes(n)' = Writes(n) /\ Output(n)' = Output(n) /\ Exec(n, 1)' = Exec(n, 1)
      /\ \A v \in Variables : BoundToHead(n, v) => BoundToHead(n, v)'
      /\ \A v \in Variables : stateVariables[v].exists => stateVariables'[v].exists
  BY <1>1, HeadStays, BindingMoves
<1>4. /\ memory[n].existing \subseteq memory[n].visited /\ memory[n].visited = Writes(n)
      /\ \A v \in memory[n].visited : stateVariables[v].exists
      /\ \A v \in memory[n].visited \ memory[n].existing : BoundToHead(n, v)
  BY <1>1 DEF WalkOK, LatePhases
<1>5. phase \in [Daemons -> CallPhases \cup TaskPhases \cup ResultPhases \cup UploadPhases]
  BY DEF SystemInv, DaemonTypeOK
<1>6. phase'[n] = "open" /\ memory'[n] = memory[n]
  BY <1>1, <1>5 DEF Walks
<1>7. \A v \in Writes(n) : BoundToHead(n, v)'
  <2>1. CASE memory[n].existing = {}
    BY <1>2, <1>3, <1>4, <2>1
  <2>2. CASE Exec(n, 1) \in updatesFinalized
    BY <1>2, <1>3, <2>2 DEF FinalizedOK
  <2>3. CASE updatesFinalized' = updatesFinalized \cup {Exec(n, 1)} /\ Exec(n, 1) \notin updatesFinalized
    <3>1. \A v \in memory[n].existing : stateVariables'[v].dataId = Output(n)
      BY <2>3, BindingMoves
    <3>2. \A v \in memory[n].existing : BoundToHead(n, v)'
      BY <1>3, <3>1 DEF BoundToHead
    <3>3. QED
      BY <1>2, <1>3, <1>4, <3>2
  <2>4. QED
    BY <1>2, <2>1, <2>2, <2>3 DEF UpdateVariables, Send, OnControl, UpdateStateVariablesAfterResult
<1>8. /\ memory'[n].existing \subseteq memory'[n].visited /\ memory'[n].visited = Writes(n)'
      /\ \A v \in memory'[n].visited : stateVariables'[v].exists
      /\ \A v \in Writes(n)' : BoundToHead(n, v)'
  BY <1>2, <1>3, <1>4, <1>6, <1>7
<1>9. QED
  BY <1>6, <1>8 DEF WalkOK, LatePhases, CallPhases

LEMMA WalkOpens ==
  ASSUME SystemInv, SkipInv, [DaemonNext]_allVars, NEW n, Daemons = {n}, RowsOK(n), WalkOK(n),
         OpeningsOK, OpenResult(n, "confirmed"), Walks(n, "open", "mark")
  PROVE  WalkOK(n)'
<1>1. n \in Daemons /\ PhasesOK /\ outbox' = outbox /\ phase[n] = "open"
  BY DEF SystemInv, OpenResult, ledgerVars, At
<1>2. /\ outbox[n] # <<>> /\ Writes(n) \subseteq Variables /\ NextPending(n).execution = Exec(n, 1)
      /\ Exec(n, 1) \in ExecutionIds /\ NextPending(n).basis = outbox[n][1].basis
  BY <1>1, HeadFacts DEF PhasesOK, ResultPhases
<1>3. /\ Writes(n)' = Writes(n) /\ Output(n)' = Output(n) /\ Exec(n, 1)' = Exec(n, 1)
      /\ \A v \in Variables : BoundToHead(n, v) => BoundToHead(n, v)'
      /\ \A v \in Variables : stateVariables[v].exists => stateVariables'[v].exists
  BY <1>1, HeadStays, BindingMoves
<1>4. /\ memory[n].existing \subseteq memory[n].visited /\ memory[n].visited = Writes(n)
      /\ \A v \in memory[n].visited : stateVariables[v].exists
      /\ \A v \in Writes(n) : BoundToHead(n, v)
  BY <1>1 DEF WalkOK, LatePhases
<1>5. phase \in [Daemons -> CallPhases \cup TaskPhases \cup ResultPhases \cup UploadPhases]
  BY DEF SystemInv, DaemonTypeOK
<1>6. phase'[n] = "mark" /\ memory'[n] = memory[n]
  BY <1>1, <1>5 DEF Walks
<1>7. ASSUME Call[Exec(n, 1)].opens PROVE openingResults'[Exec(n, 1)] = outbox[n][1].basis
  <2>1. openingResults' = [openingResults EXCEPT ![Exec(n, 1)] = outbox[n][1].basis]
    BY <1>2, <1>7 DEF OpenResult, Send, FulfillOpening
  <2>2. QED
    BY <1>2, <2>1 DEF OpeningsOK
<1>8. /\ memory'[n].existing \subseteq memory'[n].visited /\ memory'[n].visited = Writes(n)'
      /\ \A v \in memory'[n].visited : stateVariables'[v].exists
      /\ \A v \in Writes(n)' : BoundToHead(n, v)'
      /\ Call[Exec(n, 1)'].opens => openingResults'[Exec(n, 1)'] = outbox'[n][1].basis
  BY <1>1, <1>2, <1>3, <1>4, <1>6, <1>7
<1>9. QED
  BY <1>6, <1>8 DEF WalkOK, LatePhases, CallPhases

\* Before a result is on the chain no variable has been visited.
EarlyPhases == CallPhases \cup {"key", "keyLocations", "result"}

LEMMA WalkStarts ==
  ASSUME NEW n, phase'[n] \in EarlyPhases \cup {"declare"}, memory'[n].visited = {},
         memory'[n].existing = {}
  PROVE  WalkOK(n)'
BY DEF WalkOK, EarlyPhases, CallPhases, LatePhases

LEMMA WalkStep ==
  ASSUME SystemInv, SystemInv', SkipInv, [DaemonNext]_allVars, NEW n, Daemons = {n}, RowsOK(n),
         WalkOK(n), FinalizedOK(n), OpeningsOK
  PROVE  WalkOK(n)'
<1>1. n \in Daemons
  OBVIOUS
<1>2. /\ phase \in [Daemons -> CallPhases \cup TaskPhases \cup ResultPhases \cup UploadPhases]
      /\ memory \in [Daemons -> Memory]
  BY DEF SystemInv, DaemonTypeOK
<1>3. CASE DaemonStep(n) \/ Crash(n)
  <2>1. CASE EndsCall(n)
    <3>1. phase'[n] \in CallPhases /\ memory'[n] = Fresh
      BY <1>1, <1>2, <2>1 DEF EndsCall
    <3>2. QED
      BY <3>1, WalkStarts DEF EarlyPhases, Fresh
  <2>2. CASE PollWalk(n) \/ UploadWalk(n)
    <3>1. phase'[n] \in TaskPhases \cup UploadPhases
      BY <1>1, <1>2, <2>2
         DEF PollWalk, UploadWalk, ReadTask, ReadUpload, Goto, Walks, TaskPhases, UploadPhases
    <3>2. QED
      BY <3>1 DEF WalkOK, CallPhases, LatePhases, TaskPhases, UploadPhases
  <2>3. CASE ResultWalk(n)
    <3>1. CASE \/ Walks(n, "outbox", "key") \/ Walks(n, "outbox", "result")
               \/ Walks(n, "key", "keyLocations") \/ Walks(n, "keyLocations", "result")
               \/ Walks(n, "result", "declare")
      <4>1. phase'[n] \in EarlyPhases \cup {"declare"} /\ memory'[n] = memory[n]
        BY <1>1, <1>2, <3>1 DEF Walks, EarlyPhases
      <4>2. memory[n].visited = {} /\ memory[n].existing = {}
        BY <3>1 DEF Walks, WalkOK, CallPhases
      <4>3. QED
        BY <4>1, <4>2, WalkStarts
    <3>2. QED
      BY <2>3, <3>1, WalkVisits, WalkUpdates, WalkOpens DEF ResultWalk
  <2>4. QED
    BY <1>1, <1>3, <2>1, <2>2, <2>3, StepKinds
<1>4. CASE Environment \/ UNCHANGED allVars \/ \E u \in Uploads : AcceptUpload(n, u)
  <2>1. UNCHANGED <<phase, memory, outbox>>
    BY <1>4 DEF Environment, AcceptUpload, allVars, daemonVars, loopVars, ledgerVars
  <2>2. QED
    BY <2>1, WalkStays
<1>5. QED
  BY <1>3, <1>4 DEF DaemonNext

LEMMA FinalizedStep ==
  ASSUME SystemInv, SystemInv', SkipInv, ChainInv, [DaemonNext]_allVars, NEW n, Daemons = {n},
         RowsOK(n), RowsOK(n)', WalkOK(n), FinalizedOK(n), OpeningsOK
  PROVE  FinalizedOK(n)'
<1>1. n \in Daemons /\ TypeOK /\ PhasesOK /\ NothingIsSkipped /\ QueueOK
  BY DEF SystemInv, RegistryInv, SkipInv, ChainInv
<1>2. [Next]_vars
  BY SystemStep
<1>3. /\ \A e \in ExecutionIds : Completed(e) => Completed(e)'
      /\ updatesFinalized \subseteq ExecutionIds
  BY <1>1, <1>2, CompletedKept DEF TypeOK
<1>4. \A e \in updatesFinalized' : Completed(e)'
  <2>1. \/ updatesFinalized' = updatesFinalized
        \/ outbox[n] # <<>> /\ updatesFinalized' = updatesFinalized \cup {Exec(n, 1)} /\ Completed(Exec(n, 1))
    BY BindingMoves
  <2>2. \A e \in updatesFinalized : Completed(e)'
    BY <1>3 DEF FinalizedOK
  <2>3. outbox[n] # <<>> => Exec(n, 1) \in ExecutionIds
    BY <1>1, HeadFacts
  <2>4. PICK h : h = Exec(n, 1)
    OBVIOUS
  <2>5. outbox[n] # <<>> /\ Completed(h) => Completed(h)'
    BY <1>3, <2>3, <2>4
  <2>6. \A e \in updatesFinalized' : e \in updatesFinalized \/ (e = h /\ outbox[n] # <<>> /\ Completed(h))
    BY <2>1, <2>4
  <2>7. QED
    BY <2>2, <2>5, <2>6
<1>5. CASE outbox'[n] = outbox[n]
  <2>1. /\ Writes(n)' = Writes(n) /\ Exec(n, 1)' = Exec(n, 1) /\ Output(n)' = Output(n)
        /\ \A v \in Variables : BoundToHead(n, v) => BoundToHead(n, v)'
    BY <1>5, HeadStays
  <2>2. SUFFICES ASSUME outbox[n] # <<>>, Exec(n, 1) \in updatesFinalized', NEW v \in Writes(n)
                 PROVE  BoundToHead(n, v)'
    BY <1>4, <1>5, <2>1 DEF FinalizedOK
  <2>3. Writes(n) \subseteq Variables
    BY <1>1, <2>2, HeadFacts
  <2>4. CASE Exec(n, 1) \in updatesFinalized
    BY <2>1, <2>2, <2>3, <2>4 DEF FinalizedOK
  <2>5. CASE phase[n] = "update" /\ \A x \in memory[n].existing : stateVariables'[x].dataId = Output(n)
    <3>1. v \in memory[n].visited
      BY <2>2, <2>5 DEF WalkOK
    <3>2. CASE v \in memory[n].existing
      BY <2>1, <2>5, <3>2 DEF BoundToHead
    <3>3. CASE v \notin memory[n].existing
      BY <2>1, <2>3, <2>5, <3>1, <3>3 DEF WalkOK
    <3>4. QED
      BY <3>2, <3>3
  <2>6. QED
    BY <2>2, <2>4, <2>5, BindingMoves
<1>6. CASE Works(n) /\ Settled /\ BindingsSame
  <2>1. CASE SkipTask(n)
    BY <1>1, <1>5, <2>1, SkipFacts
  <2>2. CASE CommitComputation(n)
    <3>1. PICK e, len : e = NextTask(n) /\ len = Len(outbox[n])
      OBVIOUS
    <3>2. /\ e \in ExecutionIds /\ ~Completed(e) /\ len \in Nat
          /\ DOMAIN outbox[n] = 1..len /\ outbox'[n][len + 1].execution = e
          /\ \A i \in 1..len : outbox'[n][i] = outbox[n][i]
      BY <1>1, <2>2, <3>1, CommitFacts
    <3>3. updatesFinalized' = updatesFinalized /\ stateVariables' = stateVariables
      BY <1>6 DEF BindingsSame
    <3>4. CASE len = 0
      <4>1. Exec(n, 1)' = e
        BY <3>2, <3>4 DEF Exec
      <4>2. Exec(n, 1)' \notin updatesFinalized'
        BY <3>2, <3>3, <4>1 DEF FinalizedOK
      <4>3. QED
        BY <1>4, <4>2 DEF FinalizedOK
    <3>5. CASE len # 0
      <4>1. 1 \in 1..len /\ outbox[n] # <<>>
        BY <3>1, <3>2, <3>5
      <4>2. outbox'[n][1] = outbox[n][1]
        BY <3>2, <4>1
      <4>3. Writes(n)' = Writes(n) /\ Output(n)' = Output(n) /\ Exec(n, 1)' = Exec(n, 1)
        BY <4>2 DEF Writes, Output, Exec, NextPending
      <4>4. QED
        BY <1>4, <3>3, <4>1, <4>3 DEF FinalizedOK, BoundToHead
    <3>6. QED
      BY <3>4, <3>5
  <2>3. CASE MarkSubmitted(n)
    <3>1. updatesFinalized' = updatesFinalized
      BY <1>6 DEF BindingsSame
    <3>2. PICK len : len = Len(outbox[n])
      OBVIOUS
    <3>3. /\ len \in Nat \ {0} /\ DOMAIN outbox[n] = 1..len /\ DOMAIN outbox'[n] = 1..(len - 1)
          /\ \A i \in 1..(len - 1) : outbox'[n][i] = outbox[n][i + 1]
      BY <1>1, <2>3, <3>2, MarkFacts
    <3>4. ASSUME outbox'[n] # <<>> PROVE Exec(n, 1)' \notin updatesFinalized'
      <4>1. 1 \in DOMAIN outbox'[n]
        <5>1. outbox'[n] \in Seq(Row)
          BY <1>1 DEF SystemInv, DaemonTypeOK
        <5>2. QED
          BY <3>4, <5>1
      <4>2. 1 \in 1..(len - 1) /\ 2 \in DOMAIN outbox[n] /\ Exec(n, 1)' = Exec(n, 2)
        BY <3>3, <4>1 DEF Exec
      <4>3. ~Completed(Exec(n, 2))
        BY <4>2 DEF RowsOK
      <4>4. QED
        BY <3>1, <4>2, <4>3 DEF FinalizedOK
    <3>5. QED
      BY <1>4, <3>4 DEF FinalizedOK
  <2>4. QED
    BY <1>6, <2>1, <2>2, <2>3 DEF Works
<1>7. QED
  BY <1>5, <1>6, SoleMoves DEF ledgerVars

LEMMA CellsKept ==
  ASSUME SystemInv, SystemInv', SkipInv, [DaemonNext]_allVars, NEW n, Daemons = {n}, RowsOK(n),
         WalkOK(n), OpeningsOK, outbox'[n] = outbox[n], cells'[n] = cells[n],
         NEW v \in Variables, CellOK(n, v)
  PROVE  CellOK(n, v)'
<1>1. n \in Daemons /\ TypeOK /\ [Next]_vars
  BY SystemStep DEF SystemInv, RegistryInv
<1>2. PICK c : c = cells[n][v]
  OBVIOUS
<1>3. c \in ExecutionIds \cup {None} /\ cells'[n][v] = c
  BY <1>1, <1>2 DEF SystemInv, DaemonTypeOK
<1>4. \A i \in DOMAIN outbox[n] : Exec(n, i)' = Exec(n, i) /\ (Touches(n, i, v)' <=> Touches(n, i, v))
  BY DEF Exec, Touches
<1>5. \A i \in DOMAIN outbox'[n] :
        Touches(n, i, v)' /\ (\A j \in DOMAIN outbox'[n] : j > i => ~Touches(n, j, v)') =>
          cells'[n][v] = Exec(n, i)'
  BY <1>2, <1>3, <1>4 DEF CellOK
<1>6. ASSUME \A i \in DOMAIN outbox[n] : ~Touches(n, i, v), c # None
      PROVE  Completed(c)' /\ stateVariables'[v].dataId = executions'[c].outputId
  <2>1. Completed(c) /\ stateVariables[v].dataId = executions[c].outputId
    BY <1>2, <1>6 DEF CellOK
  <2>2. Completed(c)' /\ executions'[c].outputId = executions[c].outputId
    BY <1>1, <1>3, <1>6, <2>1, CompletedKept
  <2>3. ~(outbox[n] # <<>> /\ v \in Writes(n))
    BY <1>1, <1>6, HeadFacts
  <2>4. QED
    BY <2>1, <2>2, <2>3, BindingMoves
<1>7. QED
  BY <1>3, <1>4, <1>5, <1>6 DEF CellOK, Completed

LEMMA CellsCommitted ==
  ASSUME SystemInv, SystemInv', SkipInv, ChainInv, NEW n \in Daemons, RowsOK(n), Settled,
         BindingsSame, CommitComputation(n), NEW v \in Variables, CellOK(n, v)
  PROVE  CellOK(n, v)'
<1>1. NothingIsSkipped /\ QueueOK
  BY DEF SkipInv, ChainInv
<1>2. PICK e, len : e = NextTask(n) /\ len = Len(outbox[n])
  OBVIOUS
<1>3. /\ len \in Nat /\ DOMAIN outbox[n] = 1..len /\ DOMAIN outbox'[n] = 1..(len + 1)
      /\ outbox'[n][len + 1].execution = e
      /\ \A i \in 1..len : outbox'[n][i] = outbox[n][i]
  BY <1>1, <1>2, CommitFacts
<1>4. /\ \A i \in 1..len : Exec(n, i)' = Exec(n, i) /\ (Touches(n, i, v)' <=> Touches(n, i, v))
      /\ Exec(n, len + 1)' = e /\ (Touches(n, len + 1, v)' <=> v \in Call[e].writes)
  BY <1>3 DEF Exec, Touches
<1>5. cells'[n] = [x \in Variables |-> IF x \in Call[e].writes THEN e ELSE cells[n][x]]
  BY <1>2 DEF CommitComputation, SystemInv, DaemonTypeOK
<1>6. CASE v \in Call[e].writes
  <2>1. cells'[n][v] = e
    BY <1>5, <1>6
  <2>2. len + 1 \in DOMAIN outbox'[n] /\ Touches(n, len + 1, v)'
    BY <1>3, <1>4, <1>6
  <2>3. ASSUME NEW i \in DOMAIN outbox'[n], \A j \in DOMAIN outbox'[n] : j > i => ~Touches(n, j, v)'
        PROVE  cells'[n][v] = Exec(n, i)'
    <3>1. i = len + 1
      BY <1>3, <2>2, <2>3
    <3>2. QED
      BY <1>4, <2>1, <3>1
  <2>4. QED
    BY <2>2, <2>3 DEF CellOK
<1>7. CASE v \notin Call[e].writes
  <2>1. PICK c : c = cells[n][v]
    OBVIOUS
  <2>2. c \in ExecutionIds \cup {None} /\ cells'[n][v] = c
    BY <1>7, <1>5, <2>1 DEF SystemInv, DaemonTypeOK
  <2>3. \A i \in DOMAIN outbox'[n] : Touches(n, i, v)' => i \in DOMAIN outbox[n] /\ Touches(n, i, v)
    BY <1>3, <1>4, <1>7
  <2>4. \A i \in DOMAIN outbox[n] : i \in DOMAIN outbox'[n] /\ (Touches(n, i, v)' <=> Touches(n, i, v))
    BY <1>3, <1>4
  <2>5. ASSUME NEW i \in DOMAIN outbox'[n], Touches(n, i, v)',
               \A j \in DOMAIN outbox'[n] : j > i => ~Touches(n, j, v)'
        PROVE  cells'[n][v] = Exec(n, i)'
    <3>1. i \in DOMAIN outbox[n] /\ Touches(n, i, v)
      BY <2>3, <2>5
    <3>2. \A j \in DOMAIN outbox[n] : j > i => ~Touches(n, j, v)
      BY <2>4, <2>5
    <3>3. c = Exec(n, i)
      BY <2>1, <3>1, <3>2 DEF CellOK
    <3>4. QED
      BY <1>3, <1>4, <2>2, <3>1, <3>3
  <2>6. ASSUME \A i \in DOMAIN outbox'[n] : ~Touches(n, i, v)', c # None
        PROVE  Completed(c)' /\ stateVariables'[v].dataId = executions'[c].outputId
    <3>1. \A i \in DOMAIN outbox[n] : ~Touches(n, i, v)
      BY <2>4, <2>6
    <3>2. Completed(c) /\ stateVariables[v].dataId = executions[c].outputId
      BY <2>1, <2>6, <3>1 DEF CellOK
    <3>3. QED
      BY <2>2, <2>6, <3>2 DEF Settled, BindingsSame
  <2>7. QED
    BY <2>2, <2>5, <2>6 DEF CellOK, Completed
<1>8. QED
  BY <1>6, <1>7

LEMMA CellsMarked ==
  ASSUME SystemInv, SystemInv', SkipInv, NEW n \in Daemons, RowsOK(n), WalkOK(n), Settled,
         BindingsSame, MarkSubmitted(n), NEW v \in Variables, CellOK(n, v)
  PROVE  CellOK(n, v)'
<1>1. PICK len : len = Len(outbox[n])
  OBVIOUS
<1>2. /\ outbox[n] # <<>> /\ Completed(Exec(n, 1)) /\ cells' = cells
      /\ len \in Nat \ {0} /\ DOMAIN outbox[n] = 1..len /\ DOMAIN outbox'[n] = 1..(len - 1)
      /\ \A i \in 1..(len - 1) : outbox'[n][i] = outbox[n][i + 1]
  BY <1>1, MarkFacts
<1>3. \A i \in 1..(len - 1) :
        Exec(n, i)' = Exec(n, i + 1) /\ (Touches(n, i, v)' <=> Touches(n, i + 1, v))
  BY <1>2 DEF Exec, Touches
<1>4. PICK c : c = cells[n][v]
  OBVIOUS
<1>5. c \in ExecutionIds \cup {None} /\ cells'[n][v] = c
  BY <1>2, <1>4 DEF SystemInv, DaemonTypeOK
<1>6. ASSUME NEW i \in DOMAIN outbox'[n], Touches(n, i, v)',
             \A j \in DOMAIN outbox'[n] : j > i => ~Touches(n, j, v)'
      PROVE  cells'[n][v] = Exec(n, i)'
  <2>1. i \in 1..(len - 1) /\ i + 1 \in DOMAIN outbox[n] /\ Touches(n, i + 1, v)
    BY <1>2, <1>3, <1>6
  <2>2. ASSUME NEW j \in DOMAIN outbox[n], j > i + 1 PROVE ~Touches(n, j, v)
    <3>1. j - 1 \in 1..(len - 1) /\ j - 1 > i /\ (j - 1) + 1 = j
      BY <1>2, <2>1, <2>2
    <3>2. ~Touches(n, j - 1, v)'
      BY <1>2, <1>6, <3>1
    <3>3. Touches(n, j - 1, v)' <=> Touches(n, (j - 1) + 1, v)
      BY <1>3, <3>1
    <3>4. QED
      BY <3>1, <3>2, <3>3
  <2>3. c = Exec(n, i + 1)
    BY <1>4, <2>1, <2>2 DEF CellOK
  <2>4. QED
    BY <1>3, <1>5, <2>1, <2>3
<1>7. ASSUME \A i \in DOMAIN outbox'[n] : ~Touches(n, i, v)', c # None
      PROVE  Completed(c)' /\ stateVariables'[v].dataId = executions'[c].outputId
  <2>1. ASSUME NEW j \in DOMAIN outbox[n], j # 1 PROVE ~Touches(n, j, v)
    <3>1. j - 1 \in 1..(len - 1) /\ (j - 1) + 1 = j
      BY <1>2, <2>1
    <3>2. ~Touches(n, j - 1, v)'
      BY <1>2, <1>7, <3>1
    <3>3. Touches(n, j - 1, v)' <=> Touches(n, (j - 1) + 1, v)
      BY <1>3, <3>1
    <3>4. QED
      BY <3>1, <3>2, <3>3
  <2>2. Completed(c) /\ stateVariables[v].dataId = executions[c].outputId
    <3>1. CASE Touches(n, 1, v)
      <4>1. 1 \in DOMAIN outbox[n]
        BY <1>2
      <4>2. c = Exec(n, 1)
        <5>1. \A j \in DOMAIN outbox[n] : j > 1 => ~Touches(n, j, v)
          BY <1>2, <2>1
        <5>2. QED
          BY <1>4, <3>1, <4>1, <5>1 DEF CellOK
      <4>3. BoundToHead(n, v)
        BY <1>2, <3>1, HeadFacts DEF WalkOK, MarkSubmitted, At
      <4>4. QED
        BY <1>2, <4>2, <4>3, HeadFacts DEF BoundToHead
    <3>2. CASE ~Touches(n, 1, v)
      <4>1. \A i \in DOMAIN outbox[n] : ~Touches(n, i, v)
        BY <2>1, <3>2
      <4>2. QED
        BY <1>4, <1>7, <4>1 DEF CellOK
    <3>3. QED
      BY <3>1, <3>2
  <2>3. QED
    BY <1>5, <1>7, <2>2 DEF Settled, BindingsSame
<1>8. QED
  BY <1>5, <1>6, <1>7 DEF CellOK, Completed

LEMMA CellsStep ==
  ASSUME SystemInv, SystemInv', SkipInv, ChainInv, [DaemonNext]_allVars, NEW n, Daemons = {n},
         RowsOK(n), WalkOK(n), CellsOK(n), OpeningsOK
  PROVE  CellsOK(n)'
<1>1. n \in Daemons
  OBVIOUS
<1>2. SUFFICES ASSUME NEW v \in Variables PROVE CellOK(n, v)'
  BY DEF CellsOK
<1>3. CellOK(n, v)
  BY DEF CellsOK
<1>4. CASE UNCHANGED <<cells, outbox>>
  BY <1>3, <1>4, CellsKept
<1>5. CASE Works(n) /\ Settled /\ BindingsSame
  BY <1>1, <1>3, <1>4, <1>5, SkipFacts, CellsCommitted, CellsMarked DEF Works
<1>6. QED
  BY <1>4, <1>5, SoleMoves DEF ledgerVars

LEMMA DoneIsCompleted ==
  ASSUME SkipInv, NEW n \in Daemons, NEW e \in ExecutionIds, IsRecorded(n, e), ~InOutbox(n, e)
  PROVE  Completed(e)
<1>1. PICK i \in DOMAIN processed[n] : processed[n][i] = [execution |-> e, outcome |-> "completed"]
  BY DEF IsRecorded
<1>2. processed[n][i].execution = e /\ Recorded(n, i, "completed")
  BY <1>1 DEF Recorded
<1>3. QED
  BY <1>2 DEF SkipInv, NothingIsSkipped

LEMMA PartsKept ==
  ASSUME SystemInv, SystemInv', SkipInv, [DaemonNext]_allVars, NEW n, Daemons = {n}, RowsOK(n),
         WalkOK(n), OpeningsOK, NEW e \in ExecutionIds, IsRecorded(n, e), ~InOutbox(n, e), PartsOK(e)
  PROVE  PartsOK(e)'
<1>1. n \in Daemons /\ TypeOK /\ [Next]_vars
  BY SystemStep DEF SystemInv, RegistryInv
<1>2. Completed(e)
  BY <1>1, DoneIsCompleted
<1>3. executions'[e].outputId = executions[e].outputId
  BY <1>1, <1>2, CompletedKept
<1>4. Call[e].writes \subseteq Variables
  BY DaemonAssumption DEF CallRecord
<1>5. openingResults'[e] = openingResults[e]
  <2>1. outbox[n] # <<>> => e # Exec(n, 1)
    <3>1. outbox[n] # <<>> => 1 \in DOMAIN outbox[n]
      BY <1>1, RowFacts
    <3>2. QED
      BY <3>1 DEF InOutbox, Exec
  <2>2. QED
    BY <2>1, BindingMoves
<1>6. \A v \in Call[e].writes : stateVariables'[v].exists
  BY <1>4, BindingMoves DEF PartsOK
<1>7. QED
  BY <1>3, <1>5, <1>6 DEF PartsOK

(* The last statement of a submission finds all parts of the head in place. *)
LEMMA MarkedIsDone ==
  ASSUME SystemInv, SkipInv, NEW n \in Daemons, RowsOK(n), WalkOK(n), MarkSubmitted(n)
  PROVE  PartsOK(Exec(n, 1))
<1>1. outbox[n] # <<>> /\ phase[n] = "mark" /\ Completed(Exec(n, 1))
  BY MarkFacts DEF MarkSubmitted, At
<1>2. /\ Writes(n) = Call[Exec(n, 1)].writes
      /\ executions[Exec(n, 1)].outputId = OutputId(Exec(n, 1), outbox[n][1].basis)
  BY <1>1, HeadFacts
<1>3. \A v \in Call[Exec(n, 1)].writes : stateVariables[v].exists
  BY <1>1, <1>2 DEF WalkOK, LatePhases
<1>4. Call[Exec(n, 1)].opens => openingResults[Exec(n, 1)] = executions[Exec(n, 1)].outputId[2]
  BY <1>1, <1>2 DEF WalkOK, OutputId
<1>5. QED
  BY <1>3, <1>4 DEF PartsOK

LEMMA DoneStep ==
  ASSUME SystemInv, SystemInv', SkipInv, ChainInv, [DaemonNext]_allVars, NEW n, Daemons = {n},
         RowsOK(n), WalkOK(n), DoneOK(n), OpeningsOK
  PROVE  DoneOK(n)'
<1>1. n \in Daemons /\ NothingIsSkipped /\ QueueOK
  BY DEF SkipInv, ChainInv
<1>2. ASSUME NEW e \in ExecutionIds, IsRecorded(n, e), ~InOutbox(n, e) PROVE PartsOK(e)'
  BY <1>2, PartsKept DEF DoneOK
<1>3. CASE UNCHANGED <<processed, outbox>>
  <2>1. \A e \in ExecutionIds : (IsRecorded(n, e)' <=> IsRecorded(n, e))
                             /\ (InOutbox(n, e)' <=> InOutbox(n, e))
    BY <1>3 DEF IsRecorded, InOutbox
  <2>2. QED
    BY <1>2, <2>1 DEF DoneOK
<1>4. CASE SkipTask(n)
  <2>1. \A e \in ExecutionIds : (IsRecorded(n, e)' <=> IsRecorded(n, e))
                             /\ (InOutbox(n, e)' <=> InOutbox(n, e))
    BY <1>1, <1>4, SkipFacts DEF InOutbox
  <2>2. QED
    BY <1>2, <2>1 DEF DoneOK
<1>5. CASE CommitComputation(n)
  <2>1. PICK e, len : e = NextTask(n) /\ len = Len(outbox[n])
    OBVIOUS
  <2>2. /\ len \in Nat /\ DOMAIN outbox[n] = 1..len /\ DOMAIN outbox'[n] = 1..(len + 1)
        /\ outbox'[n][len + 1].execution = e
        /\ \A i \in 1..len : outbox'[n][i] = outbox[n][i]
        /\ \A x \in ExecutionIds : IsRecorded(n, x)' => IsRecorded(n, x) \/ x = e
    BY <1>1, <1>5, <2>1, CommitFacts
  <2>3. \A x : (InOutbox(n, x) \/ x = e) => InOutbox(n, x)'
    BY <2>2 DEF InOutbox
  <2>4. QED
    BY <1>2, <2>2, <2>3 DEF DoneOK
<1>6. CASE MarkSubmitted(n) /\ Settled /\ BindingsSame
  <2>1. PICK h, len : h = Exec(n, 1) /\ len = Len(outbox[n])
    OBVIOUS
  <2>2. /\ processed' = processed /\ len \in Nat \ {0} /\ DOMAIN outbox[n] = 1..len
        /\ DOMAIN outbox'[n] = 1..(len - 1)
        /\ \A i \in 1..(len - 1) : outbox'[n][i] = outbox[n][i + 1]
    BY <1>1, <1>6, <2>1, MarkFacts
  <2>3. ASSUME NEW x, InOutbox(n, x), x # h PROVE InOutbox(n, x)'
    <3>1. PICK i \in 1..len : outbox[n][i].execution = x
      BY <2>2, <2>3 DEF InOutbox
    <3>2. i # 1
      BY <2>1, <2>3, <3>1 DEF Exec
    <3>3. i - 1 \in 1..(len - 1) /\ (i - 1) + 1 = i
      BY <2>2, <3>1, <3>2
    <3>4. outbox'[n][i - 1] = outbox[n][i]
      BY <2>2, <3>3
    <3>5. QED
      BY <2>2, <3>1, <3>3, <3>4 DEF InOutbox
  <2>4. PartsOK(h)'
    <3>1. PartsOK(h) /\ h \in ExecutionIds
      BY <1>1, <1>6, <2>1, MarkedIsDone, MarkFacts, RowFacts
    <3>2. QED
      BY <1>6, <3>1 DEF PartsOK, Settled, BindingsSame
  <2>5. \A x \in ExecutionIds : IsRecorded(n, x)' <=> IsRecorded(n, x)
    BY <2>2 DEF IsRecorded
  <2>6. QED
    BY <1>2, <2>3, <2>4, <2>5 DEF DoneOK
<1>7. QED
  BY <1>3, <1>4, <1>5, <1>6, SoleMoves DEF Works, ledgerVars

PartsStepInv(n) == SoleInv(n) /\ PartsInv(n)

LEMMA PartsStep ==
  ASSUME NEW n, Daemons = {n}
  PROVE  PartsStepInv(n) /\ [DaemonNext]_allVars => PartsStepInv(n)'
<1> SUFFICES ASSUME PartsStepInv(n), [DaemonNext]_allVars PROVE PartsStepInv(n)'
  OBVIOUS
<1>1. /\ SoleInv(n) /\ WalkOK(n) /\ FinalizedOK(n) /\ CellsOK(n) /\ DoneOK(n) /\ OpeningsOK
      /\ SystemInv /\ SkipInv /\ ChainInv /\ RowsOK(n)
  BY DEF PartsStepInv, SoleInv, PartsInv
<1>2. SoleInv(n)'
  BY <1>1, SoleStep
<1>3. SystemInv' /\ RowsOK(n)'
  BY <1>2 DEF SoleInv
<1>4. WalkOK(n)'
  BY <1>1, <1>3, WalkStep
<1>5. FinalizedOK(n)' /\ CellsOK(n)' /\ DoneOK(n)'
  BY <1>1, <1>3, FinalizedStep, CellsStep, DoneStep
<1>6. OpeningsOK'
  BY <1>1, BindingMoves
<1>7. QED
  BY <1>2, <1>4, <1>5, <1>6 DEF PartsStepInv, PartsInv

LEMMA PartsInit ==
  ASSUME NEW n, Daemons = {n}
  PROVE  DaemonInit => PartsInv(n)
<1> SUFFICES ASSUME DaemonInit PROVE PartsInv(n)
  OBVIOUS
<1>1. /\ phase[n] = "poll" /\ memory[n] = Fresh /\ processed[n] = <<>> /\ outbox[n] = <<>>
      /\ updatesFinalized = {} /\ cells[n] = [v \in Variables |-> None]
      /\ openingResults = [e \in ExecutionIds |-> None]
  BY DEF DaemonInit
<1>2. DOMAIN processed[n] = {} /\ DOMAIN outbox[n] = {}
  BY <1>1
<1>3. WalkOK(n)
  BY <1>1 DEF WalkOK, Fresh, LatePhases
<1>4. FinalizedOK(n)
  BY <1>1 DEF FinalizedOK
<1>5. CellsOK(n)
  BY <1>1, <1>2 DEF CellsOK, CellOK
<1>6. DoneOK(n)
  BY <1>2 DEF DoneOK, IsRecorded
<1>7. OpeningsOK
  BY <1>1 DEF OpeningsOK
<1>8. QED
  BY <1>3, <1>4, <1>5, <1>6, <1>7 DEF PartsInv

LEMMA PartsAreComplete ==
  ASSUME NEW n, Daemons = {n}, PartsStepInv(n)
  PROVE  ResultsAreComplete
<1>1. n \in Daemons /\ SystemInv /\ CellsOK(n) /\ DoneOK(n)
  BY DEF PartsStepInv, SoleInv, PartsInv
<1>2. ASSUME NEW i \in DOMAIN processed[n], Recorded(n, i, "completed"),
             ~InOutbox(n, processed[n][i].execution)
      PROVE  PartsOK(processed[n][i].execution)
  <2>1. processed[n] \in Seq(TaskRecord)
    BY <1>1 DEF SystemInv, DaemonTypeOK
  <2>2. processed[n][i] \in TaskRecord
    BY <1>2, <2>1
  <2>3. PICK e \in ExecutionIds : e = processed[n][i].execution
    BY <2>2 DEF TaskRecord
  <2>4. processed[n][i] = [execution |-> e, outcome |-> "completed"]
    BY <1>2, <2>2, <2>3 DEF TaskRecord, Recorded
  <2>5. IsRecorded(n, e)
    BY <2>4 DEF IsRecorded
  <2>6. QED
    BY <1>1, <1>2, <2>3, <2>5 DEF DoneOK
<1>3. ASSUME outbox[n] = <<>>, NEW v \in Variables, cells[n][v] # None
      PROVE  stateVariables[v].dataId = executions[cells[n][v]].outputId
  <2>1. DOMAIN outbox[n] = {}
    BY <1>3
  <2>2. QED
    BY <1>1, <1>3, <2>1 DEF CellsOK, CellOK
<1>4. QED
  BY <1>2, <1>3 DEF ResultsAreComplete, PartsOK

(* A result that has left the outbox is on the chain with all its parts,    *)
(* whichever of its transactions were lost and wherever the daemon stopped, *)
(* and the variables follow the cells once the outbox is empty.             *)
THEOREM ResultsReachTheChain ==
  ASSUME NEW n, Daemons = {n}
  PROVE  DaemonSpec => []ResultsAreComplete
<1>1. DaemonInit => PartsStepInv(n)
  BY SoleInit, PartsInit DEF PartsStepInv
<1>2. PartsStepInv(n) /\ [DaemonNext]_allVars => PartsStepInv(n)'
  BY PartsStep
<1>3. PartsStepInv(n) => ResultsAreComplete
  BY PartsAreComplete
<1>4. QED
  BY <1>1, <1>2, <1>3, PTL DEF DaemonSpec
=============================================================================
