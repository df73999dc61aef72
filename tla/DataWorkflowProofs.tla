------------------------- MODULE DataWorkflowProofs -------------------------
(***************************************************************************)
(* Proofs about DataWorkflow, for any number of nodes, uploads, events and *)
(* versions.  What the storage loses is proved for any number of runtimes, *)
(* what a runtime reads and records for one: a second would move the input *)
(* of the first between its hand-off and its read.                         *)
(***************************************************************************)
EXTENDS DataWorkflow

FragmentType == [representation : Representations, version : Nat, value : 0..MaxValue]

LoopSteps == {"locate", "handoff", "record", "read"}
ResultSteps == {"output", "publish"}

RuntimeState ==
  [at : {"idle", "failed"} \cup LoopSteps \cup ResultSteps,
   execution : Executions \cup {None}, inputs : Seq(DataIds), next : Nat,
   committee : SUBSET Nodes, old : SUBSET Nodes, version : Nat, sum : Nat,
   output : Representations \cup {None}]

\* What a runtime in the middle of a computation knows.
WorkOK(m) ==
  /\ m.at \in LoopSteps \cup ResultSteps =>
       /\ m.execution \in Executions /\ m.output \in Representations
       /\ m.next \in 1..Len(m.inputs)
  /\ m.at \in {"record", "read"} \cup ResultSteps => m.committee # {}
  /\ m.at = "publish" => m.sum <= MaxValue

Handover == [d : DataIds, old : SUBSET Nodes, new : SUBSET Nodes, version : Nat]
Computation == [output : OutputIds, nodes : SUBSET Nodes, inputs : Seq(DataIds)]

TypeOK ==
  /\ DOMAIN storage \subseteq Nodes \X DataIds
  /\ \A n \in Nodes, d \in DataIds : Holds(n, d) => storage[<<n, d>>] \in FragmentType
  /\ given \in [DataIds -> (0..MaxValue) \cup {None}]
  /\ events \in Seq(Announcements \cup ComputationRequests)
  /\ handoffs \in Seq(Handover)
  /\ computations \subseteq Computation
  /\ runtime \in [Runtimes -> RuntimeState]
  /\ \A r \in Runtimes : WorkOK(runtime[r])

-----------------------------------------------------------------------------
(* What the calls of the storage do to each fragment *)

LEMMA PutFacts ==
  ASSUME TypeOK, NEW nodes \in SUBSET Nodes, NEW d \in DataIds, NEW f \in FragmentType,
         Put(nodes, d, f)
  PROVE  /\ DOMAIN storage' \subseteq Nodes \X DataIds
         /\ \A n \in Nodes, x \in DataIds :
              /\ Holds(n, x)' <=> Holds(n, x) \/ (x = d /\ n \in nodes)
              /\ x = d /\ n \in nodes => storage'[<<n, x>>] = f
              /\ Holds(n, x) /\ ~(x = d /\ n \in nodes) => storage'[<<n, x>>] = storage[<<n, x>>]
         /\ given' \in [DataIds -> (0..MaxValue) \cup {None}]
<1>1. storage' = [p \in DOMAIN storage \cup (nodes \X {d}) |->
                   IF p \in nodes \X {d} THEN f ELSE storage[p]]
  BY DEF Put
<1>2. DOMAIN storage' = DOMAIN storage \cup (nodes \X {d})
  BY <1>1
<1>3. given' \in [DataIds -> (0..MaxValue) \cup {None}]
  BY DEF Put, TypeOK, FragmentType
<1>4. DOMAIN storage' \subseteq Nodes \X DataIds
  BY <1>2 DEF TypeOK
<1>5. \A n \in Nodes, x \in DataIds : <<n, x>> \in nodes \X {d} <=> x = d /\ n \in nodes
  OBVIOUS
<1>6. QED
  BY <1>1, <1>2, <1>3, <1>4, <1>5 DEF Holds

LEMMA MovedFacts ==
  ASSUME TypeOK, NEW committee \in SUBSET Nodes, NEW d \in DataIds, NEW f \in FragmentType,
         storage' = MovedTo(committee, d, f)
  PROVE  /\ DOMAIN storage' \subseteq Nodes \X DataIds
         /\ \A n \in Nodes, x \in DataIds :
              /\ Holds(n, x)' <=> (x = d /\ n \in committee) \/ (x # d /\ Holds(n, x))
              /\ x = d /\ n \in committee => storage'[<<n, x>>] = f
              /\ x # d /\ Holds(n, x) => storage'[<<n, x>>] = storage[<<n, x>>]
<1>1. storage' = [p \in (DOMAIN storage \ (Nodes \X {d})) \cup (committee \X {d}) |->
                   IF p[2] = d THEN f ELSE storage[p]]
  BY DEF MovedTo
<1>2. DOMAIN storage' = (DOMAIN storage \ (Nodes \X {d})) \cup (committee \X {d})
  BY <1>1
<1>3. DOMAIN storage' \subseteq Nodes \X DataIds
  BY <1>2 DEF TypeOK
<1>4. \A n \in Nodes, x \in DataIds :
        /\ <<n, x>> \in Nodes \X {d} <=> x = d
        /\ <<n, x>> \in committee \X {d} <=> x = d /\ n \in committee
        /\ <<n, x>>[2] = x
  OBVIOUS
<1>5. QED
  BY <1>1, <1>2, <1>3, <1>4 DEF Holds

(* A hand-off is of fragments that agree, to a committee that is not empty. *)
LEMMA HandoffFacts ==
  ASSUME TypeOK, NEW d \in DataIds, NEW committee, MayHandOff(d, committee),
         NEW source, source = CHOOSE f \in FragmentsAt(Holders(d), d) : TRUE
  PROVE  /\ committee # {} /\ Holders(d) # {} /\ source \in FragmentType
         /\ HandedOff(source) \in FragmentType
         /\ HandedOff(source).version = source.version + 1
         /\ \A n \in Holders(d) : HandedOff(source).value = storage[<<n, d>>].value
<1>1. /\ committee # {} /\ FragmentsAt(Holders(d), d) # {}
      /\ \A f, g \in FragmentsAt(Holders(d), d) : f.value = g.value
  BY DEF MayHandOff, Decodes
<1>2. source \in FragmentsAt(Holders(d), d)
  BY <1>1
<1>3. FragmentsAt(Holders(d), d) \subseteq FragmentType
  BY DEF FragmentsAt, Holders, TypeOK
<1>4. \A n \in Holders(d) : source.value = storage[<<n, d>>].value
  BY <1>1, <1>2 DEF FragmentsAt
<1>5. HandedOff(source) \in FragmentType /\ HandedOff(source).version = source.version + 1
      /\ HandedOff(source).value = source.value
  BY <1>2, <1>3 DEF HandedOff, FragmentType
<1>6. QED
  BY <1>1, <1>2, <1>3, <1>4, <1>5 DEF FragmentsAt

-----------------------------------------------------------------------------
(* Types *)

\* A step that changes the storage through Put, or not at all.
StorageTyped ==
  /\ DOMAIN storage \subseteq Nodes \X DataIds
  /\ \A n \in Nodes, d \in DataIds : Holds(n, d) => storage[<<n, d>>] \in FragmentType
  /\ given \in [DataIds -> (0..MaxValue) \cup {None}]

RuntimesTyped ==
  /\ runtime \in [Runtimes -> RuntimeState]
  /\ \A r \in Runtimes : WorkOK(runtime[r])

ChainTyped ==
  /\ events \in Seq(Announcements \cup ComputationRequests)
  /\ handoffs \in Seq(Handover)
  /\ computations \subseteq Computation

LEMMA TypeParts ==
  /\ TypeOK => StorageTyped /\ RuntimesTyped /\ ChainTyped
  /\ StorageTyped' /\ RuntimesTyped' /\ ChainTyped' => TypeOK'
BY DEF TypeOK, StorageTyped, RuntimesTyped, ChainTyped

LEMMA IdleTyped ==
  /\ Idle \in RuntimeState /\ WorkOK(Idle)
  /\ [Idle EXCEPT !.at = "failed"] \in RuntimeState
  /\ WorkOK([Idle EXCEPT !.at = "failed"])
  /\ [Idle EXCEPT !.at = "idle"] = Idle
<1>1. <<>> \in Seq(DataIds) /\ {} \in SUBSET Nodes /\ 0 \in Nat /\ 1 \in Nat
  OBVIOUS
<1>2. Idle \in RuntimeState
  BY <1>1 DEF Idle, RuntimeState
<1>3. Idle.at = "idle" /\ [Idle EXCEPT !.at = "failed"].at = "failed"
  BY DEF Idle
<1>4. [Idle EXCEPT !.at = "failed"] \in RuntimeState
  BY <1>2 DEF RuntimeState
<1>5. WorkOK(Idle) /\ WorkOK([Idle EXCEPT !.at = "failed"])
  BY <1>3 DEF WorkOK, LoopSteps, ResultSteps
<1>6. [Idle EXCEPT !.at = "idle"] = Idle
  BY <1>2, <1>3 DEF RuntimeState
<1>7. QED
  BY <1>2, <1>4, <1>5, <1>6

LEMMA BecomeTyped ==
  ASSUME RuntimesTyped, NEW r \in Runtimes, NEW m \in RuntimeState, WorkOK(m), Become(r, m)
  PROVE  RuntimesTyped'
BY DEF RuntimesTyped, Become

LEMMA CurrentTyped ==
  ASSUME RuntimesTyped, NEW r \in Runtimes, runtime[r].at \in LoopSteps \cup ResultSteps
  PROVE  /\ runtime[r] \in RuntimeState /\ runtime[r].inputs \in Seq(DataIds)
         /\ runtime[r].next \in 1..Len(runtime[r].inputs)
         /\ runtime[r].next \in Nat /\ Len(runtime[r].inputs) \in Nat
         /\ Current(r) \in DataIds
         /\ runtime[r].committee \in SUBSET Nodes
BY DEF RuntimesTyped, RuntimeState, WorkOK, Current, DataIds

LEMMA PutTyped ==
  ASSUME TypeOK, NEW nodes \in SUBSET Nodes, NEW d \in DataIds, NEW f \in FragmentType,
         Put(nodes, d, f)
  PROVE  StorageTyped'
<1>1. /\ DOMAIN storage' \subseteq Nodes \X DataIds
      /\ \A n \in Nodes, x \in DataIds :
           /\ Holds(n, x)' <=> Holds(n, x) \/ (x = d /\ n \in nodes)
           /\ x = d /\ n \in nodes => storage'[<<n, x>>] = f
           /\ Holds(n, x) /\ ~(x = d /\ n \in nodes) => storage'[<<n, x>>] = storage[<<n, x>>]
      /\ given' \in [DataIds -> (0..MaxValue) \cup {None}]
  BY PutFacts
<1>2. \A n \in Nodes, x \in DataIds : Holds(n, x)' => storage'[<<n, x>>] \in FragmentType
  BY <1>1 DEF TypeOK
<1>3. QED
  BY <1>1, <1>2 DEF StorageTyped

LEMMA UploadArguments ==
  ASSUME NEW d \in ClientIds, NEW rep \in Representations, NEW version \in UploadVersions,
         NEW v \in Values, NEW nodes \in UploadLists
  PROVE  /\ d \in DataIds /\ Fragment(rep, version, v) \in FragmentType
         /\ Fragment(rep, version, v).value = v
         /\ {nodes[i] : i \in Insertable(nodes, d)} \in SUBSET Nodes
<1>1. version \in Nat /\ v \in 0..MaxValue /\ nodes \in Seq(Nodes)
  BY WorkflowAssumption
<1>2. \A i \in DOMAIN nodes : nodes[i] \in Nodes
  BY <1>1
<1>3. QED
  BY <1>1, <1>2 DEF DataIds, Fragment, FragmentType, Insertable

LEMMA SelectIsSubset ==
  ASSUME NEW seed, NEW eligible, NEW size
  PROVE  Select(seed, eligible, size) \subseteq eligible
BY DEF Select

LEMMA PollTyped ==
  ASSUME TypeOK, NEW r \in Runtimes, Poll(r)
  PROVE  RuntimesTyped' /\ ChainTyped'
<1> DEFINE event == Head(events)
<1>1. /\ event \in Announcements \cup ComputationRequests
      /\ events' \in Seq(Announcements \cup ComputationRequests)
  BY DEF Poll, TypeOK
<1>2. ChainTyped'
  BY <1>1 DEF Poll, TypeOK, ChainTyped
<1>3. RuntimesTyped
  BY TypeParts
<1>4. CASE event.kind = "published"
  <2>1. Become(r, Idle) \/ Become(r, [Idle EXCEPT !.at = "failed"])
    <3>1. Become(r, [Idle EXCEPT !.at = IF Announced(event) THEN "idle" ELSE "failed"])
      BY <1>4 DEF Poll
    <3>2. QED
      BY <3>1, IdleTyped
  <2>2. QED
    BY <1>2, <1>3, <2>1, IdleTyped, BecomeTyped
<1>5. CASE event.kind # "published"
  <2>1. PICK e \in Executions, inputs \in InputLists, eligible \in EligibleSets, size \in Sizes,
             seed \in Seeds, representation \in Representations :
               event = Requested(e, inputs, eligible, size, seed, representation)
    BY <1>1, <1>5 DEF Announcements, Published, ComputationRequests
  <2>2. /\ event.execution = e /\ event.inputs = inputs /\ event.eligible = eligible
        /\ event.size = size /\ event.seed = seed /\ event.representation = representation
    BY <2>1 DEF Requested
  <2>3. inputs \in Seq(DataIds) /\ eligible \in SUBSET Nodes
    BY WorkflowAssumption
  <2> DEFINE m == [Idle EXCEPT !.at = "locate", !.execution = event.execution,
                               !.inputs = event.inputs, !.output = event.representation,
                               !.committee = Select(event.seed, event.eligible, event.size)]
  <2>4. CASE inputs # <<>> /\ Become(r, m)
    <3>1. Select(event.seed, event.eligible, event.size) \in SUBSET Nodes
      BY <2>2, <2>3, SelectIsSubset
    <3>2. 1 \in 1..Len(inputs)
      BY <2>3, <2>4
    <3>3. m \in RuntimeState /\ WorkOK(m)
      BY <2>2, <2>3, <3>1, <3>2 DEF Idle, RuntimeState, WorkOK, LoopSteps, ResultSteps
    <3>4. QED
      BY <1>2, <1>3, <2>4, <3>3, BecomeTyped
  <2>5. CASE Become(r, [Idle EXCEPT !.at = "failed"])
    BY <1>2, <1>3, <2>5, IdleTyped, BecomeTyped
  <2>6. QED
    BY <1>5, <2>2, <2>4, <2>5 DEF Poll, Become
<1>6. QED
  BY <1>4, <1>5

LEMMA RuntimeStepTyped ==
  ASSUME TypeOK, NEW r \in Runtimes,
         Resume(r) \/ Locate(r) \/ RecordHandoff(r) \/ Read(r) \/ RecordComputation(r)
  PROVE  StorageTyped' /\ RuntimesTyped' /\ ChainTyped'
<1>1. StorageTyped /\ RuntimesTyped /\ ChainTyped
  BY TypeParts
<1>2. UNCHANGED <<storage, given, events>>
  BY DEF Resume, Locate, RecordHandoff, Read, RecordComputation
<1>3. StorageTyped'
  BY <1>1, <1>2 DEF StorageTyped, Holds
<1>4. CASE Resume(r)
  BY <1>1, <1>3, <1>4, IdleTyped, BecomeTyped DEF Resume, ChainTyped
<1>5. CASE Locate(r)
  <2>1. At(r, "locate") /\ runtime[r].at \in LoopSteps
    BY <1>5 DEF Locate, At, LoopSteps
  <2> DEFINE m == [runtime[r] EXCEPT !.at = "handoff", !.old = Holders(Current(r))]
  <2>2. m \in RuntimeState /\ WorkOK(m)
    BY <1>1, <2>1, CurrentTyped
       DEF RuntimesTyped, RuntimeState, WorkOK, LoopSteps, ResultSteps, Holders
  <2>3. QED
    BY <1>1, <1>3, <1>5, <2>2, BecomeTyped DEF Locate, ChainTyped
<1>6. CASE RecordHandoff(r)
  <2>1. runtime[r].at \in LoopSteps /\ runtime[r].at = "record"
    BY <1>6 DEF RecordHandoff, At, LoopSteps
  <2> DEFINE m == [runtime[r] EXCEPT !.at = "read"]
             h == [d |-> Current(r), old |-> runtime[r].old, new |-> runtime[r].committee,
                   version |-> runtime[r].version]
  <2>2. m \in RuntimeState /\ WorkOK(m)
    BY <1>1, <2>1, CurrentTyped
       DEF RuntimesTyped, RuntimeState, WorkOK, LoopSteps, ResultSteps
  <2>3. h \in Handover
    BY <1>1, <2>1, CurrentTyped DEF RuntimesTyped, RuntimeState, Handover
  <2>4. ChainTyped'
    BY <1>1, <1>6, <2>3 DEF RecordHandoff, ChainTyped
  <2>5. QED
    BY <1>1, <1>3, <1>6, <2>2, <2>4, BecomeTyped DEF RecordHandoff
<1>7. CASE Read(r)
  <2>1. runtime[r].at \in LoopSteps /\ runtime[r].at = "read"
    BY <1>7 DEF Read, At, LoopSteps
  <2> DEFINE d == Current(r)
             f == CHOOSE g \in FragmentsAt(runtime[r].committee, d) : TRUE
             last == runtime[r].next = Len(runtime[r].inputs)
             m == [runtime[r] EXCEPT !.sum = @ + f.value, !.next = IF last THEN @ ELSE @ + 1,
                                     !.at = IF last THEN "output" ELSE "locate"]
  <2>2. CASE MayReadAt(runtime[r].committee, d)
    <3>1. runtime[r].committee # {}
      BY <1>1, <2>1 DEF RuntimesTyped, WorkOK
    <3>2. f \in FragmentsAt(runtime[r].committee, d)
      BY <3>1 DEF FragmentsAt
    <3>3. f.value \in Nat
      <4>1. PICK n \in runtime[r].committee : f = storage[<<n, d>>]
        BY <3>2 DEF FragmentsAt
      <4>2. n \in Nodes /\ d \in DataIds /\ Holds(n, d)
        BY <1>1, <2>1, <2>2, CurrentTyped DEF MayReadAt
      <4>3. storage[<<n, d>>] \in FragmentType
        BY <4>2 DEF TypeOK
      <4>4. storage[<<n, d>>].value \in Nat
        BY <4>3, WorkflowAssumption DEF FragmentType
      <4>5. QED
        BY <4>1, <4>4
    <3>4. /\ runtime[r].next \in 1..Len(runtime[r].inputs) /\ Len(runtime[r].inputs) \in Nat
          /\ runtime[r].next \in Nat /\ runtime[r] \in RuntimeState
      BY <1>1, <2>1, CurrentTyped
    <3>5. m \in RuntimeState
      <4>1. /\ (IF last THEN "output" ELSE "locate") \in LoopSteps \cup ResultSteps
            /\ (IF last THEN runtime[r].next ELSE runtime[r].next + 1) \in Nat
            /\ runtime[r].sum + f.value \in Nat
        BY <3>3, <3>4 DEF LoopSteps, ResultSteps, RuntimeState
      <4>2. QED
        BY <3>4, <4>1 DEF RuntimeState
    <3>6. /\ m.next = (IF last THEN runtime[r].next ELSE runtime[r].next + 1)
          /\ m.inputs = runtime[r].inputs /\ m.at \in {"output", "locate"}
          /\ m.execution = runtime[r].execution /\ m.output = runtime[r].output
          /\ m.committee = runtime[r].committee
      BY <3>4 DEF RuntimeState
    <3>7. runtime[r].execution \in Executions /\ runtime[r].output \in Representations
      BY <1>1, <2>1 DEF RuntimesTyped, WorkOK
    <3>8. m.next \in 1..Len(m.inputs)
      BY <3>4, <3>6
    <3>9. WorkOK(m)
      BY <3>1, <3>6, <3>7, <3>8 DEF WorkOK
    <3>10. Become(r, m) /\ UNCHANGED <<events, handoffs, computations>>
      BY <1>7, <2>2 DEF Read
    <3>11. QED
      BY <1>1, <1>3, <3>5, <3>9, <3>10, BecomeTyped DEF ChainTyped
  <2>3. CASE ~MayReadAt(runtime[r].committee, d)
    <3>1. Become(r, [Idle EXCEPT !.at = "failed"]) /\ UNCHANGED <<events, handoffs, computations>>
      BY <1>7, <2>3 DEF Read
    <3>2. QED
      BY <1>1, <1>3, <3>1, IdleTyped, BecomeTyped DEF ChainTyped
  <2>4. QED
    BY <2>2, <2>3
<1>8. CASE RecordComputation(r)
  <2>1. runtime[r].at = "publish"
    BY <1>8 DEF RecordComputation, At
  <2>2. OutputOf(r) \in OutputIds
    BY <1>1, <2>1 DEF RuntimesTyped, RuntimeState, WorkOK, ResultSteps, OutputOf, OutputIds
  <2>3. ChainTyped'
    BY <1>1, <1>8, <2>1, <2>2 DEF RecordComputation, ChainTyped, RuntimesTyped, RuntimeState, Computation
  <2>4. QED
    BY <1>1, <1>3, <1>8, <2>3, IdleTyped, BecomeTyped DEF RecordComputation
<1>9. QED
  BY <1>4, <1>5, <1>6, <1>7, <1>8

LEMMA HandoffTyped ==
  ASSUME TypeOK, NEW r \in Runtimes, Handoff(r)
  PROVE  StorageTyped' /\ RuntimesTyped' /\ ChainTyped'
<1>1. StorageTyped /\ RuntimesTyped /\ ChainTyped
  BY TypeParts
<1>2. runtime[r].at \in LoopSteps /\ runtime[r].at = "handoff"
  BY DEF Handoff, At, LoopSteps
<1> DEFINE d == Current(r)
           committee == runtime[r].committee
           source == CHOOSE f \in FragmentsAt(Holders(d), d) : TRUE
           m == [runtime[r] EXCEPT !.at = "record", !.version = source.version + 1]
<1>3. d \in DataIds /\ committee \in SUBSET Nodes /\ runtime[r] \in RuntimeState
  BY <1>1, <1>2, CurrentTyped
<1>4. ChainTyped'
  BY <1>1 DEF ChainTyped, Handoff
<1>5. CASE MayHandOff(d, committee)
  <2>1. /\ storage' = MovedTo(committee, d, HandedOff(source)) /\ Become(r, m)
        /\ UNCHANGED given
    BY <1>5 DEF Handoff
  <2>2. /\ committee # {} /\ source \in FragmentType
        /\ HandedOff(source) \in FragmentType
    BY <1>3, <1>5, HandoffFacts
  <2>3. /\ DOMAIN storage' \subseteq Nodes \X DataIds
        /\ \A n \in Nodes, x \in DataIds :
             /\ Holds(n, x)' <=> (x = d /\ n \in committee) \/ (x # d /\ Holds(n, x))
             /\ x = d /\ n \in committee => storage'[<<n, x>>] = HandedOff(source)
             /\ x # d /\ Holds(n, x) => storage'[<<n, x>>] = storage[<<n, x>>]
    <3> DEFINE f == HandedOff(source)
    <3>1. /\ storage' = MovedTo(committee, d, f) /\ f \in FragmentType
          /\ d \in DataIds /\ committee \in SUBSET Nodes
      BY <1>3, <2>1, <2>2
    <3> HIDE DEF f, d, committee
    <3>2. DOMAIN storage' \subseteq Nodes \X DataIds
      BY <3>1, MovedFacts
    <3>3. ASSUME NEW n \in Nodes, NEW x \in DataIds
          PROVE  /\ Holds(n, x)' <=> (x = d /\ n \in committee) \/ (x # d /\ Holds(n, x))
                 /\ x = d /\ n \in committee => storage'[<<n, x>>] = f
                 /\ x # d /\ Holds(n, x) => storage'[<<n, x>>] = storage[<<n, x>>]
      BY <3>1, MovedFacts DEF Holds
    <3> QED BY <3>2, <3>3 DEF f
  <2>4. StorageTyped'
    <3> HIDE DEF d, committee, source
    <3> QED BY <2>1, <2>2, <2>3 DEF StorageTyped, TypeOK
  <2>5. m \in RuntimeState /\ WorkOK(m)
    <3>1. source.version + 1 \in Nat
      BY <2>2 DEF FragmentType
    <3>2. m \in RuntimeState
      BY <1>3, <3>1 DEF RuntimeState, LoopSteps
    <3>3. /\ m.at = "record" /\ m.committee = committee /\ m.inputs = runtime[r].inputs
          /\ m.next = runtime[r].next /\ m.execution = runtime[r].execution
          /\ m.output = runtime[r].output
      BY <1>3 DEF RuntimeState
    <3>4. WorkOK(runtime[r])
      BY <1>1 DEF RuntimesTyped
    <3>5. QED
      BY <1>2, <2>2, <3>2, <3>3, <3>4 DEF WorkOK, LoopSteps, ResultSteps
  <2>6. QED
    BY <1>1, <1>4, <2>1, <2>4, <2>5, BecomeTyped
<1>6. CASE ~MayHandOff(d, committee)
  <2>1. Become(r, [Idle EXCEPT !.at = "failed"]) /\ UNCHANGED <<storage, given>>
    BY <1>6 DEF Handoff
  <2>2. StorageTyped'
    BY <1>1, <2>1 DEF StorageTyped, Holds
  <2>3. QED
    BY <1>1, <1>4, <2>1, <2>2, IdleTyped, BecomeTyped
<1>7. QED
  BY <1>5, <1>6

\* The fragments that the result is stored as.
LEMMA OutputArguments ==
  ASSUME TypeOK, NEW r \in Runtimes, runtime[r].at \in ResultSteps, runtime[r].sum <= MaxValue
  PROVE  /\ OutputOf(r) \in OutputIds /\ OutputOf(r) \in DataIds
         /\ OutputOf(r)[2] = runtime[r].sum
         /\ Fragment(runtime[r].output, 1, runtime[r].sum) \in FragmentType
         /\ Fragment(runtime[r].output, 1, runtime[r].sum).value = runtime[r].sum
<1>1. /\ runtime[r].execution \in Executions /\ runtime[r].output \in Representations
      /\ runtime[r].sum \in 0..MaxValue
  BY WorkflowAssumption DEF TypeOK, WorkOK, RuntimeState
<1>2. QED
  BY <1>1 DEF OutputOf, OutputIds, DataIds, Fragment, FragmentType

LEMMA StoreTyped ==
  ASSUME TypeOK, NEW r \in Runtimes, StoreOutput(r)
  PROVE  StorageTyped' /\ RuntimesTyped' /\ ChainTyped'
<1>1. StorageTyped /\ RuntimesTyped /\ ChainTyped
  BY TypeParts
<1>2. runtime[r].at \in ResultSteps /\ runtime[r].at = "output"
  BY DEF StoreOutput, At, ResultSteps
<1> DEFINE committee == runtime[r].committee
           free == {n \in committee : \A k \in committee : k <= n => ~Holds(k, OutputOf(r))}
           m == [runtime[r] EXCEPT !.at = "publish"]
<1>3. committee \in SUBSET Nodes /\ runtime[r] \in RuntimeState
  BY <1>1, <1>2, CurrentTyped
<1>4. ChainTyped'
  BY <1>1 DEF ChainTyped, StoreOutput
<1>5. CASE runtime[r].sum <= MaxValue
  <2>1. Put(free, OutputOf(r), Fragment(runtime[r].output, 1, runtime[r].sum))
    BY <1>5 DEF StoreOutput
  <2>2. free \in SUBSET Nodes
    BY <1>3
  <2>3. StorageTyped'
    <3> HIDE DEF free
    <3> QED BY <1>2, <1>5, <2>1, <2>2, OutputArguments, PutTyped
  <2>4. m \in RuntimeState /\ WorkOK(m)
    <3>1. WorkOK(runtime[r])
      BY <1>1 DEF RuntimesTyped
    <3>2. m \in RuntimeState
      BY <1>3 DEF RuntimeState, ResultSteps
    <3>3. /\ m.at = "publish" /\ m.committee = committee /\ m.inputs = runtime[r].inputs
          /\ m.next = runtime[r].next /\ m.execution = runtime[r].execution
          /\ m.output = runtime[r].output /\ m.sum = runtime[r].sum
      BY <1>3 DEF RuntimeState
    <3>4. QED
      BY <1>2, <1>5, <3>1, <3>2, <3>3 DEF WorkOK, LoopSteps, ResultSteps
  <2>5. Become(r, m) \/ Become(r, [Idle EXCEPT !.at = "failed"])
    BY <1>5 DEF StoreOutput
  <2>6. QED
    BY <1>1, <1>4, <2>3, <2>4, <2>5, IdleTyped, BecomeTyped
<1>6. CASE ~(runtime[r].sum <= MaxValue)
  <2>1. Become(r, [Idle EXCEPT !.at = "failed"]) /\ UNCHANGED <<storage, given>>
    BY <1>6 DEF StoreOutput
  <2>2. StorageTyped'
    BY <1>1, <2>1 DEF StorageTyped, Holds
  <2>3. QED
    BY <1>1, <1>4, <2>1, <2>2, IdleTyped, BecomeTyped
<1>7. QED
  BY <1>5, <1>6

LEMMA TypeStep == TypeOK /\ [Next]_vars => TypeOK'
<1> SUFFICES ASSUME TypeOK, [Next]_vars PROVE TypeOK'
  OBVIOUS
<1>1. StorageTyped /\ RuntimesTyped /\ ChainTyped
  BY TypeParts
<1>2. ASSUME NEW d \in ClientIds, NEW rep \in Representations, NEW version \in UploadVersions,
             NEW v \in Values, NEW nodes \in UploadLists, Upload(d, rep, version, v, nodes)
      PROVE  TypeOK'
  <2> DEFINE targets == {nodes[i] : i \in Insertable(nodes, d)}
  <2>1. Put(targets, d, Fragment(rep, version, v))
        /\ UNCHANGED <<events, handoffs, computations, runtime>>
    BY <1>2 DEF Upload
  <2>2. StorageTyped'
    <3>1. /\ d \in DataIds /\ Fragment(rep, version, v) \in FragmentType
          /\ targets \in SUBSET Nodes
      BY UploadArguments
    <3> HIDE DEF targets
    <3> QED BY <2>1, <3>1, PutTyped
  <2>3. QED
    BY <1>1, <2>1, <2>2, TypeParts DEF ChainTyped, RuntimesTyped
<1>3. ASSUME NEW event \in Announcements \cup ComputationRequests, PushEvent(event)
      PROVE  TypeOK'
  <2>1. UNCHANGED <<storage, given, handoffs, computations, runtime>>
    BY <1>3 DEF PushEvent
  <2>2. events' \in Seq(Announcements \cup ComputationRequests)
    BY <1>1, <1>3 DEF PushEvent, ChainTyped
  <2>3. QED
    BY <1>1, <2>1, <2>2, TypeParts DEF ChainTyped, RuntimesTyped, StorageTyped, Holds
<1>4. ASSUME NEW r \in Runtimes, Poll(r) PROVE TypeOK'
  <2>1. StorageTyped'
    BY <1>1, <1>4 DEF Poll, StorageTyped, Holds
  <2>2. QED
    BY <1>4, <2>1, PollTyped, TypeParts
<1>5. CASE UNCHANGED vars
  BY <1>1, <1>5, TypeParts DEF vars, ChainTyped, RuntimesTyped, StorageTyped, Holds
<1>6. QED
  BY <1>2, <1>3, <1>4, <1>5, RuntimeStepTyped, HandoffTyped, StoreTyped, TypeParts
     DEF Next, UploadSecretShares, UploadFheCiphertext, Representations

LEMMA TypeInit == Init => TypeOK
<1> SUFFICES ASSUME Init PROVE TypeOK
  OBVIOUS
<1>1. DOMAIN storage = {}
  BY DEF Init
<1>2. QED
  BY <1>1, IdleTyped DEF Init, TypeOK, Holds, Computation

-----------------------------------------------------------------------------
(* The storage changes in two ways: a new fragment where there was none, or *)
(* a hand-off of fragments that agree.                                      *)
LEMMA StorageStep ==
  ASSUME TypeOK, [Next]_vars
  PROVE  \/ UNCHANGED <<storage, given>>
         \/ \E nodes \in SUBSET Nodes, d \in DataIds, f \in FragmentType :
              Put(nodes, d, f) /\ \A n \in nodes : ~Holds(n, d)
         \/ \E r \in Runtimes : Handoff(r) /\ MayHandOff(Current(r), runtime[r].committee)
<1>1. ASSUME NEW d \in ClientIds, NEW rep \in Representations, NEW version \in UploadVersions,
             NEW v \in Values, NEW nodes \in UploadLists, Upload(d, rep, version, v, nodes)
      PROVE  \E targets \in SUBSET Nodes, x \in DataIds, f \in FragmentType :
               Put(targets, x, f) /\ \A n \in targets : ~Holds(n, x)
  <2> DEFINE targets == {nodes[i] : i \in Insertable(nodes, d)}
             f == Fragment(rep, version, v)
  <2>1. d \in DataIds /\ f \in FragmentType /\ targets \in SUBSET Nodes
    BY UploadArguments
  <2>2. Put(targets, d, f)
    BY <1>1 DEF Upload
  <2>3. \A n \in targets : ~Holds(n, d)
    <3>1. ASSUME NEW i \in Insertable(nodes, d) PROVE ~Holds(nodes[i], d)
      <4>1. i \in Nat /\ i >= 1
        BY WorkflowAssumption DEF Insertable
      <4>2. i \in 1..i
        BY <4>1
      <4>3. QED
        BY <4>2 DEF Insertable
    <3>2. QED
      BY <3>1
  <2> HIDE DEF targets, f
  <2>4. QED
    BY <2>1, <2>2, <2>3
<1>2. ASSUME NEW event, PushEvent(event) PROVE UNCHANGED <<storage, given>>
  BY <1>2 DEF PushEvent
<1>3. ASSUME NEW r \in Runtimes,
             Poll(r) \/ Resume(r) \/ Locate(r) \/ RecordHandoff(r) \/ Read(r) \/ RecordComputation(r)
      PROVE  UNCHANGED <<storage, given>>
  BY <1>3 DEF Poll, Resume, Locate, RecordHandoff, Read, RecordComputation
<1>4. ASSUME NEW r \in Runtimes, Handoff(r), ~MayHandOff(Current(r), runtime[r].committee)
      PROVE  UNCHANGED <<storage, given>>
  BY <1>4 DEF Handoff
<1>5. ASSUME NEW r \in Runtimes, StoreOutput(r)
      PROVE  \/ UNCHANGED <<storage, given>>
             \/ \E targets \in SUBSET Nodes, x \in DataIds, f \in FragmentType :
                  Put(targets, x, f) /\ \A n \in targets : ~Holds(n, x)
  <2> DEFINE committee == runtime[r].committee
             free == {n \in committee : \A k \in committee : k <= n => ~Holds(k, OutputOf(r))}
             f == Fragment(runtime[r].output, 1, runtime[r].sum)
  <2>1. CASE runtime[r].sum <= MaxValue
    <3>1. runtime[r].at \in ResultSteps
      BY <1>5 DEF StoreOutput, At, ResultSteps
    <3>2. OutputOf(r) \in DataIds /\ f \in FragmentType
      BY <2>1, <3>1, OutputArguments
    <3>3. committee \in SUBSET Nodes
      BY DEF TypeOK, RuntimeState
    <3>4. Put(free, OutputOf(r), f)
      BY <1>5, <2>1 DEF StoreOutput
    <3>5. ASSUME NEW n \in free PROVE ~Holds(n, OutputOf(r))
      <4>1. n \in committee /\ (n <= n => ~Holds(n, OutputOf(r)))
        OBVIOUS
      <4>2. n \in Nat
        BY <3>3, <4>1, WorkflowAssumption
      <4>3. n <= n
        BY <4>2
      <4>4. QED
        BY <4>1, <4>3
    <3>6. free \in SUBSET Nodes
      BY <3>3
    <3> HIDE DEF free, f
    <3>7. QED
      BY <3>2, <3>4, <3>5, <3>6
  <2>2. CASE ~(runtime[r].sum <= MaxValue)
    BY <1>5, <2>2 DEF StoreOutput
  <2>3. QED
    BY <2>1, <2>2
<1>6. CASE UNCHANGED vars
  BY <1>6 DEF vars
<1>7. QED
  BY <1>1, <1>2, <1>3, <1>4, <1>5, <1>6
     DEF Next, UploadSecretShares, UploadFheCiphertext, Representations

-----------------------------------------------------------------------------
(* Nothing is lost *)

StoredInv ==
  /\ \A n \in Nodes, d \in DataIds : Holds(n, d) => given[d] # None
  /\ NothingIsLost

(* What an id was first stored with does not change.                        *)
LEMMA GivenStays ==
  ASSUME TypeOK, [Next]_vars, NEW d \in DataIds, given[d] # None
  PROVE  given'[d] = given[d]
<1>1. ASSUME NEW nodes, NEW x, NEW f, Put(nodes, x, f) PROVE given'[d] = given[d]
  BY <1>1 DEF Put, TypeOK
<1>2. ASSUME NEW r \in Runtimes, Handoff(r) PROVE given' = given
  BY <1>2 DEF Handoff
<1>3. QED
  BY <1>1, <1>2, StorageStep

LEMMA StoredStep == TypeOK /\ StoredInv /\ [Next]_vars => StoredInv'
<1> SUFFICES ASSUME TypeOK, StoredInv, [Next]_vars PROVE StoredInv'
  OBVIOUS
<1> USE DEF StoredInv, NothingIsLost
<1>1. CASE UNCHANGED <<storage, given>>
  BY <1>1 DEF Holds, Holders
<1>2. ASSUME NEW nodes \in SUBSET Nodes, NEW d \in DataIds, NEW f \in FragmentType,
             Put(nodes, d, f), \A n \in nodes : ~Holds(n, d)
      PROVE  StoredInv'
  <2>1. \A n \in Nodes, x \in DataIds :
          /\ Holds(n, x)' <=> Holds(n, x) \/ (x = d /\ n \in nodes)
          /\ x = d /\ n \in nodes => storage'[<<n, x>>] = f
          /\ Holds(n, x) /\ ~(x = d /\ n \in nodes) => storage'[<<n, x>>] = storage[<<n, x>>]
    BY <1>2, PutFacts
  <2>2. \A x \in DataIds : given'[x] =
          IF x = d /\ given[d] = None /\ nodes # {} THEN f.value ELSE given[x]
    BY <1>2 DEF Put, TypeOK
  <2>3. f.value # None
    BY WorkflowAssumption DEF FragmentType
  <2>4. \A n \in Nodes, x \in DataIds : Holds(n, x)' => given'[x] # None
    BY <2>1, <2>2, <2>3
  <2>5. ASSUME NEW x \in DataIds, given'[x] # None
        PROVE  \E n \in Holders(x)' : storage'[<<n, x>>].value = given'[x]
    <3>1. CASE given[x] = None
      <4>1. x = d /\ nodes # {} /\ given'[x] = f.value
        BY <2>2, <2>5, <3>1
      <4>2. PICK n \in nodes : TRUE
        BY <4>1
      <4>3. Holds(n, x)' /\ storage'[<<n, x>>] = f
        BY <2>1, <4>1, <4>2
      <4>4. QED
        BY <4>1, <4>2, <4>3 DEF Holders
    <3>2. CASE given[x] # None
      <4>1. PICK n \in Holders(x) : storage[<<n, x>>].value = given[x]
        BY <3>2
      <4>2. n \in Nodes /\ Holds(n, x)
        BY <4>1 DEF Holders
      <4>3. Holds(n, x)' /\ storage'[<<n, x>>] = storage[<<n, x>>]
        BY <1>2, <2>1, <4>2
      <4>4. QED
        BY <2>2, <3>2, <4>1, <4>2, <4>3 DEF Holders
    <3>3. QED
      BY <3>1, <3>2
  <2>6. QED
    BY <2>4, <2>5
<1>3. ASSUME NEW r \in Runtimes, Handoff(r), MayHandOff(Current(r), runtime[r].committee)
      PROVE  StoredInv'
  <2>1. runtime[r].at \in LoopSteps
    BY <1>3 DEF Handoff, At, LoopSteps
  <2>2. Current(r) \in DataIds /\ runtime[r].committee \in SUBSET Nodes
    BY <2>1, TypeParts, CurrentTyped
  <2>3. PICK d \in DataIds, committee \in SUBSET Nodes :
          d = Current(r) /\ committee = runtime[r].committee
    BY <2>2
  <2>4. PICK source : source = CHOOSE g \in FragmentsAt(Holders(d), d) : TRUE
    OBVIOUS
  <2>5. PICK f : f = HandedOff(source)
    OBVIOUS
  <2>6. storage' = MovedTo(committee, d, f) /\ given' = given
    BY <1>3, <2>3, <2>4, <2>5 DEF Handoff
  <2>7. /\ committee # {} /\ Holders(d) # {} /\ f \in FragmentType
        /\ \A n \in Holders(d) : f.value = storage[<<n, d>>].value
    BY <1>3, <2>3, <2>4, <2>5, HandoffFacts
  <2>8. \A n \in Nodes, x \in DataIds :
          /\ Holds(n, x)' <=> (x = d /\ n \in committee) \/ (x # d /\ Holds(n, x))
          /\ x = d /\ n \in committee => storage'[<<n, x>>] = f
          /\ x # d /\ Holds(n, x) => storage'[<<n, x>>] = storage[<<n, x>>]
    BY <2>6, <2>7, MovedFacts
  <2>9. given[d] # None /\ f.value = given[d]
    <3>1. given[d] # None
      BY <2>7 DEF Holders
    <3>2. QED
      BY <2>7, <3>1
  <2>10. \A n \in Nodes, x \in DataIds : Holds(n, x)' => given'[x] # None
    BY <2>6, <2>8, <2>9
  <2>11. ASSUME NEW x \in DataIds, given'[x] # None
         PROVE  \E n \in Holders(x)' : storage'[<<n, x>>].value = given'[x]
    <3>1. CASE x = d
      <4>1. PICK n \in committee : TRUE
        BY <2>7
      <4>2. Holds(n, x)' /\ storage'[<<n, x>>] = f
        BY <2>8, <3>1, <4>1
      <4>3. QED
        BY <2>6, <2>9, <3>1, <4>1, <4>2 DEF Holders
    <3>2. CASE x # d
      <4>1. PICK n \in Holders(x) : storage[<<n, x>>].value = given[x]
        BY <2>6, <2>11
      <4>2. n \in Nodes /\ Holds(n, x)
        BY <4>1 DEF Holders
      <4>3. Holds(n, x)' /\ storage'[<<n, x>>] = storage[<<n, x>>]
        BY <2>8, <3>2, <4>2
      <4>4. QED
        BY <2>6, <4>1, <4>2, <4>3 DEF Holders
    <3>3. QED
      BY <3>1, <3>2
  <2>12. QED
    BY <2>10, <2>11
<1>4. QED
  BY <1>1, <1>2, <1>3, StorageStep

LEMMA StoredInit == Init => StoredInv
BY DEF Init, StoredInv, NothingIsLost, Holds, Holders, DataIds

LEMMA StoredAlways == Spec => [](TypeOK /\ StoredInv)
<1>1. Init => TypeOK /\ StoredInv
  BY TypeInit, StoredInit
<1>2. TypeOK /\ StoredInv /\ [Next]_vars => (TypeOK /\ StoredInv)'
  BY TypeStep, StoredStep
<1>3. QED
  BY <1>1, <1>2, PTL DEF Spec

(* The value an id was first stored with is still at some node, for any     *)
(* number of runtimes: a hand-off removes fragments of one value only, and  *)
(* writes it before; an upload never replaces a fragment.                   *)
THEOREM NothingIsEverLost == Spec => []NothingIsLost
<1>1. StoredInv => NothingIsLost
  BY DEF StoredInv
<1>2. QED
  BY <1>1, StoredAlways, PTL

-----------------------------------------------------------------------------
(* One runtime *)

\* How many inputs have been read.
Done(m) == IF m.at \in ResultSteps THEN Len(m.inputs) ELSE m.next - 1

Addends(values, inputs, k) ==
  [i \in 1..Len(inputs) |-> IF i <= k THEN values[inputs[i]] ELSE 0]

SumOK(values, m) ==
  m.at \in LoopSteps \cup ResultSteps =>
    /\ \A i \in 1..Done(m) : values[m.inputs[i]] # None
    /\ m.sum = Total(Addends(values, m.inputs, Done(m)))

\* Between a hand-off and the read of it, the committee has what was handed off.
HeldOK(r) ==
  LET d == Current(r) IN
  /\ At(r, "record") \/ At(r, "read") =>
       /\ given[d] # None
       /\ \A n \in runtime[r].committee : Holds(n, d) /\ storage[<<n, d>>].value = given[d]
  /\ At(r, "record") =>
       \A n \in runtime[r].committee : storage[<<n, d>>].version = runtime[r].version

\* A result is somewhere, and at its committee until it is moved as an input.
Placed(o, nodes) ==
  /\ \E n \in Holders(o) : storage[<<n, o>>].value = o[2]
  /\ HandedOver(o) \/ \A n \in nodes : Holds(n, o) /\ storage[<<n, o>>].value = o[2]

ComputeInv(r) ==
  /\ SumOK(given, runtime[r])
  /\ HeldOK(r)
  /\ At(r, "publish") => Placed(OutputOf(r), runtime[r].committee)
  /\ ResultsAreSums

LEMMA FragmentStays ==
  ASSUME TypeOK, [Next]_vars, NEW n \in Nodes, NEW x \in DataIds, Holds(n, x),
         \A r \in Runtimes :
           Handoff(r) /\ MayHandOff(Current(r), runtime[r].committee) => Current(r) # x
  PROVE  Holds(n, x)' /\ storage'[<<n, x>>] = storage[<<n, x>>]
<1>1. CASE UNCHANGED <<storage, given>>
  BY <1>1 DEF Holds
<1>2. ASSUME NEW nodes \in SUBSET Nodes, NEW d \in DataIds, NEW f \in FragmentType,
             Put(nodes, d, f), \A k \in nodes : ~Holds(k, d)
      PROVE  Holds(n, x)' /\ storage'[<<n, x>>] = storage[<<n, x>>]
  <2>1. ~(x = d /\ n \in nodes)
    BY <1>2
  <2>2. \A k \in Nodes, y \in DataIds :
          /\ Holds(k, y)' <=> Holds(k, y) \/ (y = d /\ k \in nodes)
          /\ Holds(k, y) /\ ~(y = d /\ k \in nodes) => storage'[<<k, y>>] = storage[<<k, y>>]
    BY <1>2, PutFacts
  <2>3. QED
    BY <2>1, <2>2
<1>3. ASSUME NEW r \in Runtimes, Handoff(r), MayHandOff(Current(r), runtime[r].committee)
      PROVE  Holds(n, x)' /\ storage'[<<n, x>>] = storage[<<n, x>>]
  <2>1. PICK d, committee, f : d = Current(r) /\ storage' = MovedTo(committee, d, f)
    BY <1>3 DEF Handoff
  <2>2. d # x /\ <<n, x>>[2] = x
    BY <1>3, <2>1
  <2>3. <<n, x>> \in (DOMAIN storage \ (Nodes \X {d})) \cup (committee \X {d})
    BY <2>2 DEF Holds
  <2>4. QED
    BY <2>1, <2>2, <2>3 DEF MovedTo, Holds
<1>4. QED
  BY <1>1, <1>2, <1>3, StorageStep

LEMMA RecordWaits ==
  ASSUME TypeOK, [Next]_vars, NEW r \in Runtimes, At(r, "record"), ~RecordHandoff(r)
  PROVE  runtime'[r] = runtime[r]
<1>1. ASSUME NEW q \in Runtimes, NEW m, Become(q, m), q # r PROVE runtime'[r] = runtime[r]
  BY <1>1 DEF Become, TypeOK
<1>2. ASSUME NEW q \in Runtimes,
             Poll(q) \/ Resume(q) \/ Locate(q) \/ Handoff(q) \/ Read(q) \/ StoreOutput(q)
               \/ RecordComputation(q)
      PROVE  q # r /\ \E m : Become(q, m)
  <2>1. q # r
    BY <1>2 DEF Poll, Resume, Locate, Handoff, Read, StoreOutput, RecordComputation, At
  <2>2. CASE Poll(q)
    BY <2>1, <2>2 DEF Poll
  <2>3. CASE Resume(q)
    BY <2>1, <2>3 DEF Resume
  <2>4. CASE Locate(q)
    BY <2>1, <2>4 DEF Locate
  <2>5. CASE Handoff(q)
    BY <2>1, <2>5 DEF Handoff
  <2>6. CASE Read(q)
    BY <2>1, <2>6 DEF Read
  <2>7. CASE StoreOutput(q)
    BY <2>1, <2>7 DEF StoreOutput
  <2>8. CASE RecordComputation(q)
    BY <2>1, <2>8 DEF RecordComputation
  <2>9. QED
    BY <1>2, <2>1, <2>2, <2>3, <2>4, <2>5, <2>6, <2>7, <2>8
<1>3. ASSUME NEW q \in Runtimes, RecordHandoff(q) PROVE q # r /\ \E m : Become(q, m)
  BY <1>3 DEF RecordHandoff
<1>4. ASSUME NEW d, NEW rep, NEW version, NEW v, NEW nodes, Upload(d, rep, version, v, nodes)
      PROVE  runtime' = runtime
  BY <1>4 DEF Upload
<1>5. ASSUME NEW event, PushEvent(event) PROVE runtime' = runtime
  BY <1>5 DEF PushEvent
<1>6. CASE UNCHANGED vars
  BY <1>6 DEF vars
<1>7. QED
  BY <1>1, <1>2, <1>3, <1>4, <1>5, <1>6 DEF Next, UploadSecretShares, UploadFheCiphertext

(* A hand-off that is recorded, or about to be, stays so. *)
LEMMA HandedOverStays ==
  ASSUME TypeOK, [Next]_vars, NEW d, HandedOver(d)
  PROVE  HandedOver(d)'
<1>1. handoffs \in Seq(Handover)
  BY DEF TypeOK
<1>2. ASSUME NEW r \in Runtimes, RecordHandoff(r)
      PROVE  /\ \A i \in DOMAIN handoffs : i \in DOMAIN handoffs' /\ handoffs'[i] = handoffs[i]
             /\ \E i \in DOMAIN handoffs' : handoffs'[i].d = Current(r)
  <2>1. PICK h : h = [d |-> Current(r), old |-> runtime[r].old, new |-> runtime[r].committee,
                      version |-> runtime[r].version]
    OBVIOUS
  <2>2. handoffs' = Append(handoffs, h) /\ h.d = Current(r)
    BY <1>2, <2>1 DEF RecordHandoff
  <2>3. h \in Handover
    <3>1. At(r, "record") /\ runtime[r].at \in LoopSteps
      BY <1>2 DEF RecordHandoff, At, LoopSteps
    <3>2. QED
      BY <2>1, <3>1, TypeParts, CurrentTyped DEF TypeOK, RuntimeState, Handover
  <2>4. /\ Len(handoffs) \in Nat /\ DOMAIN handoffs = 1..Len(handoffs)
        /\ DOMAIN handoffs' = 1..(Len(handoffs) + 1) /\ handoffs'[Len(handoffs) + 1] = h
        /\ \A i \in 1..Len(handoffs) : handoffs'[i] = handoffs[i]
    BY <1>1, <2>2, <2>3
  <2>5. Len(handoffs) + 1 \in DOMAIN handoffs'
    BY <2>4
  <2>6. QED
    BY <2>2, <2>4, <2>5
<1>3. (\A r \in Runtimes : ~RecordHandoff(r)) => handoffs' = handoffs
  BY DEF Next, vars, UploadSecretShares, UploadFheCiphertext, Upload, PushEvent, Poll, Resume,
     Locate, Handoff, Read, StoreOutput, RecordComputation
<1>4. ASSUME NEW i \in DOMAIN handoffs, handoffs[i].d = d PROVE HandedOver(d)'
  BY <1>2, <1>3, <1>4 DEF HandedOver
<1>5. ASSUME NEW r \in Runtimes, At(r, "record"), Current(r) = d PROVE HandedOver(d)'
  <2>1. CASE RecordHandoff(r)
    BY <1>2, <1>5, <2>1 DEF HandedOver
  <2>2. CASE ~RecordHandoff(r)
    <3>1. runtime'[r] = runtime[r]
      BY <1>5, <2>2, RecordWaits
    <3>2. At(r, "record")' /\ Current(r)' = d
      BY <1>5, <3>1 DEF At, Current
    <3>3. QED
      BY <3>2 DEF HandedOver
  <2>3. QED
    BY <2>1, <2>2
<1>6. QED
  BY <1>4, <1>5 DEF HandedOver

(* A hand-off of a result is of fragments that agree, on its value. *)
LEMMA PlacedMoves ==
  ASSUME TypeOK, [Next]_vars, NEW o \in DataIds, NEW nodes, Placed(o, nodes),
         NEW r \in Runtimes, Handoff(r), MayHandOff(Current(r), runtime[r].committee),
         Current(r) = o
  PROVE  Placed(o, nodes)'
<1>1. runtime[r].at \in LoopSteps
  BY DEF Handoff, At, LoopSteps
<1>2. runtime[r].committee \in SUBSET Nodes /\ runtime[r] \in RuntimeState
  BY <1>1, TypeParts, CurrentTyped
<1>3. PICK committee \in SUBSET Nodes : committee = runtime[r].committee
  BY <1>2
<1>4. PICK source : source = CHOOSE g \in FragmentsAt(Holders(o), o) : TRUE
  OBVIOUS
<1>5. PICK f : f = HandedOff(source)
  OBVIOUS
<1>6. /\ storage' = MovedTo(committee, o, f)
      /\ Become(r, [runtime[r] EXCEPT !.at = "record", !.version = source.version + 1])
  BY <1>3, <1>4, <1>5 DEF Handoff
<1>7. /\ committee # {} /\ f \in FragmentType
      /\ \A n \in Holders(o) : f.value = storage[<<n, o>>].value
  BY <1>3, <1>4, <1>5, HandoffFacts
<1>8. f.value = o[2]
  BY <1>7 DEF Placed
<1>9. PICK n \in committee : n \in Nodes
  BY <1>3, <1>7
<1>10. Holds(n, o)' /\ storage'[<<n, o>>] = f
  BY <1>6, <1>7, <1>9, MovedFacts DEF Holds
<1>11. n \in Holders(o)' /\ storage'[<<n, o>>].value = o[2]
  BY <1>8, <1>9, <1>10 DEF Holders
<1>12. At(r, "record")' /\ Current(r)' = o
  BY <1>2, <1>6 DEF Become, TypeOK, RuntimeState, At, Current
<1>13. HandedOver(o)'
  BY <1>12 DEF HandedOver
<1>14. QED
  BY <1>11, <1>13 DEF Placed

LEMMA PlacedStays ==
  ASSUME TypeOK, [Next]_vars, NEW o \in OutputIds, NEW nodes \in SUBSET Nodes, Placed(o, nodes)
  PROVE  Placed(o, nodes)'
<1>1. o \in DataIds
  BY DEF DataIds
<1>2. CASE \E r \in Runtimes :
             Handoff(r) /\ MayHandOff(Current(r), runtime[r].committee) /\ Current(r) = o
  BY <1>1, <1>2, PlacedMoves
<1>3. CASE \A r \in Runtimes :
             Handoff(r) /\ MayHandOff(Current(r), runtime[r].committee) => Current(r) # o
  <2>1. ASSUME NEW n \in Nodes, Holds(n, o)
        PROVE  Holds(n, o)' /\ storage'[<<n, o>>] = storage[<<n, o>>]
    BY <1>1, <1>3, <2>1, FragmentStays
  <2>2. \E n \in Holders(o)' : storage'[<<n, o>>].value = o[2]
    <3>1. PICK n \in Holders(o) : storage[<<n, o>>].value = o[2]
      BY DEF Placed
    <3>2. n \in Nodes /\ Holds(n, o)
      BY <3>1 DEF Holders
    <3>3. Holds(n, o)' /\ storage'[<<n, o>>].value = o[2]
      BY <2>1, <3>1, <3>2
    <3>4. n \in Holders(o)'
      BY <3>2, <3>3 DEF Holders
    <3>5. QED
      BY <3>3, <3>4
  <2>3. CASE HandedOver(o)
    BY <2>2, <2>3, HandedOverStays DEF Placed
  <2>4. CASE \A n \in nodes : Holds(n, o) /\ storage[<<n, o>>].value = o[2]
    <3>1. \A n \in nodes : Holds(n, o)' /\ storage'[<<n, o>>].value = o[2]
      BY <2>1, <2>4
    <3>2. QED
      BY <2>2, <3>1 DEF Placed
  <2>5. QED
    BY <2>3, <2>4 DEF Placed
<1>4. QED
  BY <1>2, <1>3

LEMMA AddendsStay ==
  ASSUME TypeOK, [Next]_vars, NEW inputs \in Seq(DataIds), NEW k \in Nat, k <= Len(inputs),
         \A i \in 1..k : given[inputs[i]] # None
  PROVE  /\ \A i \in 1..k : given'[inputs[i]] = given[inputs[i]]
         /\ Addends(given', inputs, k) = Addends(given, inputs, k)
<1>1. ASSUME NEW i \in 1..k PROVE given'[inputs[i]] = given[inputs[i]]
  <2>1. i \in 1..Len(inputs)
    OBVIOUS
  <2>2. inputs[i] \in DataIds
    BY <2>1 DEF DataIds
  <2>3. QED
    BY <2>2, GivenStays
<1>2. Addends(given', inputs, k) = Addends(given, inputs, k)
  BY <1>1 DEF Addends
<1>3. QED
  BY <1>1, <1>2

\* The results recorded before.
LEMMA ResultsStay ==
  ASSUME TypeOK, ResultsAreSums, [Next]_vars, NEW c \in computations
  PROVE  /\ \A i \in DOMAIN c.inputs : given'[c.inputs[i]] # None
         /\ c.output[2] = Total([i \in DOMAIN c.inputs |-> given'[c.inputs[i]]])
         /\ Placed(c.output, c.nodes)'
<1>1. c.output \in OutputIds /\ c.nodes \in SUBSET Nodes /\ c.inputs \in Seq(DataIds)
  BY DEF TypeOK, Computation
<1>2. Placed(c.output, c.nodes)
  BY DEF ResultsAreSums, Placed
<1>3. Placed(c.output, c.nodes)'
  BY <1>1, <1>2, PlacedStays
<1>4. \A i \in DOMAIN c.inputs : given'[c.inputs[i]] = given[c.inputs[i]]
  <2>1. ASSUME NEW i \in DOMAIN c.inputs PROVE given'[c.inputs[i]] = given[c.inputs[i]]
    <3>1. c.inputs[i] \in DataIds
      BY <1>1 DEF DataIds
    <3>2. given[c.inputs[i]] # None
      BY DEF ResultsAreSums
    <3>3. QED
      BY <3>1, <3>2, GivenStays
  <2>2. QED
    BY <2>1
<1>5. [i \in DOMAIN c.inputs |-> given'[c.inputs[i]]] = [i \in DOMAIN c.inputs |-> given[c.inputs[i]]]
  BY <1>4
<1>6. QED
  BY <1>3, <1>4, <1>5 DEF ResultsAreSums

LEMMA SumKept ==
  ASSUME TypeOK, [Next]_vars, NEW m \in RuntimeState, WorkOK(m), SumOK(given, m)
  PROVE  SumOK(given', m)
<1> SUFFICES ASSUME m.at \in LoopSteps \cup ResultSteps PROVE SumOK(given', m)
  BY DEF SumOK
<1>1. /\ \A i \in 1..Done(m) : given[m.inputs[i]] # None
      /\ m.sum = Total(Addends(given, m.inputs, Done(m)))
  BY DEF SumOK
<1>2. m.inputs \in Seq(DataIds) /\ m.next \in Nat /\ Len(m.inputs) \in Nat
      /\ m.next \in 1..Len(m.inputs)
  BY DEF RuntimeState, WorkOK
<1>3. Done(m) \in Nat /\ Done(m) <= Len(m.inputs)
  BY <1>2 DEF Done
<1>4. /\ \A i \in 1..Done(m) : given'[m.inputs[i]] = given[m.inputs[i]]
      /\ Addends(given', m.inputs, Done(m)) = Addends(given, m.inputs, Done(m))
  BY <1>1, <1>2, <1>3, AddendsStay
<1>5. QED
  BY <1>1, <1>4 DEF SumOK

\* Two states of a runtime that have read the same inputs.
LEMMA SameSum ==
  ASSUME NEW values, NEW m, NEW k, SumOK(values, m), m.at \in LoopSteps \cup ResultSteps,
         k.inputs = m.inputs, k.sum = m.sum, Done(k) = Done(m)
  PROVE  SumOK(values, k)
BY DEF SumOK

LEMMA HeldKept ==
  ASSUME TypeOK, [Next]_vars, NEW r, Runtimes = {r}, HeldOK(r), NEW d, d = Current(r),
         At(r, "record") \/ At(r, "read")
  PROVE  /\ d \in DataIds /\ given'[d] # None
         /\ \A n \in runtime[r].committee :
              /\ Holds(n, d)' /\ storage'[<<n, d>>] = storage[<<n, d>>]
              /\ storage'[<<n, d>>].value = given'[d]
<1>1. runtime[r].at \in LoopSteps /\ r \in Runtimes
  BY DEF At, LoopSteps
<1>2. d \in DataIds /\ runtime[r].committee \in SUBSET Nodes
  BY <1>1, TypeParts, CurrentTyped
<1>3. given[d] # None
      /\ \A n \in runtime[r].committee : Holds(n, d) /\ storage[<<n, d>>].value = given[d]
  BY DEF HeldOK
<1>4. given'[d] = given[d]
  BY <1>2, <1>3, GivenStays
<1>5. \A q \in Runtimes : ~Handoff(q)
  BY DEF Handoff, At
<1>6. ASSUME NEW n \in runtime[r].committee
      PROVE  Holds(n, d)' /\ storage'[<<n, d>>] = storage[<<n, d>>]
  <2>1. n \in Nodes /\ Holds(n, d)
    BY <1>2, <1>3
  <2>2. QED
    BY <1>2, <1>5, <2>1, FragmentStays
<1>7. QED
  BY <1>2, <1>3, <1>4, <1>6

LEMMA ResultsKept ==
  ASSUME TypeOK, ResultsAreSums, [Next]_vars, computations' = computations
  PROVE  ResultsAreSums'
BY ResultsStay DEF ResultsAreSums, Placed

LEMMA ComputeFrame ==
  ASSUME TypeOK, [Next]_vars, NEW r, Runtimes = {r}, ComputeInv(r),
         runtime' = runtime, computations' = computations
  PROVE  ComputeInv(r)'
<1>1. runtime[r] \in RuntimeState /\ WorkOK(runtime[r])
  BY DEF TypeOK
<1>2. SumOK(given, runtime[r])'
  BY <1>1, SumKept DEF ComputeInv
<1>3. HeldOK(r)'
  <2>1. PICK d : d = Current(r)
    OBVIOUS
  <2>2. Current(r)' = d /\ \A step : At(r, step)' <=> At(r, step)
    BY <2>1 DEF Current, At
  <2>3. CASE At(r, "record") \/ At(r, "read")
    <3>1. /\ given'[d] # None
          /\ \A n \in runtime[r].committee :
               /\ Holds(n, d)' /\ storage'[<<n, d>>] = storage[<<n, d>>]
               /\ storage'[<<n, d>>].value = given'[d]
      BY <2>1, <2>3, HeldKept DEF ComputeInv
    <3>2. At(r, "record") =>
            \A n \in runtime[r].committee : storage[<<n, d>>].version = runtime[r].version
      BY <2>1 DEF ComputeInv, HeldOK
    <3>3. QED
      BY <2>2, <3>1, <3>2 DEF HeldOK
  <2>4. QED
    BY <2>2, <2>3 DEF HeldOK
<1>4. ASSUME At(r, "publish")' PROVE Placed(OutputOf(r), runtime[r].committee)'
  <2>1. At(r, "publish") /\ runtime[r].at \in ResultSteps
    BY <1>4 DEF At, ResultSteps
  <2>2. runtime[r].sum <= MaxValue /\ runtime[r].committee \in SUBSET Nodes
    BY <1>1, <2>1 DEF WorkOK, At, RuntimeState
  <2>3. PICK o \in OutputIds : o = OutputOf(r)
    BY <2>1, <2>2, OutputArguments
  <2>4. PICK nodes \in SUBSET Nodes : nodes = runtime[r].committee
    BY <2>2
  <2>5. Placed(o, nodes)'
    BY <2>1, <2>3, <2>4, PlacedStays DEF ComputeInv
  <2>6. OutputOf(r)' = o /\ runtime'[r].committee = nodes
    BY <2>3, <2>4 DEF OutputOf
  <2>7. QED
    BY <2>5, <2>6 DEF Placed
<1>5. QED
  BY <1>2, <1>3, <1>4, ResultsKept DEF ComputeInv

\* A computation that has not started, or has ended, needs nothing.
LEMMA ComputeRest ==
  ASSUME NEW r, ResultsAreSums', runtime'[r].at \in {"idle", "failed"}
  PROVE  ComputeInv(r)'
BY DEF ComputeInv, SumOK, HeldOK, At, LoopSteps, ResultSteps

LEMMA BecomeRest ==
  ASSUME TypeOK, ResultsAreSums, [Next]_vars, NEW r \in Runtimes, computations' = computations,
         Become(r, Idle) \/ Become(r, [Idle EXCEPT !.at = "failed"])
  PROVE  ComputeInv(r)'
<1>1. runtime'[r].at \in {"idle", "failed"}
  BY DEF Become, TypeOK, Idle
<1>2. QED
  BY <1>1, ResultsKept, ComputeRest

LEMMA AddendsTyped ==
  ASSUME NEW values \in [DataIds -> (0..MaxValue) \cup {None}], NEW inputs \in Seq(DataIds),
         NEW k \in Nat, k <= Len(inputs), \A i \in 1..k : values[inputs[i]] # None
  PROVE  Addends(values, inputs, k) \in [1..Len(inputs) -> Nat]
<1>1. ASSUME NEW i \in 1..Len(inputs) PROVE (IF i <= k THEN values[inputs[i]] ELSE 0) \in Nat
  <2>1. CASE i <= k
    <3>1. i \in 1..k /\ inputs[i] \in DataIds
      BY <2>1 DEF DataIds
    <3>2. values[inputs[i]] \in 0..MaxValue
      BY <3>1
    <3>3. QED
      BY <2>1, <3>2, WorkflowAssumption
  <2>2. CASE ~(i <= k)
    BY <2>2
  <2>3. QED
    BY <2>1, <2>2
<1>2. QED
  BY <1>1 DEF Addends

LEMMA NoAddends ==
  ASSUME NEW values \in [DataIds -> (0..MaxValue) \cup {None}], NEW inputs \in Seq(DataIds)
  PROVE  Total(Addends(values, inputs, 0)) = 0
<1> DEFINE f == Addends(values, inputs, 0)
<1>1. f \in [1..Len(inputs) -> Nat]
  BY AddendsTyped
<1>2. \A i \in 1..Len(inputs) : f[i] = 0
  BY DEF Addends
<1>3. IsFiniteSet(1..Len(inputs))
  BY FS_Interval
<1> HIDE DEF f
<1>4. Total(f) = 0
  BY <1>1, <1>2, <1>3, TotalBounds
<1>5. QED
  BY <1>4 DEF f

\* One input more.
LEMMA NextAddend ==
  ASSUME NEW values \in [DataIds -> (0..MaxValue) \cup {None}], NEW inputs \in Seq(DataIds),
         NEW k \in 1..Len(inputs), \A i \in 1..k : values[inputs[i]] # None
  PROVE  /\ Total(Addends(values, inputs, k)) =
              Total(Addends(values, inputs, k - 1)) + values[inputs[k]]
         /\ values[inputs[k]] \in Nat
<1> DEFINE f == Addends(values, inputs, k - 1)
           v == values[inputs[k]]
<1>1. k \in Nat /\ k - 1 \in Nat /\ k - 1 <= Len(inputs) /\ k \in 1..Len(inputs) /\ k \in 1..k
      /\ k <= Len(inputs)
  OBVIOUS
<1>2. \A i \in 1..(k - 1) : values[inputs[i]] # None
  BY <1>1
<1>3. f \in [1..Len(inputs) -> Nat]
  BY <1>1, <1>2, AddendsTyped
<1>4. Addends(values, inputs, k) \in [1..Len(inputs) -> Nat]
  BY <1>1, AddendsTyped
<1>5. Addends(values, inputs, k)[k] = v /\ f[k] = 0
  BY <1>1 DEF Addends
<1>6. v \in Nat
  BY <1>1, <1>4, <1>5
<1>7. Addends(values, inputs, k) = [f EXCEPT ![k] = v]
  <2> DEFINE g == Addends(values, inputs, k)
  <2>1. ASSUME NEW i \in 1..Len(inputs), i # k PROVE g[i] = f[i]
    <3>1. i <= k <=> i <= k - 1
      BY <1>1, <2>1
    <3>2. QED
      BY <3>1 DEF Addends
  <2>2. g \in [1..Len(inputs) -> Nat] /\ g[k] = v
    BY <1>4, <1>5
  <2> HIDE DEF f, g, v
  <2>3. g = [f EXCEPT ![k] = v]
    BY <1>1, <1>3, <2>1, <2>2
  <2>4. QED
    BY <2>3 DEF g
<1>8. IsFiniteSet(1..Len(inputs))
  BY FS_Interval
<1>9. Total(f) \in Nat
  <2> HIDE DEF f
  <2> QED BY <1>3, <1>8, UnitsFinite
<1>10. Total([f EXCEPT ![k] = v]) = Total(f) - f[k] + v
  <2> HIDE DEF f, v
  <2> QED BY <1>1, <1>3, <1>6, <1>8, TotalUpdate
<1>11. Total(Addends(values, inputs, k)) = Total(f) + v
  <2> HIDE DEF f, v
  <2> QED BY <1>5, <1>6, <1>7, <1>9, <1>10
<1>12. QED
  BY <1>6, <1>11

LEMMA PollComputes ==
  ASSUME TypeOK, TypeOK', [Next]_vars, NEW r \in Runtimes, ResultsAreSums, Poll(r)
  PROVE  ComputeInv(r)'
<1>1. computations' = computations /\ ResultsAreSums'
  BY ResultsKept DEF Poll
<1>2. runtime'[r].at \in {"idle", "failed"} \/ (runtime'[r].at = "locate" /\ runtime'[r].next = 1 /\ runtime'[r].sum = 0)
  BY DEF Poll, Become, TypeOK, Idle
<1>3. CASE runtime'[r].at = "locate"
  <2>1. PICK m : m = runtime'[r]
    OBVIOUS
  <2>2. m.next = 1 /\ m.sum = 0 /\ m.at = "locate" /\ Done(m) = 0
    BY <1>2, <1>3, <2>1 DEF Done, ResultSteps
  <2>3. m.inputs \in Seq(DataIds) /\ given' \in [DataIds -> (0..MaxValue) \cup {None}]
    BY <2>1 DEF TypeOK, RuntimeState
  <2>4. SumOK(given', m)
    BY <2>2, <2>3, NoAddends DEF SumOK
  <2>5. QED
    BY <1>1, <1>3, <2>1, <2>4 DEF ComputeInv, HeldOK, At
<1>4. QED
  BY <1>1, <1>2, <1>3, ComputeRest

LEMMA LocateComputes ==
  ASSUME TypeOK, [Next]_vars, NEW r \in Runtimes, ComputeInv(r), Locate(r)
  PROVE  ComputeInv(r)'
<1>1. computations' = computations /\ ResultsAreSums'
  BY ResultsKept DEF Locate, ComputeInv
<1>2. PICK m : m = runtime[r]
  OBVIOUS
<1>3. PICK k : k = runtime'[r]
  OBVIOUS
<1>4. m \in RuntimeState /\ WorkOK(m) /\ m.at = "locate" /\ SumOK(given, m)
  BY <1>2 DEF TypeOK, Locate, At, ComputeInv
<1>5. k.at = "handoff" /\ k.inputs = m.inputs /\ k.sum = m.sum /\ k.next = m.next
  BY <1>2, <1>3, <1>4 DEF Locate, Become, TypeOK, RuntimeState
<1>6. Done(k) = Done(m) /\ m.at \in LoopSteps
  BY <1>4, <1>5 DEF Done, ResultSteps, LoopSteps
<1>7. SumOK(given', k)
  BY <1>4, <1>5, <1>6, SumKept, SameSum
<1>8. QED
  BY <1>1, <1>3, <1>5, <1>7 DEF ComputeInv, HeldOK, At

\* The committee gets one fragment, of the value the input was first stored with.
LEMMA HandoffMoves ==
  ASSUME TypeOK, StoredInv, NEW r \in Runtimes, Handoff(r),
         MayHandOff(Current(r), runtime[r].committee), NEW d, d = Current(r)
  PROVE  /\ d \in DataIds /\ given[d] # None /\ given' = given
         /\ \E version \in Nat :
              runtime'[r] = [runtime[r] EXCEPT !.at = "record", !.version = version]
         /\ \A n \in runtime[r].committee :
              /\ Holds(n, d)' /\ storage'[<<n, d>>].value = given[d]
              /\ storage'[<<n, d>>].version = runtime'[r].version
<1>1. runtime[r].at \in LoopSteps
  BY DEF Handoff, At, LoopSteps
<1>2. d \in DataIds /\ runtime[r].committee \in SUBSET Nodes
  BY <1>1, TypeParts, CurrentTyped
<1>3. PICK committee \in SUBSET Nodes : committee = runtime[r].committee
  BY <1>2
<1>4. PICK source : source = CHOOSE g \in FragmentsAt(Holders(d), d) : TRUE
  OBVIOUS
<1>5. PICK f : f = HandedOff(source)
  OBVIOUS
<1>6. /\ storage' = MovedTo(committee, d, f) /\ given' = given
      /\ Become(r, [runtime[r] EXCEPT !.at = "record", !.version = source.version + 1])
  BY <1>3, <1>4, <1>5 DEF Handoff
<1>7. /\ Holders(d) # {} /\ f \in FragmentType /\ f.version = source.version + 1
      /\ \A n \in Holders(d) : f.value = storage[<<n, d>>].value
  BY <1>2, <1>3, <1>4, <1>5, HandoffFacts
<1>8. ASSUME NEW n \in committee PROVE Holds(n, d)' /\ storage'[<<n, d>>] = f
  <2>1. n \in Nodes
    BY <1>3
  <2>2. QED
    BY <1>2, <1>6, <1>7, <2>1, MovedFacts DEF Holds
<1>9. given[d] # None
  BY <1>2, <1>7 DEF Holders, StoredInv
<1>10. f.value = given[d]
  BY <1>2, <1>7, <1>9 DEF StoredInv, NothingIsLost
<1>11. source.version + 1 \in Nat
  BY <1>7 DEF FragmentType
<1>12. runtime'[r] = [runtime[r] EXCEPT !.at = "record", !.version = source.version + 1]
  BY <1>6 DEF Become, TypeOK
<1>13. runtime'[r].version = f.version
  BY <1>7, <1>12 DEF TypeOK, RuntimeState
<1>14. QED
  BY <1>2, <1>3, <1>6, <1>8, <1>9, <1>10, <1>11, <1>12, <1>13

LEMMA HandoffComputes ==
  ASSUME TypeOK, StoredInv, [Next]_vars, NEW r \in Runtimes, ComputeInv(r), Handoff(r)
  PROVE  ComputeInv(r)'
<1>1. computations' = computations /\ ResultsAreSums /\ ResultsAreSums'
  BY ResultsKept DEF Handoff, ComputeInv
<1>2. PICK d : d = Current(r)
  OBVIOUS
<1>3. PICK m : m = runtime[r]
  OBVIOUS
<1>4. PICK k : k = runtime'[r]
  OBVIOUS
<1>5. m \in RuntimeState /\ WorkOK(m) /\ m.at = "handoff" /\ SumOK(given, m)
  BY <1>3 DEF TypeOK, Handoff, At, ComputeInv
<1>6. CASE MayHandOff(d, m.committee)
  <2>1. MayHandOff(Current(r), runtime[r].committee)
    BY <1>2, <1>3, <1>6
  <2>2. given[d] # None /\ given' = given
    BY <1>2, <2>1, HandoffMoves
  <2>3. ASSUME NEW n \in runtime[r].committee
        PROVE  /\ Holds(n, d)' /\ storage'[<<n, d>>].value = given[d]
               /\ storage'[<<n, d>>].version = runtime'[r].version
    BY <1>2, <2>1, HandoffMoves DEF Holds
  <2>4. /\ given[d] # None /\ given' = given
        /\ \A n \in m.committee :
             /\ Holds(n, d)' /\ storage'[<<n, d>>].value = given[d]
             /\ storage'[<<n, d>>].version = k.version
    BY <1>3, <1>4, <2>2, <2>3
  <2> PICK version \in Nat : k = [m EXCEPT !.at = "record", !.version = version]
    BY <1>2, <1>3, <1>4, <2>1, HandoffMoves
  <2>5. /\ k.at = "record" /\ k.inputs = m.inputs /\ k.sum = m.sum /\ k.next = m.next
        /\ k.committee = m.committee
    BY <1>5 DEF RuntimeState
  <2>6. Done(k) = Done(m) /\ m.at \in LoopSteps
    BY <1>5, <2>5 DEF Done, ResultSteps, LoopSteps
  <2>7. SumOK(given', k)
    BY <1>5, <2>5, <2>6, SumKept, SameSum
  <2>8. Current(r)' = d
    BY <1>2, <1>3, <1>4, <2>5 DEF Current
  <2>9. HeldOK(r)'
    BY <1>3, <1>4, <2>4, <2>5, <2>8 DEF HeldOK
  <2>10. QED
    BY <1>1, <1>4, <2>5, <2>7, <2>9 DEF ComputeInv, At
<1>7. CASE ~MayHandOff(d, m.committee)
  <2>1. Become(r, [Idle EXCEPT !.at = "failed"])
    BY <1>2, <1>3, <1>7 DEF Handoff
  <2>2. QED
    BY <1>1, <2>1, BecomeRest
<1>8. QED
  BY <1>6, <1>7

LEMMA RecordHandoffComputes ==
  ASSUME TypeOK, [Next]_vars, NEW r, Runtimes = {r}, ComputeInv(r), RecordHandoff(r)
  PROVE  ComputeInv(r)'
<1>1. computations' = computations /\ ResultsAreSums' /\ r \in Runtimes
  BY ResultsKept DEF RecordHandoff, ComputeInv
<1>2. PICK d : d = Current(r)
  OBVIOUS
<1>3. PICK m : m = runtime[r]
  OBVIOUS
<1>4. PICK k : k = runtime'[r]
  OBVIOUS
<1>5. m \in RuntimeState /\ WorkOK(m) /\ m.at = "record" /\ SumOK(given, m) /\ At(r, "record")
  BY <1>1, <1>3 DEF TypeOK, RecordHandoff, At, ComputeInv
<1>6. /\ k.at = "read" /\ k.inputs = m.inputs /\ k.sum = m.sum /\ k.next = m.next
      /\ k.committee = m.committee
  BY <1>1, <1>3, <1>4, <1>5 DEF RecordHandoff, Become, TypeOK, RuntimeState
<1>7. Done(k) = Done(m) /\ m.at \in LoopSteps
  BY <1>5, <1>6 DEF Done, ResultSteps, LoopSteps
<1>8. SumOK(given', k)
  BY <1>5, <1>6, <1>7, SumKept, SameSum
<1>9. /\ given'[d] # None
      /\ \A n \in m.committee : Holds(n, d)' /\ storage'[<<n, d>>].value = given'[d]
  BY <1>2, <1>3, <1>5, HeldKept DEF ComputeInv
<1>10. Current(r)' = d
  BY <1>2, <1>3, <1>4, <1>6 DEF Current
<1>11. HeldOK(r)'
  BY <1>4, <1>6, <1>9, <1>10 DEF HeldOK, At
<1>12. QED
  BY <1>1, <1>4, <1>6, <1>8, <1>11 DEF ComputeInv, At

\* What the committee holds is what is read.
LEMMA ReadValue ==
  ASSUME TypeOK, NEW r \in Runtimes, HeldOK(r), At(r, "read"), NEW d, d = Current(r),
         NEW f, f = CHOOSE g \in FragmentsAt(runtime[r].committee, d) : TRUE
  PROVE  f.value = given[d] /\ given[d] # None
<1>1. runtime[r].committee # {}
  BY DEF TypeOK, WorkOK, At
<1>2. f \in FragmentsAt(runtime[r].committee, d)
  BY <1>1 DEF FragmentsAt
<1>3. PICK n \in runtime[r].committee : f = storage[<<n, d>>]
  BY <1>2 DEF FragmentsAt
<1>4. QED
  BY <1>3 DEF HeldOK

LEMMA ReadComputes ==
  ASSUME TypeOK, [Next]_vars, NEW r, Runtimes = {r}, ComputeInv(r), Read(r)
  PROVE  ComputeInv(r)'
<1>1. computations' = computations /\ ResultsAreSums /\ ResultsAreSums' /\ r \in Runtimes
      /\ given' = given
  BY ResultsKept DEF Read, ComputeInv
<1>2. PICK d : d = Current(r)
  OBVIOUS
<1>3. PICK m : m = runtime[r]
  OBVIOUS
<1>4. PICK k : k = runtime'[r]
  OBVIOUS
<1>5. m \in RuntimeState /\ WorkOK(m) /\ m.at = "read" /\ SumOK(given, m) /\ At(r, "read")
  BY <1>1, <1>3 DEF TypeOK, Read, At, ComputeInv
<1>6. CASE MayReadAt(m.committee, d)
  <2>1. PICK f : f = CHOOSE g \in FragmentsAt(runtime[r].committee, d) : TRUE
    OBVIOUS
  <2>2. f.value = given[d] /\ given[d] # None
    BY <1>1, <1>2, <1>5, <2>1, ReadValue DEF ComputeInv
  <2>3. d = m.inputs[m.next] /\ m.inputs \in Seq(DataIds) /\ m.next \in 1..Len(m.inputs)
        /\ Len(m.inputs) \in Nat /\ m.next \in Nat
    BY <1>2, <1>3, <1>5 DEF Current, RuntimeState, WorkOK, LoopSteps
  <2>4. runtime' = [runtime EXCEPT ![r] =
          [m EXCEPT !.sum = @ + f.value,
                    !.next = IF m.next = Len(m.inputs) THEN @ ELSE @ + 1,
                    !.at = IF m.next = Len(m.inputs) THEN "output" ELSE "locate"]]
    BY <1>2, <1>3, <1>6, <2>1 DEF Read, Become
  <2>5. /\ k.inputs = m.inputs /\ k.sum = m.sum + given[d]
        /\ k.next = (IF m.next = Len(m.inputs) THEN m.next ELSE m.next + 1)
        /\ k.at = (IF m.next = Len(m.inputs) THEN "output" ELSE "locate")
    BY <1>1, <1>4, <1>5, <2>2, <2>4 DEF TypeOK, RuntimeState
  <2>6. Done(m) = m.next - 1 /\ Done(k) = m.next /\ k.at \in LoopSteps \cup ResultSteps
        /\ m.at \in LoopSteps
    BY <1>5, <2>3, <2>5 DEF Done, LoopSteps, ResultSteps
  <2>7. \A i \in 1..m.next : given[m.inputs[i]] # None
    <3>1. \A i \in 1..(m.next - 1) : given[m.inputs[i]] # None
      BY <1>5, <2>6 DEF SumOK
    <3>2. \A i \in 1..m.next : i = m.next \/ i \in 1..(m.next - 1)
      BY <2>3
    <3>3. QED
      BY <2>2, <2>3, <3>1, <3>2
  <2>8. Total(Addends(given, m.inputs, m.next)) =
          Total(Addends(given, m.inputs, m.next - 1)) + given[d]
    BY <2>3, <2>7, NextAddend DEF TypeOK
  <2>9. m.sum = Total(Addends(given, m.inputs, m.next - 1))
    BY <1>5, <2>6 DEF SumOK
  <2>10. SumOK(given', k)
    BY <1>1, <2>5, <2>6, <2>7, <2>8, <2>9 DEF SumOK
  <2>11. k.at \in {"output", "locate"}
    BY <2>5
  <2>12. QED
    BY <1>1, <1>4, <2>10, <2>11 DEF ComputeInv, HeldOK, At
<1>7. CASE ~MayReadAt(m.committee, d)
  <2>1. Become(r, [Idle EXCEPT !.at = "failed"])
    BY <1>2, <1>3, <1>7 DEF Read
  <2>2. QED
    BY <1>1, <2>1, BecomeRest
<1>8. QED
  BY <1>6, <1>7

\* The runtime goes on when every node of the committee was free of the id.
LEMMA StoreComputes ==
  ASSUME TypeOK, [Next]_vars, NEW r \in Runtimes, ComputeInv(r), StoreOutput(r)
  PROVE  ComputeInv(r)'
<1>1. computations' = computations /\ ResultsAreSums /\ ResultsAreSums'
  BY ResultsKept DEF StoreOutput, ComputeInv
<1>2. PICK m : m = runtime[r]
  OBVIOUS
<1>3. PICK k : k = runtime'[r]
  OBVIOUS
<1>4. m \in RuntimeState /\ WorkOK(m) /\ m.at = "output" /\ SumOK(given, m)
  BY <1>2 DEF TypeOK, StoreOutput, At, ComputeInv
<1> DEFINE free == {n \in m.committee : \A j \in m.committee : j <= n => ~Holds(j, OutputOf(r))}
<1>5. CASE m.sum <= MaxValue /\ free = m.committee
  <2>1. /\ Put(m.committee, OutputOf(r), Fragment(m.output, 1, m.sum))
        /\ Become(r, [runtime[r] EXCEPT !.at = "publish"])
    BY <1>2, <1>5 DEF StoreOutput
  <2>2. PICK o, f : o = OutputOf(r) /\ f = Fragment(m.output, 1, m.sum)
    OBVIOUS
  <2>3. /\ o \in OutputIds /\ o \in DataIds /\ o[2] = m.sum /\ f \in FragmentType
        /\ f.value = m.sum
    BY <1>2, <1>4, <1>5, <2>2, OutputArguments DEF ResultSteps
  <2>4. m.committee \in SUBSET Nodes /\ m.committee # {}
    BY <1>4 DEF RuntimeState, WorkOK, ResultSteps
  <2>5. PICK nodes \in SUBSET Nodes : nodes = m.committee
    BY <2>4
  <2>6. Put(nodes, o, f)
    BY <2>1, <2>2, <2>5
  <2>7. ASSUME NEW n \in nodes PROVE Holds(n, o)' /\ storage'[<<n, o>>] = f
    <3>1. \A j \in Nodes, x \in DataIds :
            /\ Holds(j, x)' <=> Holds(j, x) \/ (x = o /\ j \in nodes)
            /\ x = o /\ j \in nodes => storage'[<<j, x>>] = f
            /\ Holds(j, x) /\ ~(x = o /\ j \in nodes) => storage'[<<j, x>>] = storage[<<j, x>>]
      BY <2>3, <2>6, PutFacts
    <3>2. QED
      BY <2>3, <3>1
  <2>8. Placed(o, nodes)'
    <3>1. PICK n \in nodes : n \in Nodes
      BY <2>4, <2>5
    <3>2. n \in Holders(o)' /\ storage'[<<n, o>>].value = o[2]
      BY <2>3, <2>7, <3>1 DEF Holders
    <3>3. \A j \in nodes : Holds(j, o)' /\ storage'[<<j, o>>].value = o[2]
      BY <2>3, <2>7
    <3>4. QED
      BY <3>2, <3>3 DEF Placed
  <2>9. /\ k.at = "publish" /\ k.inputs = m.inputs /\ k.sum = m.sum /\ k.next = m.next
        /\ k.committee = m.committee /\ k.execution = m.execution /\ k.output = m.output
    BY <1>2, <1>3, <1>4, <2>1 DEF Become, TypeOK, RuntimeState
  <2>10. Done(k) = Done(m) /\ m.at \in ResultSteps
    BY <1>4, <2>9 DEF Done, ResultSteps
  <2>11. SumOK(given', k)
    BY <1>4, <2>9, <2>10, SumKept, SameSum
  <2>12. OutputOf(r)' = o /\ runtime'[r].committee = nodes
    BY <1>2, <1>3, <2>2, <2>5, <2>9 DEF OutputOf
  <2>13. Placed(OutputOf(r), runtime[r].committee)'
    BY <2>8, <2>12 DEF Placed
  <2>14. QED
    BY <1>1, <1>3, <2>9, <2>11, <2>13 DEF ComputeInv, HeldOK, At
<1>6. CASE ~(m.sum <= MaxValue /\ free = m.committee)
  <2>1. Become(r, [Idle EXCEPT !.at = "failed"])
    BY <1>2, <1>6 DEF StoreOutput
  <2>2. QED
    BY <1>1, <2>1, BecomeRest
<1>7. QED
  BY <1>5, <1>6

LEMMA RecordComputes ==
  ASSUME TypeOK, [Next]_vars, NEW r \in Runtimes, ComputeInv(r), RecordComputation(r)
  PROVE  ComputeInv(r)'
<1>1. UNCHANGED <<storage, given>> /\ ResultsAreSums
  BY DEF RecordComputation, ComputeInv
<1>2. PICK m : m = runtime[r]
  OBVIOUS
<1>3. m \in RuntimeState /\ WorkOK(m) /\ m.at = "publish" /\ SumOK(given, m) /\ At(r, "publish")
  BY <1>2 DEF TypeOK, RecordComputation, At, ComputeInv
<1>4. PICK o : o = OutputOf(r)
  OBVIOUS
<1>5. PICK c : c = [output |-> o, nodes |-> m.committee, inputs |-> m.inputs]
  OBVIOUS
<1>6. computations' = computations \cup {c}
  BY <1>2, <1>4, <1>5 DEF RecordComputation
<1>7. c.output = o /\ c.nodes = m.committee /\ c.inputs = m.inputs /\ o[2] = m.sum
  BY <1>2, <1>4, <1>5 DEF OutputOf
<1>8. m.inputs \in Seq(DataIds) /\ Len(m.inputs) \in Nat /\ DOMAIN m.inputs = 1..Len(m.inputs)
  BY <1>3 DEF RuntimeState
<1>9. Done(m) = Len(m.inputs) /\ m.at \in ResultSteps
  BY <1>3 DEF Done, ResultSteps
<1>10. /\ \A i \in DOMAIN m.inputs : given[m.inputs[i]] # None
       /\ m.sum = Total(Addends(given, m.inputs, Len(m.inputs)))
  BY <1>3, <1>8, <1>9 DEF SumOK
<1>11. Addends(given, m.inputs, Len(m.inputs)) = [i \in DOMAIN m.inputs |-> given[m.inputs[i]]]
  BY <1>8 DEF Addends
<1>12. Placed(o, m.committee)'
  <2>1. m.sum <= MaxValue /\ runtime[r].at \in ResultSteps
    BY <1>2, <1>3 DEF WorkOK, ResultSteps
  <2>2. o \in OutputIds /\ m.committee \in SUBSET Nodes
    BY <1>2, <1>3, <1>4, <2>1, OutputArguments DEF RuntimeState
  <2>3. Placed(o, m.committee)
    BY <1>2, <1>3, <1>4 DEF ComputeInv
  <2>4. PICK nodes \in SUBSET Nodes : nodes = m.committee
    BY <2>2
  <2>5. Placed(o, nodes)'
    BY <2>2, <2>3, <2>4, PlacedStays
  <2>6. QED
    BY <2>4, <2>5
<1>13. /\ \A i \in DOMAIN c.inputs : given'[c.inputs[i]] # None
       /\ c.output[2] = Total([i \in DOMAIN c.inputs |-> given'[c.inputs[i]]])
       /\ Placed(c.output, c.nodes)'
  BY <1>1, <1>7, <1>10, <1>11, <1>12
<1>14. ResultsAreSums'
  <2>1. ASSUME NEW e \in computations'
        PROVE  /\ \A i \in DOMAIN e.inputs : given'[e.inputs[i]] # None
               /\ e.output[2] = Total([i \in DOMAIN e.inputs |-> given'[e.inputs[i]]])
               /\ Placed(e.output, e.nodes)'
    <3>1. CASE e = c
      BY <1>13, <3>1
    <3>2. CASE e \in computations
      BY <1>1, <3>2, ResultsStay
    <3>3. QED
      BY <1>6, <3>1, <3>2
  <2>2. QED
    BY <2>1 DEF ResultsAreSums, Placed
<1>15. runtime'[r].at \in {"idle", "failed"}
  BY DEF RecordComputation, Become, TypeOK, Idle
<1>16. QED
  BY <1>14, <1>15, ComputeRest

LEMMA ComputeStep ==
  ASSUME NEW r, Runtimes = {r}, TypeOK, TypeOK', StoredInv, StoredInv', ComputeInv(r), [Next]_vars
  PROVE  ComputeInv(r)'
<1>1. ASSUME NEW d, NEW rep, NEW version, NEW v, NEW nodes, Upload(d, rep, version, v, nodes)
      PROVE  ComputeInv(r)'
  BY <1>1, ComputeFrame DEF Upload
<1>2. ASSUME NEW event, PushEvent(event) PROVE ComputeInv(r)'
  BY <1>2, ComputeFrame DEF PushEvent
<1>3. CASE UNCHANGED vars
  BY <1>3, ComputeFrame DEF vars
<1>4. ASSUME Resume(r) PROVE ComputeInv(r)'
  BY <1>4, BecomeRest DEF Resume, ComputeInv
<1>5. ASSUME Poll(r) PROVE ComputeInv(r)'
  BY <1>5, PollComputes DEF ComputeInv
<1>6. QED
  BY <1>1, <1>2, <1>3, <1>4, <1>5, LocateComputes, HandoffComputes, RecordHandoffComputes,
     ReadComputes, StoreComputes, RecordComputes
     DEF Next, UploadSecretShares, UploadFheCiphertext

LEMMA ComputeInit ==
  ASSUME NEW r, Runtimes = {r}, Init
  PROVE  ComputeInv(r)
BY DEF Init, Idle, ComputeInv, SumOK, HeldOK, At, ResultsAreSums, LoopSteps, ResultSteps

LEMMA ComputeAlways ==
  ASSUME NEW r, Runtimes = {r}
  PROVE  Spec => [](TypeOK /\ StoredInv /\ ComputeInv(r))
<1>1. Init => ComputeInv(r)
  BY ComputeInit
<1>2. TypeOK /\ StoredInv /\ TypeOK' /\ StoredInv' /\ ComputeInv(r) /\ [Next]_vars => ComputeInv(r)'
  BY ComputeStep
<1>3. QED
  BY <1>1, <1>2, StoredAlways, PTL DEF Spec

(* What the one runtime records is the sum of the values its inputs were    *)
(* first stored with, and is at its committee until it is moved as an input *)
(* itself, and never lost, whatever clients upload, under whatever id,      *)
(* between the hand-off, the read and the storing of the result.            *)
THEOREM ResultsAreAlwaysSums ==
  ASSUME NEW r, Runtimes = {r}
  PROVE  Spec => []ResultsAreSums
<1>1. ComputeInv(r) => ResultsAreSums
  BY DEF ComputeInv
<1>2. QED
  BY <1>1, ComputeAlways, PTL

-----------------------------------------------------------------------------
(* The hand-offs recorded *)

\* What a recorded hand-off says is so.
IsSo(h) == \A n \in h.new : Holds(n, h.d) /\ storage[<<n, h.d>>].version = h.version

Followed(r) ==
  \A i \in DOMAIN handoffs :
    \/ \E j \in (i + 1)..Len(handoffs) : handoffs[j].d = handoffs[i].d
    \/ At(r, "record") /\ Current(r) = handoffs[i].d
    \/ IsSo(handoffs[i])

LEMMA StaysSo ==
  ASSUME TypeOK, [Next]_vars, NEW h \in Handover, IsSo(h),
         \/ UNCHANGED storage
         \/ \A r \in Runtimes : Handoff(r) => Current(r) # h.d
  PROVE  IsSo(h)'
<1>1. CASE UNCHANGED storage
  BY <1>1 DEF IsSo, Holds
<1>2. ASSUME \A r \in Runtimes : Handoff(r) => Current(r) # h.d, NEW n \in h.new
      PROVE  Holds(n, h.d)' /\ storage'[<<n, h.d>>].version = h.version
  <2>1. PICK x : x = h.d
    OBVIOUS
  <2>2. n \in Nodes /\ x \in DataIds /\ Holds(n, x) /\ storage[<<n, x>>].version = h.version
    BY <2>1 DEF Handover, DataIds, IsSo
  <2>3. Holds(n, x)' /\ storage'[<<n, x>>] = storage[<<n, x>>]
    BY <1>2, <2>1, <2>2, FragmentStays
  <2>4. QED
    BY <2>1, <2>2, <2>3
<1>3. QED
  BY <1>1, <1>2 DEF IsSo

LEMMA HandoffsStep ==
  ASSUME NEW r, Runtimes = {r}, TypeOK, StoredInv, ComputeInv(r), Followed(r), [Next]_vars
  PROVE  Followed(r)'
<1>1. /\ handoffs \in Seq(Handover) /\ Len(handoffs) \in Nat
      /\ \A i \in DOMAIN handoffs : handoffs[i] \in Handover
  BY DEF TypeOK
<1>2. SUFFICES ASSUME NEW i \in DOMAIN handoffs', NEW g, g = handoffs'[i]
               PROVE  \/ \E j \in (i + 1)..Len(handoffs') : handoffs'[j].d = g.d
                      \/ At(r, "record")' /\ Current(r)' = g.d
                      \/ IsSo(g)'
  BY DEF Followed, IsSo
<1>3. i \in DOMAIN handoffs =>
        \/ \E j \in (i + 1)..Len(handoffs) : handoffs[j].d = handoffs[i].d
        \/ At(r, "record") /\ Current(r) = handoffs[i].d
        \/ IsSo(handoffs[i])
  BY DEF Followed
<1>4. CASE RecordHandoff(r)
  <2>1. PICK h : h = [d |-> Current(r), old |-> runtime[r].old, new |-> runtime[r].committee,
                      version |-> runtime[r].version]
    OBVIOUS
  <2>2. handoffs' = Append(handoffs, h) /\ storage' = storage /\ At(r, "record")
    BY <1>4, <2>1 DEF RecordHandoff
  <2>3. /\ Len(handoffs') = Len(handoffs) + 1 /\ handoffs'[Len(handoffs) + 1] = h
        /\ DOMAIN handoffs = 1..Len(handoffs) /\ DOMAIN handoffs' = 1..(Len(handoffs) + 1)
        /\ \A j \in 1..Len(handoffs) : handoffs'[j] = handoffs[j]
    BY <1>1, <2>2
  <2>4. CASE i = Len(handoffs) + 1
    <3>1. g = h
      BY <1>2, <2>3, <2>4
    <3>2. h.d = Current(r) /\ h.new = runtime[r].committee /\ h.version = runtime[r].version
      BY <2>1
    <3>3. IsSo(h)
      BY <2>2, <3>2 DEF ComputeInv, HeldOK, IsSo
    <3>4. QED
      BY <2>2, <3>1, <3>3 DEF IsSo, Holds
  <2>5. CASE i \in 1..Len(handoffs)
    <3>1. CASE \E j \in (i + 1)..Len(handoffs) : handoffs[j].d = handoffs[i].d
      <4>1. PICK j \in (i + 1)..Len(handoffs) : handoffs[j].d = handoffs[i].d
        BY <3>1
      <4>2. j \in 1..Len(handoffs) /\ j \in (i + 1)..(Len(handoffs) + 1)
        BY <1>1, <2>5
      <4>3. QED
        BY <1>2, <2>3, <2>5, <4>1, <4>2
    <3>2. CASE Current(r) = handoffs[i].d
      <4>1. Len(handoffs) + 1 \in (i + 1)..(Len(handoffs) + 1)
        BY <1>1, <2>5
      <4>2. handoffs'[Len(handoffs) + 1].d = g.d
        BY <1>2, <2>1, <2>3, <2>5, <3>2
      <4>3. QED
        BY <2>3, <4>1, <4>2
    <3>3. CASE IsSo(handoffs[i])
      <4>1. IsSo(g)
        BY <1>2, <2>3, <2>5, <3>3
      <4>2. QED
        BY <2>2, <4>1 DEF IsSo, Holds
    <3>4. QED
      BY <1>3, <2>3, <2>5, <3>1, <3>2, <3>3
  <2>6. QED
    BY <1>1, <2>3, <2>4, <2>5
<1>5. CASE ~RecordHandoff(r)
  <2>1. handoffs' = handoffs /\ (At(r, "record") => runtime' = runtime)
    BY <1>5 DEF Next, vars, UploadSecretShares, UploadFheCiphertext, Upload, PushEvent, Poll, Resume,
       Locate, Handoff, Read, StoreOutput, RecordComputation, At
  <2>2. g \in Handover /\ g = handoffs[i]
    BY <1>1, <1>2, <2>1
  <2>3. CASE \E j \in (i + 1)..Len(handoffs) : handoffs[j].d = handoffs[i].d
    BY <2>1, <2>2, <2>3
  <2>4. CASE At(r, "record") /\ Current(r) = handoffs[i].d
    BY <2>1, <2>2, <2>4 DEF At, Current
  <2>5. CASE IsSo(g)
    <3>1. CASE Handoff(r) /\ Current(r) = g.d /\ MayHandOff(Current(r), runtime[r].committee)
      <4>1. PICK version : runtime'[r] = [runtime[r] EXCEPT !.at = "record", !.version = version]
        BY <3>1, HandoffMoves
      <4>2. runtime[r] \in RuntimeState
        BY DEF TypeOK
      <4>3. At(r, "record")' /\ Current(r)' = Current(r)
        BY <4>1, <4>2 DEF At, Current, RuntimeState
      <4>4. QED
        BY <3>1, <4>3
    <3>2. CASE ~(Handoff(r) /\ Current(r) = g.d /\ MayHandOff(Current(r), runtime[r].committee))
      <4>1. UNCHANGED storage \/ (Handoff(r) => Current(r) # g.d)
        BY <3>2 DEF Handoff
      <4>2. IsSo(g)'
        BY <2>2, <2>5, <4>1, StaysSo
      <4>3. QED
        BY <4>2
    <3>3. QED
      BY <3>1, <3>2
  <2>6. QED
    BY <1>3, <2>1, <2>2, <2>3, <2>4, <2>5
<1>6. QED
  BY <1>4, <1>5

(* What the chain records last for an id is where the storage has it, but   *)
(* for the time between a hand-off and its record: nothing else moves a     *)
(* fragment of one runtime's network.                                       *)
THEOREM RecordedHandoffsStayCurrent ==
  ASSUME NEW r, Runtimes = {r}
  PROVE  Spec => []RecordedHandoffsAreCurrent
<1>1. Init => Followed(r)
  BY DEF Init, Followed
<1>2. TypeOK /\ StoredInv /\ ComputeInv(r) /\ Followed(r) /\ [Next]_vars => Followed(r)'
  BY HandoffsStep
<1>3. Followed(r) => RecordedHandoffsAreCurrent
  BY DEF Followed, IsSo, RecordedHandoffsAreCurrent
<1>4. QED
  BY <1>1, <1>2, <1>3, ComputeAlways, PTL DEF Spec
=============================================================================
