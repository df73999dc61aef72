---------------------------- MODULE DataWorkflow ----------------------------
(***************************************************************************)
(* The storage network and the runtime of crates/runtime/src/workflow.rs.  *)
(* Clients upload fragments and push events; a runtime takes one event     *)
(* after the other, draws a committee, moves the inputs to it, computes    *)
(* and stores the result.  The storage and the queue are locked for one    *)
(* call at a time, not for an event: uploads come in between.              *)
(***************************************************************************)
EXTENDS Integers, FiniteSets, Sequences, Totals

CONSTANTS
  Nodes,                \* the ids of the nodes
  ClientIds,            \* the ids that clients upload under: any, those of results too
  Executions,
  Values, MaxValue,     \* uploaded values; u128::MAX
  UploadVersions,       \* the versions that clients upload
  UploadLists,          \* the lists of nodes that clients upload to
  InputLists,           \* the lists of inputs of computations
  EligibleSets, Sizes, Seeds,
  Digest,               \* seed -> node -> the digest of the two
  Runtimes,
  None,
  MaxUploads, MaxEvents, MaxVersion   \* bounds; MaxVersion is that of u64

Representations == {"SecretSharing", "Homomorphic"}

\* The id of a result is a digest of the execution, the value and the representation,
\* which everybody can compute.
OutputIds == Executions \X (0..MaxValue) \X Representations
DataIds == ClientIds \cup OutputIds

ASSUME WorkflowAssumption ==
  /\ Nodes \subseteq Nat /\ IsFiniteSet(Nodes)
  /\ MaxValue \in Nat /\ Values \subseteq 0..MaxValue /\ None \notin 0..MaxValue
  /\ MaxVersion \in Nat /\ UploadVersions \subseteq 0..MaxVersion
  /\ UploadLists \subseteq Seq(Nodes) /\ InputLists \subseteq Seq(DataIds)
  /\ EligibleSets \subseteq SUBSET Nodes /\ Sizes \subseteq Nat
  /\ \A s \in Seeds, m, n \in Nodes :
       Digest[s][n] \in Nat /\ (Digest[s][m] = Digest[s][n] => m = n)

VARIABLES
  storage,       \* <<node, data id>> -> fragment, where there is one
  given,         \* data id -> the value it was first stored with
  events,        \* the queue of the chain
  handoffs,      \* recorded by the chain
  computations,  \* recorded by the chain
  runtime,       \* what each runtime is doing
  uploads, pushed   \* how many there were

vars == <<storage, given, events, handoffs, computations, runtime, uploads, pushed>>
clientVars == <<uploads, pushed>>

Idle == [at |-> "idle", execution |-> None, inputs |-> <<>>, next |-> 1, committee |-> {},
         old |-> {}, version |-> 0, sum |-> 0, output |-> None]

Init ==
  /\ storage = <<>>
  /\ given = [d \in DataIds |-> None]
  /\ events = <<>> /\ handoffs = <<>> /\ computations = {}
  /\ runtime = [r \in Runtimes |-> Idle]
  /\ uploads = 0 /\ pushed = 0

-----------------------------------------------------------------------------
(* InMemoryStorageNetwork *)

Fragment(representation, version, value) ==
  [representation |-> representation, version |-> version, value |-> value]

Holds(node, d) == <<node, d>> \in DOMAIN storage
Holders(d) == {n \in Nodes : Holds(n, d)}

\* Slip: an existing fragment is replaced.
InsertableOverOthers(nodes, d) == DOMAIN nodes

\* One node after the other, until one that has the id already: what was
\* inserted stays.
Insertable(nodes, d) ==
  {i \in DOMAIN nodes : \A j \in 1..i :
     ~Holds(nodes[j], d) /\ \A k \in 1..(j - 1) : nodes[k] # nodes[j]}

Put(nodes, d, fragment) ==
  /\ storage' = [p \in DOMAIN storage \cup (nodes \X {d}) |->
                   IF p \in nodes \X {d} THEN fragment ELSE storage[p]]
  /\ given' = IF given[d] = None /\ nodes # {} THEN [given EXCEPT ![d] = fragment.value] ELSE given

MayUpload(nodes, version) == nodes # <<>> /\ version > 0

Upload(d, representation, version, value, nodes) ==
  /\ uploads < MaxUploads /\ uploads' = uploads + 1
  /\ MayUpload(nodes, version)
  /\ Put({nodes[i] : i \in Insertable(nodes, d)}, d, Fragment(representation, version, value))
  /\ UNCHANGED <<events, handoffs, computations, runtime, pushed>>

UploadSecretShares(d, version, value, nodes) ==
  Upload(d, "SecretSharing", version, value, nodes)

UploadFheCiphertext(d, version, value, nodes) ==
  Upload(d, "Homomorphic", version, value, nodes)

\* Slip: the value is read from the first fragment only.
DecodesFirst(fragments) == TRUE

\* decode: every payload has the value of the first.
Decodes(fragments) == \A f, g \in fragments : f.value = g.value

FragmentsAt(nodes, d) == {storage[<<n, d>>] : n \in nodes}

MayHandOff(d, committee) ==
  LET sources == FragmentsAt(Holders(d), d) IN
  /\ committee # {} /\ sources # {}
  /\ \A f, g \in sources : f.representation = g.representation /\ f.version = g.version
  /\ Decodes(sources)
  /\ \A f \in sources : f.version < MaxVersion

\* Slip: the fragments keep the version they had.
HandedOffUnversioned(fragment) == fragment
HandedOff(fragment) == [fragment EXCEPT !.version = @ + 1]

\* The targets get the fragment, every other node loses it.
MovedTo(committee, d, fragment) ==
  [p \in (DOMAIN storage \ (Nodes \X {d})) \cup (committee \X {d}) |->
     IF p[2] = d THEN fragment ELSE storage[p]]

MayReadAt(committee, d) ==
  /\ \A n \in committee : Holds(n, d)
  /\ \A m, n \in committee : storage[<<m, d>>].representation = storage[<<n, d>>].representation
  /\ Decodes(FragmentsAt(committee, d))

-----------------------------------------------------------------------------
(* InMemoryChain *)

Published(d, representation, nodes, version) ==
  [kind |-> "published", d |-> d, representation |-> representation, nodes |-> nodes,
   version |-> version]

Requested(e, inputs, eligible, size, seed, representation) ==
  [kind |-> "compute", execution |-> e, inputs |-> inputs, eligible |-> eligible,
   size |-> size, seed |-> seed, representation |-> representation]

Announcements ==
  {Published(d, representation, nodes, 1) :
     d \in ClientIds, representation \in Representations, nodes \in UploadLists}
ComputationRequests ==
  {Requested(e, inputs, eligible, size, seed, representation) :
     e \in Executions, inputs \in InputLists, eligible \in EligibleSets, size \in Sizes,
     seed \in Seeds, representation \in Representations}

PushEvent(event) ==
  /\ pushed < MaxEvents /\ pushed' = pushed + 1
  /\ events' = Append(events, event)
  /\ UNCHANGED <<storage, given, handoffs, computations, runtime, uploads>>

-----------------------------------------------------------------------------
(* DeterministicDevSortition *)

MaySelect(eligible, size) == size # 0 /\ Cardinality(eligible) >= size

Select(seed, eligible, size) ==
  {n \in eligible :
     Cardinality({m \in eligible : Digest[seed][m] < Digest[seed][n]}) < size}

-----------------------------------------------------------------------------
(* WorkflowRuntime::poll_once: an error ends the event, which is gone from   *)
(* the queue, with what it has done so far.                                  *)

At(r, step) == runtime[r].at = step
Become(r, state) == runtime' = [runtime EXCEPT ![r] = state]
Current(r) == runtime[r].inputs[runtime[r].next]

\* An announcement is compared with the storage and changes nothing.  The storage
\* lists the nodes in the order of their ids.
Announced(event) ==
  /\ {event.nodes[i] : i \in DOMAIN event.nodes} = Holders(event.d)
  /\ \A i, j \in DOMAIN event.nodes : i < j => event.nodes[i] < event.nodes[j]
  /\ event.version # 0 /\ event.nodes # <<>>
  /\ \A n \in Holders(event.d) : storage[<<n, event.d>>].representation = event.representation

Poll(r) ==
  LET event == Head(events) IN
  /\ At(r, "idle") /\ events # <<>>
  /\ events' = Tail(events)
  /\ Become(r,
       IF event.kind = "published"
       THEN [Idle EXCEPT !.at = IF Announced(event) THEN "idle" ELSE "failed"]
       ELSE IF event.inputs # <<>> /\ MaySelect(event.eligible, event.size)
            THEN [Idle EXCEPT !.at = "locate", !.execution = event.execution,
                              !.inputs = event.inputs, !.output = event.representation,
                              !.committee = Select(event.seed, event.eligible, event.size)]
            ELSE [Idle EXCEPT !.at = "failed"])
  /\ UNCHANGED <<storage, given, handoffs, computations, clientVars>>

\* run_until_idle returns the error; its caller runs it again.
Resume(r) ==
  /\ At(r, "failed")
  /\ Become(r, Idle)
  /\ UNCHANGED <<storage, given, events, handoffs, computations, clientVars>>

Locate(r) ==
  /\ At(r, "locate")
  /\ Become(r, [runtime[r] EXCEPT !.at = "handoff", !.old = Holders(Current(r))])
  /\ UNCHANGED <<storage, given, events, handoffs, computations, clientVars>>

Handoff(r) ==
  LET d == Current(r) IN
  /\ At(r, "handoff")
  /\ IF MayHandOff(d, runtime[r].committee)
     THEN LET source == CHOOSE f \in FragmentsAt(Holders(d), d) : TRUE
              moved == HandedOff(source)
          IN /\ storage' = MovedTo(runtime[r].committee, d, moved)
             /\ Become(r, [runtime[r] EXCEPT !.at = "record", !.version = source.version + 1])
     ELSE Become(r, [Idle EXCEPT !.at = "failed"]) /\ UNCHANGED storage
  /\ UNCHANGED <<given, events, handoffs, computations, clientVars>>

RecordHandoff(r) ==
  /\ At(r, "record")
  /\ handoffs' = Append(handoffs,
       [d |-> Current(r), old |-> runtime[r].old, new |-> runtime[r].committee,
        version |-> runtime[r].version])
  /\ Become(r, [runtime[r] EXCEPT !.at = "read"])
  /\ UNCHANGED <<storage, given, events, computations, clientVars>>

\* Values are added at the end; the sum may not pass u128.
Read(r) ==
  LET d == Current(r)
      committee == runtime[r].committee
      last == runtime[r].next = Len(runtime[r].inputs)
  IN
  /\ At(r, "read")
  /\ Become(r,
       IF MayReadAt(committee, d)
       THEN [runtime[r] EXCEPT !.sum = @ + (CHOOSE f \in FragmentsAt(committee, d) : TRUE).value,
                               !.next = IF last THEN @ ELSE @ + 1,
                               !.at = IF last THEN "output" ELSE "locate"]
       ELSE [Idle EXCEPT !.at = "failed"])
  /\ UNCHANGED <<storage, given, events, handoffs, computations, clientVars>>

OutputOf(r) == <<runtime[r].execution, runtime[r].sum, runtime[r].output>>

\* The committee is sorted: the nodes before the first that has the id.
StoreOutput(r) ==
  LET committee == runtime[r].committee
      free == {n \in committee : \A m \in committee : m <= n => ~Holds(m, OutputOf(r))}
  IN
  /\ At(r, "output")
  /\ IF runtime[r].sum <= MaxValue
     THEN /\ Put(free, OutputOf(r), Fragment(runtime[r].output, 1, runtime[r].sum))
          /\ Become(r, IF free = committee THEN [runtime[r] EXCEPT !.at = "publish"]
                       ELSE [Idle EXCEPT !.at = "failed"])
     ELSE Become(r, [Idle EXCEPT !.at = "failed"]) /\ UNCHANGED <<storage, given>>
  /\ UNCHANGED <<events, handoffs, computations, clientVars>>

RecordComputation(r) ==
  /\ At(r, "publish")
  /\ computations' = computations \cup
       {[output |-> OutputOf(r), nodes |-> runtime[r].committee, inputs |-> runtime[r].inputs]}
  /\ Become(r, Idle)
  /\ UNCHANGED <<storage, given, events, handoffs, clientVars>>

Next ==
  \/ \E d \in ClientIds, version \in UploadVersions, v \in Values, nodes \in UploadLists :
       UploadSecretShares(d, version, v, nodes) \/ UploadFheCiphertext(d, version, v, nodes)
  \/ \E event \in Announcements \cup ComputationRequests : PushEvent(event)
  \/ \E r \in Runtimes :
       \/ Poll(r) \/ Resume(r) \/ Locate(r) \/ Handoff(r) \/ RecordHandoff(r)
       \/ Read(r) \/ StoreOutput(r) \/ RecordComputation(r)

Spec == Init /\ [][Next]_vars

-----------------------------------------------------------------------------
(* Whatever fails in the middle of an event, and whatever another client    *)
(* uploads under the same id, the value an id was first stored with is      *)
(* still at some node: a failed computation loses no input it has moved.    *)
NothingIsLost ==
  \A d \in DataIds : given[d] # None =>
    \E n \in Holders(d) : storage[<<n, d>>].value = given[d]

\* The id has been moved as an input, or is being moved.
HandedOver(d) ==
  \/ \E i \in DOMAIN handoffs : handoffs[i].d = d
  \/ \E r \in Runtimes : At(r, "record") /\ Current(r) = d

(* A recorded result is the sum of the values its inputs were first stored  *)
(* with, counted as often as they are named; its value stays at some node,  *)
(* and at the committee recorded with it until it is moved as an input of   *)
(* another computation.  An upload under the id of an input or of the       *)
(* result can block a computation or a later hand-off; it never changes     *)
(* what is recorded and never drives the result out.                        *)
ResultsAreSums ==
  \A c \in computations :
    /\ \A i \in DOMAIN c.inputs : given[c.inputs[i]] # None
    /\ c.output[2] = Total([i \in DOMAIN c.inputs |-> given[c.inputs[i]]])
    /\ \E n \in Holders(c.output) : storage[<<n, c.output>>].value = c.output[2]
    /\ \/ HandedOver(c.output)
       \/ \A n \in c.nodes :
            Holds(n, c.output) /\ storage[<<n, c.output>>].value = c.output[2]

(* The last hand-off recorded for an id names nodes that hold it at the     *)
(* version recorded, unless the runtime has moved it again and not recorded *)
(* it yet: readers that follow the chain find the data.                     *)
RecordedHandoffsAreCurrent ==
  \A i \in DOMAIN handoffs :
    LET d == handoffs[i].d IN
    \/ \E j \in (i + 1)..Len(handoffs) : handoffs[j].d = d
    \/ \E r \in Runtimes : At(r, "record") /\ Current(r) = d
    \/ \A n \in handoffs[i].new :
         Holds(n, d) /\ storage[<<n, d>>].version = handoffs[i].version
=============================================================================
