# Verification of ppsc, a confidential smart-contract runtime

ppsc lets a public chain order and settle computations on data that only
committees of nodes can read.  Solidity contracts hold the public side: who owns
which encrypted reference, which committee is in charge of which execution,
which state root a confidential contract is at, which tokens are locked.  Rust
daemons hold the private side: they follow the queue of executions, compute on
ciphertexts and shares, and submit signed results.

This directory models both sides and the programs between them: storage changed
by interleaved transactions, daemons that crash between two steps, committees
that change under a running execution, a ledger and a contract that commit one
after the other, contracts compiled to operation graphs, and the protocols that
compute on shares.

## 1. Inventory

| Part | Source | State | Operations | Hard because |
|---|---|---|---|---|
| Control plane | `contracts/src/PpscControlPlane.sol` | contracts and their state root, functions, data references and their node lists, committees, executions and their queue, variable bindings, pick requests | publish, register, finalize a committee, invoke, assign, run, hand off, submit a result, update bindings, pick | every transaction interleaves with every other; roots are compared long after they were read; deadlines pass in between |
| Sortition verifiers | `EcdsaSortitionVerifier.sol`, `LocalAcceptAllSortitionVerifier.sol` | authority | accept a selection | the verifier may be replaced between two selections |
| Token custody | `contracts/src/ConfidentialTokenSwap.sol` | liabilities, reserve, fees, gas escrow, four kinds of request, nullifiers, account controllers, committee in charge | deposit, settle, withdraw, transfer, open, cancel, claim, collect, hand off, pause | the same funds are claimed by settlement, refund, voucher and fee, in any order |
| Swap worker and ledger | `bin/confidential_swap_worker.rs`, `postgres.rs`, `runtime/src/lib.rs` | balances, root, markers, cursors; databases of the next nodes | credit, debit, transfer, open, hand off | the ledger commits before the chain settles |
| Manifest daemon | `runtime/src/manifest_daemon.rs`, `manifest.rs`, `bin/manifest_committee_daemon.rs` | per node: cursor, ledger cells, processed tasks, result outbox, upload outbox | poll, evaluate, commit, submit, declare, update, open, upload | the database and the chain commit separately; a crash or an error falls between any two calls |
| Input upload | `manifest_upload.rs` | upload rows | accept, register, locate | two transactions per input, retried |
| Compiler and executor | `crates/compiler`, `runtime/src/manifest.rs`, `examples/contracts/ConfidentialToken.ppsc` | manifest; cells | compile, evaluate, commit | a graph with deferred writes stands for statements in order; inputs come from anybody |
| Private balances | `examples/PrivateBalanceApp.sol`, `bin/private_balance_worker.rs`, `private_transfer.rs` | ciphertext slots and bindings in a database, bindings on the chain | bootstrap, transfer, query | five commits in three places for one transfer |
| Storage workflow | `workflow.rs` | fragments at nodes, event queue, recorded hand-offs and results | upload, poll, hand off, compute | the storage is locked call by call; an event in progress is no longer in the queue |
| Hand-off protocol and network | `crates/protocol`, `crates/node`, `crates/network` | session phase, mailboxes | mask, collect, reconstruct, broadcast, apply | a session owns the shares until it ends |
| Share arithmetic | `crypto/src/mpc/*` | none | Shamir, packed and replicated sharing, hand-off, bits, comparison, authentication, conversion | degrees, borrows, and the ends of the field |
| Crypto backend process | `manifest_crypto_process.rs` | child process | one operator per request over pipes | not modelled |
| FHE | `crates/fhe` | none | lattice arithmetic, C++ bindings | numeric, out of reach of a model checker |
| Front end, scripts, benchmarks | `front-blockchains-new`, `scripts` | none | | not modelled |

How the parts interact.  Users call a gateway, the gateway calls `invoke*` of the
control plane, which appends to a queue.  Each node's daemon walks that queue,
drives an execution through assignment into `Running`, evaluates the operation
graph of the called function on its own database, and submits the result, the
variable bindings and the opening as separate transactions.  The custody contract
reads committees from the control plane and is otherwise independent of it; its
worker follows its four lists of tasks, keeps the balance ledger and signs the
settlements.  The private balance application is a second client of the control
plane with a worker of its own.  The storage workflow is a self-contained
simulation of the same idea: storage nodes, a queue, committees that take inputs
over.  Under all of them is the arithmetic on shares.

What makes each part correct is in `PROJECT.json` under `hazards`, at the line
where it would go wrong, with the properties that watch it.

## 2. Modules

| Module | Models | Extends or instantiates |
|---|---|---|
| `StateLineage` | the promise: the writes of a contract form one chain | |
| `ControlPlane` | every state-changing function of `PpscControlPlane.sol` | instantiates `StateLineage` |
| `Totals` | sums of functions and the lemmas about them; the least number of a set | |
| `TokenSwap` | every state-changing function of `ConfidentialTokenSwap.sol` | `Totals` |
| `BalanceLedger` | the off-chain ledger of one asset: what is accepted and what it leaves | |
| `SwapWorker` | the listener, the single commands and the hand-off command of the swap worker | `TokenSwap`, instantiates `BalanceLedger` |
| `ManifestDaemon` | the daemons of one compiled contract, with their databases | `ControlPlane` |
| `PrivateBalance` | the balance application and its worker | `ControlPlane` |
| `DataWorkflow` | storage network, in-memory chain and runtime of `workflow.rs` | `Totals` |
| `ContractLanguage` | syntax of the contract language and the meaning of a call, read off its text | |
| `CompiledContract` | the compiler, and the executor with the plaintext backend | `ContractLanguage` |
| `ConfidentialToken` | the token of the examples as a source text, and its supply | `CompiledContract` |
| `ShareFields` | the prime field and the byte field of `field.rs` | |
| `SecretSharing` | `shamir.rs`, `prss.rs`, `handoff.rs`, `packed.rs` over any field | |
| `SecureGadgets` | `s2b.rs`, `comparison.rs`, `auth.rs`, `conversion.rs` | `ShareFields`, two instances of `SecretSharing` |
| `SecureMachine` | computations of any order over shared values, sessions, a member that changes a share | `SecureGadgets` |
| `ShareAlgebra` | one question after the other to the algorithms | `SecureGadgets` |
| `MC*` | small instances for TLC | the module each is named after |
| `TokenSwapProofs`, `StateLineageProofs`, `DataWorkflowProofs` | theorems | the module each is named after |
| `ControlPlaneProofs` | theorems, among them that `ControlPlane` implements `StateLineage` | `ControlPlane`, instantiates `StateLineageProofs` |
| `SwapWorkerProofs` | theorems about the contract with its workers | `SwapWorker`, `TokenSwapProofs` |
| `ManifestDaemonProofs` | theorems about the chain with any number of daemons, and with one | `ManifestDaemon`, `ControlPlaneProofs`, `Totals` |
| `PrivateBalanceProofs` | theorems about the chain with the balance application | `PrivateBalance`, `ControlPlaneProofs`, `Totals` |

**Control plane.**  `StateLineage` is the abstract specification.  It knows only
contracts, heads, requests and writes: a write is accepted if its base is the head,
and becomes the head.  `ControlPlane` implements it (`ImplementsLineage`): the head
is `contracts[c].stateRoot`, the base of an execution is its `oldStateRoot`, and a
completed execution with a derived root is a write.  There is one action per
external function; record fields and variables keep the names of the structs and
mappings.

**Custody.**  `TokenSwap` has one action per external function; the four kinds of
request share the record `Task`, as they share the shape of their hash, status and
gas in the source, and the finalize and cancel functions of each kind are separate
actions.  The nullifier of a settled withdrawal is an argument of its own, as it is a
field of the signed settlement, so a request may come with the nullifier of a voucher or of
another request.  The mapping `spentNullifiers` keeps what spent a nullifier, where the
source keeps a boolean; no guard reads more than that it is there.

**Swap worker.**  `SwapWorker` steps through a task as the program does: read the
root of the chain, one transaction on the ledger that requires this root, read the
digest, sign, send.  Settlements are the actions of `TokenSwap`.  A root of the ledger is the
sequence of the records written, which is what an injective commitment tells apart.
`watch` is the listener, the other workers are single commands of an operator.
`Crash` also stands for a failed call; `LostReply` is a settlement that is mined
without its sender being told.

**Manifest daemon.**  `ManifestDaemon` extends `ControlPlane` so that a daemon's
transactions are the actions of the contract and not copies of them.  `phase` is the place in the main
loop, `memory` the local variables that live across transactions, `processed`,
`cells`, `outbox`, `acceptedUploads` and `pendingUploads` the tables of its
database.  The cursor is the length of `processed`, because one database
transaction writes both.  A cell holds the execution that wrote it, and a result
the cells it was computed from (its *basis*), which is all that the properties
tell apart; what a call reads, writes and opens, and whether its requires hold,
is the constant `Call`.  A transaction is mined and answered (`confirmed`), mined
with its answer lost (`lost`), or not mined (`ReturnError`, which also stands for
a failed read of the chain or the database).  `Crash` may come at every step.  The
Other accounts call the contract too: they invoke, move the runtime address, hand off,
and register data themselves (`RegisterOutside`), under the id of an upload, a key or a
result if they like, with or without its locations.  The
computation is one step with the read of the committee: a change of the chain
between that read and the commit of the database could as well have come after the
commit, which touches the database only.

**Compiled contracts.**  What an evaluation does inside is `CompiledContract`: a
source text is a syntax tree, the compiler lowers it to a sequence of operators and
deferred writes or refuses it, and the executor runs the operators in order.
`ContractLanguage!Effect` gives a call its meaning from the text alone, once with
the state before the call read everywhere and once with the statements in order.

**Private balances.**  `PrivateBalance` has the variables of the database beside
those of the control plane; a process does one command, a transaction or a
statement at a time, and ends at the first error.  The two rows that a bootstrap
inserts for each variable are two statements, with a crash possible between them.

**Workflow.**  `DataWorkflow` has one action per lock that `poll_once` takes and
one per upload and event; an error ends the event, which has left the queue.
`ClientIds` are the ids clients upload under; the id of a result is a public digest and
may be one of them, and an input of a computation may be a result.  Ids of
nodes are numbers: the storage lists the holders of an id in the order of the ids,
a result is inserted in that order at its committee, and the lottery orders the
digests of seed and node.

**Shares.**  A sharing is the sequence of the values of a polynomial at the points
of a committee; the numbers an operation draws are its arguments, the operation is
defined where the code returns no error, and the conditions of that are operators
named `May...`.  `SecretSharing` is written over an abstract field and used over
both.  `SecureMachine` keeps beside each sharing the value it should have.  Its
operations run between committees of three and four members.  `Tamper` lets any member
add to its share of a value, of its tag, or of both (`Changes`), at any time; beside the
value the machine notes whether one change that the key does not fit has reached
it ("plain"), or several, or one that fits ("joint").  The noise of a ciphertext is on
either side of zero (`Noises`), and `Decoded` is what the flooring of `decode_mask`
makes of it.  `ShareAlgebra` asks the algorithms below the machine about
whole ranges of inputs; `MCSecureMachine` composes the two, so that a behaviour is
either a computation or a question.

### Conventions

A transaction is one action and is atomic.  A transaction that reverts is a
disabled action.  An id that a contract hashes is the tuple of what is hashed, so
hashing is injective; a storage root is the set of nodes it commits to; a
threshold signature is the set of its signers.  Arguments range over the
CONSTANT sets (`DataOwners` are the accounts that register data, `Registrations` what
they register beside the daemons); checks that only say that an argument is not zero are
in those sets.  Definitions under a comment *Slip* are forms of an operator with
one check or assignment lost, used to confirm that a property notices the loss.

Parameters that bound a counter: `MaxTime` (last timestamp), `MaxRound` (hand-offs
of one execution), `MaxDataVersion`, `MaxDonation`, `MaxFaults`, `MaxCrashes`,
`MaxBootstraps`, `MaxUploads`, `MaxEvents`, `MaxVersion`, `MaxCalls`, `MaxSteps`.  A request's expiry is below
`MaxTime` so that every deadline can pass.  `MaxAmount` and `MaxValue` stand for
the largest `u128`, and `DataWorkflow!MaxVersion` for the largest `u64`.

## 3. What the runs check

| Run | Instance | Question |
|---|---|---|
| `siblings` | one contract, a request by each of two users, with an input or without, owners that register either of two ids, two nodes, two committees still to be selected, one hand-off | Do concurrent executions of a contract keep one history, and does a result take over an id that somebody has registered? |
| `data` | two references, one variable, one execution, a pick, one hand-off, two data versions, two verifiers that accept different members for one committee | Do bindings, node lists and roots of references stay consistent through registration, hand-off and replacement, and who signs? |
| `escrow` | a deposit, a withdrawal and an opening by one user, a registration of the same account and a transfer out of it by another, two nullifiers of which either may settle the withdrawal and one is in a voucher, a fee of a tenth that is switched on and off, two committees, a donation; fair | Is every token and every wei of the contract owed to someone, exactly once, and do users get their funds back whatever administrator and committees do? |
| `worker` | the listener and one operator command; a deposit, and a transfer and a withdrawal that it cannot both pay; one fault | Do the ledger and the chain agree, whatever happens between their two commits? |
| `rotation` | the listener rotating to an overlapping committee; a deposit, another above `MaxAmount`, and an opening; one fault; fair | Is the copy for the next nodes current, and are deposits served? |
| `daemon` | three calls on one cell, an upload whose id another account may register first, two contracts, two runtime addresses, crashes and lost answers | Do the database and the chain agree? |
| `daemon_progress` | two calls, a result with both representations, a shared upload, a hand-off, another account that may register the upload, the key and the first result; fair | Does the daemon finish its work while its node is in charge and nobody takes its ids? |
| `balance` | two transfers, the second of which stops at the minimum, two bootstraps, one crash | Does an amount move once for each transfer that was persisted? |
| `workflow` | three nodes, uploads to node 1 or to nodes 2 and 1, under a client's id and under that of a result, three uploads, two events, a result that is an input | Does a failure half way, or a colliding upload, lose or change anything? |
| `language` | the token; every function of one or two of 21 statements; contracts with two things of one name; stores with a missing cell and an undecodable one; four calls | Does a compiled call do what its text says? |
| `secure` | committees of three and four, threshold 1, the field of 23 elements, two values, four changes of a share of value, tag or both, noise of 1 and -1, three operations; and questions about six algorithms on committees of up to five | Is what is shared what was computed, and is what was changed found? |
| `aliasing` | the token, four calls | The disagreement of section 6 that a run shows |

Why the bounds are enough.  Two executions are enough for a race on a root, three for a result that
depends on a result that depends on a result (a wrong submission order needs
it: the first write, the second, and the read between them).  One hand-off per
execution shows every order of `beginHandoff`, `finalizeHandoff` and a result.
`MaxTime` of one or two lets each deadline pass before, between and after the
steps that compare it.  Two committees overlap in one node, so that a quorum of
one is not a quorum of the other.  Amounts are 10 and 20 with a fee of zero or one
tenth, so a rounding error would show in the reserve.  One fault falls at every
step, and a second would only repeat it: after a crash a process has forgotten
everything but its database.  In the workflow the second list has the node of the first behind one
of its own, so that a collision leaves different values behind under one id, and one of
the ids is that of the sum the first computation may have.  Versions go to four: three
hand-offs of one id succeed and a fourth fails at the limit.  Of the four changes of a
share two fit no key, one fits the first member's share of it and one the key itself, so
both sides of the exclusion in `CheckFindsFaults` occur.  The field of 23 elements is five bits wide and the bounded
comparison two, as in the code the field is wider than the 64 bits compared; and a mask,
a scale and a noise term that wrap only outside the ranges the code states.  Three
operations are enough for a product to be handed over and then converted or
compared; which shape of committee, which member and which drawn number it was is
covered by choosing them at each step.  The names of values are interchangeable,
and `secure` uses that symmetry; no other run uses any.  Deadlock is not checked:
every instance stops when its nonces, tasks and time are used up, which is the end
of the instance and not of the program.

Each property of a run is violated by a slip of one definition; the list is in
`PROJECT.json` under `mutants`.

What the runs showed beyond that they pass: the ledger of the swap worker is ahead
of the chain by at most one task, and when that task can no longer be settled the
worker refuses everything after it (`LedgerMatchesChain`, `DepositsAreServed`); the
database of the balance application and the chain differ by at most one result; a
collision of uploads blocks a computation but never changes its result, under the id of
a result either.

## 4. Fairness

* `TokenSwap!FairSpec` (`escrow`): time passes, and a requester who may cancel
  does.  Nothing is assumed of the administrator or of any committee.
* `SwapWorker!FairWorkerSpec` (`rotation`): the loop of the listener goes on, and
  an operator restarts it when it stops.  Nothing is assumed of the chain, the
  users or time, and `DepositsAreServed` leaves out only that the
  ledger has run ahead for good and that it has no room for the deposit or one before it.
* `ManifestDaemon!FairDaemonSpec` (`daemon_progress`): the loop of
  `main` runs for ever, as `thread::sleep` and the retry of each call give it;
  and crashes and errors, however many, end at some time, except for those of
  transactions that the contracts revert.  Nothing is assumed of the environment.

The other runs need no fairness: their properties are about every prefix of a
behaviour.

## 5. What is proved

The theorems hold for every value of the constants that satisfies the module's
named assumption: any number of accounts, contracts, executions, nodes,
committees, tokens, tasks and vouchers, and any of the bounds.

*`StateLineageProofs`.*  `NoLostUpdate` says that no two accepted writes start from
one base.  It is not inductive: a step that commits must know that the head was
written last.  `LineageInv` adds that bases have been written, that a requested
execution has a head to start from, that results belong to requests, and that the
head is the last write.

*`ControlPlaneProofs`.*  `BindingsResolve` and `KeysOpenForOwner` need that a reference
once available stays so with its owner, representation and key
(`ReferencesAreWhole`), and that the output of a completed execution is registered
(`OutputsAreRegistered`), since an update binds outputs of executions completed
long before.  `RegistryInv` is the conjunction with `TypeOK`; each action that
touches one of its variables has a lemma, the others are one frame lemma.

Three more conjuncts of the same module carry the rest of the contract.
`LocationsInv` (`LocationsAlwaysMatch`) adds that only an available reference has a
list of nodes, so that a registration finds none.  `ChargeInv` gives each status of an execution the
committees it may name, and says that every committee named is finalized with a
reachable threshold: `OneCommitteeAlwaysInCharge` and `CommitteesCanAlwaysSign`
follow from it.  `SignersAreFixed` is about a step: the committee in charge of an
execution becomes another only by its assignment or as the announced one of a hand-off
that is finished, and the members and threshold of neither committee change, since one
that is finalized is never written again, whatever the verifier is by then.  `OutputsInv`
(`OutputsAlwaysOwned`) adds that the inputs of a request are available from then on:
a result registers a new reference, which so is no input and no earlier output.

The refinement is proved in the same module.  `LineageImplemented` carries the promise over to the contract:
publication, request and result map to `Publish`, `Request` and `Commit`, and every
other call is a stutter.  The mapping needs `RequestsArePublished` besides
`RegistryInv`: the head of an unpublished contract is `None`, and a commit must find
a head to compare its base with.  `WritesAreChained` brings the two results of
`StateLineageProofs` back to the contract, by instantiating the proofs.

*`TokenSwapProofs`.*  `ReserveIsExact`, `LiabilitiesAreBacked` and `EtherIsOwed` equate
a stored number with a sum over requests, vouchers or accounts.  `Totals` defines
the sum as the cardinality of a set of units, which needs no recursion, and proves
how it changes when one summand changes.  `LedgerInv` adds to the three equations
`TypeOK`, that escrowed gas belongs to pending tasks (`EscrowIsForPending`), and
that a task in use has its nonce marked (`NoncesCoverTasks`), without which a
second request could overwrite the first.  `LiabilitiesAreBacked` counts what each
nullifier was spent on, and its other half (`SettledOnce`) is that a request is settled
exactly when it has spent one nullifier, so nothing is paid twice under two of them.
`ControllersNeverMove` follows from the
types alone: the two functions that name a controller test it first.

*`SwapWorkerProofs`.*  `WorkersImplementContract` is the step that makes the rest short:
every action of the composed system is an action of `TokenSwap` or leaves its
variables alone, so `LedgerInv` holds beside the workers (`JointInv`).
`LedgerMatchesChain` is not inductive, because a worker acts on what it read some
steps ago.  `StepInv` says what such a memory is still worth: a settlement about to
be sent either is the one task by which the ledger is ahead, or starts from a root
shorter than that of the chain and will be refused.  Roots only grow, so a stale
memory stays stale.  `CursorInv` ties the task that the listener holds to its cursor,
and `SnapshotInv` says of a rotation that what was read and what has been installed
is still the ledger.  The hypotheses are these.

* `LedgerRoots`: the contract accepts every root that a ledger can derive.  It is a
  `bytes32` there, checked against the last one and nothing else.  The finite
  instances of the runs bound the roots instead, which disables a settlement.
* `OneToken`, for `LedgerAlwaysMatches` and `BalancesAlwaysBacked`: see section 6.
* `Workers = {watch}`, for `SnapshotsAlwaysCurrent`: an operator's command between two
  installations would leave the first next node behind.

*`ManifestDaemonProofs`.*  `DaemonsKeepTheControlPlane` does the same for the daemons:
`SystemInv` is `RegistryInv` with the types of the databases and, for each place of
the loop, what the local variables hold there (`PhasesOK`).  `DaemonsSkipNothing`
needs that a status read as completed is still so at the step that relies on it, and
that the outbox row is removed only after the chain was seen to have it (`SkipInv`).
`UploadsReachTheChain` needs the same of the three steps of an upload, and that
whoever registered the id is an account that did so itself (`Preempted`) or a daemon that
accepted it, for its owner and with itself as the location (`TakenByDaemon`): this is
`UploadInv`.  That nothing else of a daemon takes the id rests on
`UploadIdsAssumption`: an id of an upload is the hash of owner and payload under a
domain of its own (`manifest_upload.rs:107-124`), never one that a result or a key
has (`manifest_committee_daemon.rs:238-241`, `375-379`).  Both theorems hold for any
number of daemons.

*One daemon*, in the same module.  The two theorems on results are stated for `Daemons = {n}`.  With
two daemons in one committee TLC finds `AcceptedOnAcceptedState` violated (section
6), so the hypothesis is needed.  Three parts make up the invariant:

* `ChainInv`: the root an execution starts from is the root of one that is older in
  the queue, so the recursive function `WriterAt` (who wrote a variable, as of a
  root) has a solution and only one.  The proof that it has only one takes the least
  position at which two solutions differ (`LeastNumber` of `Totals`), where other
  proofs would use induction.
* `RowsOK`: the rows of the outbox are results of this daemon, no two of one
  execution, recorded, and none but the first accepted.
* `BasesOK`: for each row and variable, the cell that the row was computed from is
  what the last earlier row that writes the variable leaves or, if there is none,
  what the chain has accepted; and the cells are that after all the rows.

`ResultsReachTheChain` adds `PartsInv`: how far the head of the outbox has come at each
phase (result, output location, one variable after another, opening), that all of it
is there for what has left the outbox, and that the variables of the chain follow the
cells with the writes of the outbox left out.

*`DataWorkflowProofs`.*  A step changes the storage in one of two ways (`StorageStep`): a
fragment where the node had none, or a hand-off of fragments that agree.
`NothingIsEverLost` follows for any number of runtimes, with one fact beside it
(`StoredInv`): an id that some node holds has a first value.  The other two
theorems are about the time between a hand-off and the read of it:

* `ComputeInv`: the sum so far is the total of the first values of the inputs read
  (`SumOK`); from the hand-off to the read the committee holds the input with its
  first value, at the version to be recorded (`HeldOK`); and from the storing of a
  result on, its value is at some node, and at the whole committee until the id is moved
  as an input (`Placed`, `HandedOver`).  A result is recorded only if no
  member of its committee had the id when it was stored, so an upload under it before or after cannot drive it out, and a
  hand-off goes only where all fragments agree.  `ResultsAreAlwaysSums` is the last
  conjunct.  One more input adds its value to the total by `TotalUpdate`.
* `Followed`, for `RecordedHandoffsStayCurrent`: the property with the runtime named.

Both are stated for one runtime, as in the program; for two see section 6.
`WorkflowAssumption` says that ids of nodes are numbers and there are finitely many,
that uploaded values and versions are in the range of their types, and that no two nodes
have one digest.  Of the ids it says nothing: an upload may name that of any result.

*`PrivateBalanceProofs`.*  `BalanceIsAClient` is a refinement: every step of the
application and of any number of worker processes, crashes included, is a call of the
control plane or leaves its variables alone (`StepsAreCalls`), so that each theorem of
`ControlPlaneProofs` holds of the whole.  It needs of the chain that declared variables
resolve, since a transfer names the data they refer to, and of a process that it knows
its execution and its rows (`CommandOK`).  The two theorems on the database are stated
for `Processes = {p}`, the only use the repository makes of the program; with two
processes TLC finds a transfer evaluated on balances that the other process is about
to replace, and `BalancesFollowTheTransfers` violated (section 6).

* `TrailInv`, for `TrailsByOneResult`: each row of the database is an initial one or the
  result of an update that the chain has recorded (`RowsAreKnown`), so that the result
  a process is about to commit is not there yet; what a process submitted is the
  output of its execution (`ResultOK`), and its update binds both variables to that.
  The first bootstrap finds nothing declared, what it has yet to declare is not, and
  between its two inserts the first row is there (`BootOK`).  A second bootstrap is outside of the property.
* `BalanceInv`, for `BalancesAlwaysFollow`: what a process has read is still what is
  bound (`ReadOK`), so that its result is one transfer on the balances after those
  persisted; each binding is to an initial row or to rows of a result
  (`BindingsAreKnown`), so that no new row replaces another's.  `AfterTransfers` is a
  recursive function; that it has a value at every number of transfers is shown by the
  least number at which it would have none (`BalancesExist`).

`BalanceIdsAssumption` says that the ids of the initial data and of results are all
different: the first are four constants (`private_balance_worker.rs:181-205`), and the
id of a result is a commitment over the id of its execution
(`private_transfer.rs:100-112`).

`KeysOpenForOwner`, `NoLostUpdate`, `HeadIsLastWrite` and the type invariants are covered
by their theorems and checked by no run, but for `ControlPlane!TypeOK`.

Only model-checked, for these reasons:

* every liveness property: the proof system has no rules for fairness here;
* `ContractLanguage`, `CompiledContract`, `ConfidentialToken`: recursive operators over
  syntax trees, which the proof system does not handle;
* the shares (`SecretSharing`, `SecureGadgets`, `SecureMachine`): what their sums and
  products over a committee compute is an induction over data.

## 6. Disagreements with the documents

Shown by a run:

* `aliasing` (`StatementsTakeEffectInOrder`): the compiler reads every indexed state
  before any write of the call takes effect.  In a transfer of the example token to its own sender the credit
  is computed from the balance before the debit and overwrites it: the balance
  grows by the amount.  `CallsReadTheStateBefore` and `SupplyFollowsThePlans` state
  exactly what the code does instead, and hold.

Met while modelling, each of them a behaviour of the models:

* An execution that is overtaken or expires stays in `Running`
  (`PpscControlPlane.sol:833`); no call sets `Failed` or `Cancelled`, although
  `docs/confidential-contract-protocol.md:364-368` describes both.
* `updateStateVariablesAfterResult` accepts the updates of two results in the
  reverse order of the results, and a binding goes back to the older one
  (`PpscControlPlane.sol:911-925`, "variable advancement").
* A contract published with the zero root cannot complete a read-only execution:
  it must sign the root it was requested on, which `submitResult` rejects
  (`PpscControlPlane.sol:839`).
* Anyone may register a reference under any id (`PpscControlPlane.sol:331-354`), that of an
  upload, a key or a result included, before the daemon does.  `submitResult` and the
  daemon's registrations then revert on every retry, and the head of the outbox or of the
  uploads holds what is behind it (`manifest_committee_daemon.rs:243-325`, `385-416`),
  although `docs/privacy-contract-language.md:117` has a failed result submitted later.
  `PendingResultsAreSubmitted`, `UploadsAreRegistered` and `UploadsAreLocated` leave
  exactly these states out by name.
* `setActiveCommittee` during a hand-off of the custody contract leaves the pending committee
  where it is, to be finalized later against another one (`ConfidentialTokenSwap.sol:313`);
  the `escrow` run has that order and its properties hold through it, but no property is
  about it.
* The daemon never records a rejected task; a call whose `require` fails holds the
  cursor for ever, and every later call of every user waits behind it
  (`manifest_daemon.rs:160`; `docs/privacy-contract-language.md:94` lists rejected records).
* Nothing copies a contract's rows to the database of a successor committee's node,
  although `manifest.rs:409-410` says that a handoff does; a node that becomes a
  member computes on the rows it has (`manifest_daemon.rs:154`).
* Nor does anything bring the members of one committee to the same cells.  A daemon
  that finds a task completed skips it and leaves its own cells as they are
  (`manifest_daemon.rs:141-150`); when it is the first to compute a later one, its
  result is accepted on a state the chain does not have.  `AcceptedOnAcceptedState`
  and `ResultsAreComplete` are run with one daemon and proved for one.
* After a crash between the commit of the ledger and the settlement, a restarted
  swap worker is refused by its own ledger for ever
  (`confidential_swap_worker.rs:153`);
  `docs/README-complete-confidential-demo.md:507` says processing continues.
  `DepositsAreServed` holds because it excludes this case by name.
* A deposit is a `uint256` on the chain (`ConfidentialTokenSwap.sol:374`) and a `u128` in the
  worker (`confidential_swap_worker.rs:152`).  One above that, or one that takes a balance
  above it, fails on every pass and holds the cursor: no later deposit is served until it
  is cancelled.  `DepositsAreServed` names it (`NoRoomFor`), and `rotation` has it.
* The swap worker serves one token but takes every task of the queues, whatever its
  token (`confidential_swap_worker.rs:146-380`).  With a task of a second token the
  ledger moves ahead of a root that the settlement never advances, and
  `LedgerMatchesChain` fails; the runs and the theorems have one token (`OneToken`).
* After a rotation the swap worker goes on signing with the keys of the old committee,
  and the copies for the next nodes carry neither markers nor cursors.
* Custody calls that a function plans are said to be executed after an attested
  transition (`manifest.rs:139-141`); the outbox keeps their opcodes and its reader
  drops them (`manifest_daemon.rs:268-271`, `308-311`).
* The balance worker evaluates on the bindings of its database when it processes an
  execution, not on the data the request names; and two processes of it at once
  create or destroy an amount (`BalancesFollowTheTransfers` fails with two
  `Processes`), which nothing in the program prevents.
* Nothing keeps a second runtime of the workflow off the storage network of the first
  (`workflow.rs:532-550`).  It can move an input of the first between its hand-off and
  its read; the read then fails, or finds what a colliding upload has put at the nodes
  left.  `RecordedHandoffsAreCurrent` and `ResultsAreSums` fail with two `Runtimes`;
  the tests, its only users in the repository, have one.
* The id of a workflow result is a digest that clients can compute and upload under
  (`workflow.rs:29-65`, `551-561`).  Such an upload makes the storing of the result fail,
  when the committee has it in part, or a later hand-off of it; the event is lost, a
  recorded result stays what it was.
* `conversion.rs:257-258` assumes noise below half the scale on both sides and calls the
  decoding a rounding; it floors, so noise below zero yields the plaintext less one.
  `CipherHolds` states that (`Decoded`), and `secure` runs with both signs.
* `verify_mac` (`auth.rs:111-128`) compares the tag with the key times the value.  A member
  that changes its share of the value by d and that of the tag by d times its share of the
  key, or times the key, passes it with a wrong value.  `CheckFindsFaults` and the
  authenticated conversion in `CipherHolds` leave these changes out by name; every other
  single change is found.
* `comparison.rs:5-6` gives the precondition as "less than half the field modulus";
  the comparison is right for values up to q - 2^(l-1), where l is the length of q
  in bits, and for larger ones below half of q it can be wrong.  `CompareBound` is
  7 for that reason.

## 7. Not modelled

* Lattice arithmetic and its C++ bindings (`crates/fhe`): numeric, and without
  states; the conversions between ciphertexts and shares are modelled with the
  scalar form of a ciphertext that `conversion.rs` itself uses.
* The crypto backend process: one request at a time over a pipe; what it computes
  is the plaintext backend of `CompiledContract`, and its failures are
  `ReturnError` of the daemon.
* The sortition lottery: its result enters as the selections a verifier accepts.
* The lexer, the text of the parser and the generated text of the gateway.
* Signatures, digests, HTTP framing, encodings: an encoding is injective and a
  signature is its signer.
* The replay of hand-off signatures in a later round (the digest of
  `PpscControlPlane.sol:810` has no round): it would need signatures as objects
  that travel.
* Randomness: what is drawn is chosen from a set, so nothing is said about secrecy.
* The private transfer demonstration, the front end, scripts and benchmarks.
