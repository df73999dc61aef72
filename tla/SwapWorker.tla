----------------------------- MODULE SwapWorker -----------------------------
(***************************************************************************)
(* The committee daemon of the custody contract,                           *)
(* runtime/src/bin/confidential_swap_worker.rs, with its ledger and the    *)
(* contract.  A worker settles one task at a time: it reads the root of    *)
(* the chain, applies the task to the ledger in one database transaction   *)
(* that requires that root, reads the digest, signs it and sends the       *)
(* settlement.  The chain, other workers and failures step in between.     *)
(*                                                                         *)
(* The worker called watch runs the polling loop with a cursor per kind of *)
(* task; the others are single commands given by the operator for a task   *)
(* that is on the chain.  An error ends a pass of the loop, or a command.  *)
(* `cast send` fails when the transaction reverts.                         *)
(***************************************************************************)
EXTENDS TokenSwap, Sequences

CONSTANTS
  Workers, watch,
  WorkerToken,      \* the token the daemon is configured with
  MaxAmount,        \* u128::MAX
  FirstCommittee,   \* the committee of the deployment
  Signers,          \* the nodes whose keys are in the binary
  NextCommittee, NextSigners, NextNodes,   \* the NEXT_* variables
  RotationOn,       \* COMMITTEE_ROTATION_SECONDS is set
  MaxFaults         \* bound: crashes and failed or unanswered calls

L == INSTANCE BalanceLedger WITH Holders <- Commitments

Kinds == <<"deposit", "transfer", "withdrawal", "opening">>   \* the order of a pass

ASSUME WorkerAssumption ==
  /\ watch \in Workers
  /\ WorkerToken \in Tokens /\ FirstCommittee \in CommitteeIds
  /\ ZeroRoot = L!EmptyRoot
  /\ IsFiniteSet(Commitments)   \* bytes32
  /\ TasksOf("withdrawal") \subseteq Nullifiers   \* see WithdrawalNullifier
  /\ 0 \in GasValues
  /\ MaxAmount \in Nat /\ MaxFaults \in Nat
  /\ NextCommittee \in CommitteeIds /\ Signers \cup NextSigners \subseteq Nodes

VARIABLES
  taskIds,     \* the contract's list of tasks of each kind
  ledger,      \* the database: root, balance records, markers
  cursors,     \* the database: ppsc_swap_listener_cursors
  worker,      \* what each process holds in memory
  rotated,     \* in memory of watch
  snapshots,   \* the databases of the next nodes
  faults

workerVars == <<taskIds, ledger, cursors, worker, rotated, snapshots, faults>>
allVars == <<vars, workerVars>>

Idle == [pc |-> "idle", kind |-> 1, counts |-> <<0, 0, 0, 0>>, task |-> None,
         old |-> <<>>, new |-> <<>>, committee |-> None,
         records |-> L!EmptyLedger.balances, installed |-> {}]

\* The deployment script: a contract with one token, on registered committees.
WorkerInit ==
  /\ Init
  /\ registered = CommitteeIds
  /\ activeCommitteeId = FirstCommittee
  /\ taskIds = [k \in 1..4 |-> <<>>]
  /\ ledger = L!EmptyLedger
  /\ cursors = [k \in 1..4 |-> 0]
  /\ worker = [w \in Workers |-> Idle]
  /\ rotated = FALSE
  /\ snapshots = [n \in NextNodes |-> L!EmptyLedger]
  /\ faults = 0

At(w, pc) == worker[w].pc = pc
Goto(w, pc) == worker' = [worker EXCEPT ![w].pc = pc]
\* An error ends a command, and a pass of the loop before its pause.
Stop(w) == worker' = [worker EXCEPT ![w] =
             IF w = watch THEN [Idle EXCEPT !.pc = "rest"] ELSE Idle]
Exit(w) == worker' = [worker EXCEPT ![w] = Idle]   \* and the operator restarts watch

-----------------------------------------------------------------------------
(* A pass of the loop *)

\* Slip: the newest task of each kind is left for a later pass.
PollShort ==
  /\ At(watch, "idle")
  /\ worker' = [worker EXCEPT ![watch] =
       [Idle EXCEPT !.pc = "next", !.counts = [k \in 1..4 |-> Len(taskIds[k]) - 1]]]
  /\ UNCHANGED <<vars, taskIds, ledger, cursors, rotated, snapshots, faults>>

\* taskCounts is read once, and the kinds are walked in order.
Poll ==
  /\ At(watch, "idle")
  /\ worker' = [worker EXCEPT ![watch] =
       [Idle EXCEPT !.pc = "next", !.counts = [k \in 1..4 |-> Len(taskIds[k])]]]
  /\ UNCHANGED <<vars, taskIds, ledger, cursors, rotated, snapshots, faults>>

\* The cursor, the id and the record of the next task.
NextTask ==
  LET kind == worker[watch].kind
      index == cursors[kind] + 1 IN
  /\ At(watch, "next")
  /\ IF index <= worker[watch].counts[kind]
       THEN LET task == taskIds[kind][index] IN
            worker' = [worker EXCEPT ![watch].task = task, ![watch].pc =
              CASE ~Pending(task) -> "advance"
                [] Pending(task) /\ task.kind = "opening" -> "open"
                [] OTHER -> "root"]
       ELSE IF kind < 4
              THEN worker' = [worker EXCEPT ![watch].kind = kind + 1]
              ELSE Stop(watch)
  /\ UNCHANGED <<vars, taskIds, ledger, cursors, rotated, snapshots, faults>>

\* advance_cursor
AdvanceCursor ==
  /\ At(watch, "advance")
  /\ cursors' = [cursors EXCEPT ![worker[watch].kind] = @ + 1]
  /\ Goto(watch, "next")
  /\ UNCHANGED <<vars, taskIds, ledger, rotated, snapshots, faults>>

\* The pause between two passes.
Sleep ==
  /\ At(watch, "rest")
  /\ Goto(watch, "idle")
  /\ UNCHANGED <<vars, taskIds, ledger, cursors, rotated, snapshots, faults>>

\* main: one of the commands deposit, transfer and withdraw
StartCommand(w) ==
  /\ w # watch
  /\ At(w, "idle")
  /\ \E task \in Tasks :
       /\ status[task] # "None" /\ task.kind # "opening"
       /\ worker' = [worker EXCEPT ![w].task = task, ![w].pc = "root"]
  /\ UNCHANGED <<vars, taskIds, ledger, cursors, rotated, snapshots, faults>>

EndCommand(w) ==
  /\ w # watch
  /\ At(w, "advance")
  /\ Stop(w)
  /\ UNCHANGED <<vars, taskIds, ledger, cursors, rotated, snapshots, faults>>

-----------------------------------------------------------------------------
(* A task *)

\* state_root
ReadRoot(w) ==
  /\ At(w, "root")
  /\ worker' = [worker EXCEPT ![w].pc = "commit", ![w].old = privateStateRoots[WorkerToken]]
  /\ UNCHANGED <<vars, taskIds, ledger, cursors, rotated, snapshots, faults>>

\* The ledger accepts the task on the root that was read.
Accepts(task, expected) ==
  CASE task.kind = "deposit" ->
         L!MayCredit(ledger, task, task.account, task.amount, expected)
    [] task.kind = "withdrawal" ->
         L!MayDebit(ledger, task, task.account, task.amount, expected)
    [] OTHER ->
         L!MayTransfer(ledger, task, task.account, task.receiver, task.amount, expected)

Applied(task) ==
  CASE task.kind = "deposit" -> L!Credit(ledger, task, task.account, task.amount)
    [] task.kind = "withdrawal" -> L!Debit(ledger, task, task.account, task.amount)
    [] OTHER -> L!Transfer(ledger, task, task.account, task.receiver, task.amount)

\* credit_deposit, debit_withdrawal, transfer: one transaction, or an error.
CommitLedger(w) ==
  LET task == worker[w].task IN
  /\ At(w, "commit")
  /\ IF Accepts(task, worker[w].old)
       THEN /\ ledger' = Applied(task)
            /\ worker' = [worker EXCEPT ![w].pc = "digest", ![w].new = ledger'.root]
       ELSE Stop(w) /\ UNCHANGED ledger
  /\ UNCHANGED <<vars, taskIds, cursors, rotated, snapshots, faults>>

\* fulfill_opening: the balance in the database, or an error without a record
OpenBalance ==
  /\ At(watch, "open")
  /\ IF L!HasRecord(ledger, worker[watch].task.account) THEN Goto(watch, "digest") ELSE Stop(watch)
  /\ UNCHANGED <<vars, taskIds, ledger, cursors, rotated, snapshots, faults>>

\* The digest names the committee in charge; the keys are constants.
ReadDigest(w) ==
  /\ At(w, "digest")
  /\ worker' = [worker EXCEPT ![w].pc = "send", ![w].committee = activeCommitteeId]
  /\ UNCHANGED <<vars, taskIds, ledger, cursors, rotated, snapshots, faults>>

\* The hash of the withdrawal's id, with a prefix.
WithdrawalNullifier(task) == task

\* The settlement as the contract takes it.
Settle(w) ==
  LET m == worker[w] IN
  \/ FinalizeDeposit(Admin, m.task, m.old, m.new, m.committee, Signers)
  \/ FinalizeConfidentialTransfer(Admin, m.task, m.old, m.new, m.committee, Signers)
  \/ FinalizeWithdrawal(Admin, m.task, WithdrawalNullifier(m.task),
                        m.old, m.new, m.committee, Signers)
  \/ FulfillBalanceOpening(Admin, m.task, m.committee, Signers)

SendSettlement(w) ==
  /\ At(w, "send")
  /\ Settle(w)
  /\ Goto(w, "advance")
  /\ UNCHANGED <<taskIds, ledger, cursors, rotated, snapshots, faults>>

\* Slip: the failure is logged and the cursor goes on.
SettlementRevertsUnseen(w) ==
  /\ At(w, "send")
  /\ ~ENABLED Settle(w)
  /\ Goto(w, "advance")
  /\ UNCHANGED <<vars, taskIds, ledger, cursors, rotated, snapshots, faults>>

SettlementReverts(w) ==
  /\ At(w, "send")
  /\ ~ENABLED Settle(w)
  /\ Stop(w)
  /\ UNCHANGED <<vars, taskIds, ledger, cursors, rotated, snapshots, faults>>

-----------------------------------------------------------------------------
(* handoff *)

\* The root and then the records are read from the database of the worker.
BeginRotation(w) ==
  /\ RotationOn
  /\ IF w = watch THEN At(w, "rest") /\ ~rotated ELSE At(w, "idle")
  /\ worker' = [worker EXCEPT ![w].pc = "records", ![w].new = ledger.root]
  /\ UNCHANGED <<vars, taskIds, ledger, cursors, rotated, snapshots, faults>>

ReadRecords(w) ==
  /\ At(w, "records")
  /\ worker' = [worker EXCEPT ![w].pc = "install", ![w].records = ledger.balances]
  /\ UNCHANGED <<vars, taskIds, ledger, cursors, rotated, snapshots, faults>>

\* One transaction in the database of each next node; no marker is copied.
InstallSnapshot(w, n) ==
  LET m == worker[w] IN
  /\ At(w, "install")
  /\ n \in NextNodes \ m.installed
  /\ snapshots' = [snapshots EXCEPT ![n] =
       [snapshots[n] EXCEPT !.root = m.new, !.balances = [a \in Commitments |->
          IF m.records[a].version > 0 THEN m.records[a] ELSE snapshots[n].balances[a]]]]
  /\ worker' = [worker EXCEPT ![w].installed = @ \cup {n}]
  /\ UNCHANGED <<vars, taskIds, ledger, cursors, rotated, faults>>

\* Slip: one snapshot is enough.
AnnounceHandoffEarly(w) ==
  /\ At(w, "install")
  /\ worker[w].installed # {}
  /\ pendingCommitteeId = None
  /\ BeginCommitteeHandoff(Admin, NextCommittee) /\ Goto(w, "finalize")
  /\ UNCHANGED <<taskIds, ledger, cursors, rotated, snapshots, faults>>

AnnounceHandoff(w) ==
  /\ At(w, "install")
  /\ worker[w].installed = NextNodes
  /\ IF pendingCommitteeId = None
       THEN BeginCommitteeHandoff(Admin, NextCommittee) /\ Goto(w, "finalize")
       ELSE Exit(w) /\ UNCHANGED vars
  /\ UNCHANGED <<taskIds, ledger, cursors, rotated, snapshots, faults>>

CompleteHandoff(w) ==
  /\ At(w, "finalize")
  /\ FinalizeCommitteeHandoff(Signers, NextSigners)
  /\ Exit(w)
  /\ rotated' = IF w = watch THEN TRUE ELSE rotated
  /\ UNCHANGED <<taskIds, ledger, cursors, snapshots, faults>>

HandoffReverts(w) ==
  /\ At(w, "finalize")
  /\ ~ENABLED FinalizeCommitteeHandoff(Signers, NextSigners)
  /\ Exit(w)
  /\ UNCHANGED <<vars, taskIds, ledger, cursors, rotated, snapshots, faults>>

-----------------------------------------------------------------------------
(* Faults *)

\* The process stops, or a call fails: what it held in memory is lost.
Crash(w) ==
  /\ faults < MaxFaults
  /\ ~At(w, "idle")
  /\ Exit(w)
  /\ faults' = faults + 1
  /\ rotated' = IF w = watch THEN FALSE ELSE rotated
  /\ UNCHANGED <<vars, taskIds, ledger, cursors, snapshots>>

\* The settlement is mined and the worker is not told.
LostReply(w) ==
  /\ faults < MaxFaults
  /\ At(w, "send")
  /\ Settle(w)
  /\ Stop(w)
  /\ faults' = faults + 1
  /\ UNCHANGED <<taskIds, ledger, cursors, rotated, snapshots>>

-----------------------------------------------------------------------------
(* The users and the administrator *)

\* The four requests, with the list of tasks the daemon walks.
RequestTask(task) ==
  /\ \/ Deposit(task, 0) \/ RequestConfidentialTransfer(task, 0)
     \/ RequestWithdrawal(task, 0) \/ RequestBalanceOpening(task, 0)
  /\ \E k \in 1..4 : Kinds[k] = task.kind /\ taskIds' = [taskIds EXCEPT ![k] = Append(@, task)]
  /\ UNCHANGED <<ledger, cursors, worker, rotated, snapshots, faults>>

OtherChainStep ==
  /\ \/ \E sender \in Accounts, account \in Commitments :
          RegisterConfidentialAccount(sender, account)
     \/ \E task \in Tasks :
          CancelDeposit(task.requester, task) \/ CancelWithdrawal(task.requester, task)
     \/ \E nextPaused \in BOOLEAN : SetPaused(Admin, nextPaused)
     \/ \E k \in CommitteeIds : SetActiveCommittee(Admin, k)
     \/ \E t \in Tokens, config \in Configs : ConfigureToken(Admin, t, config)
     \/ Tick
  /\ UNCHANGED workerVars

PassNext == Poll \/ NextTask \/ AdvanceCursor \/ OpenBalance \/ Sleep

TaskNext(w) ==
  ReadRoot(w) \/ CommitLedger(w) \/ ReadDigest(w) \/ SendSettlement(w) \/ SettlementReverts(w)

RotationNext(w) ==
  \/ ReadRecords(w)
  \/ \E n \in NextNodes : InstallSnapshot(w, n)
  \/ AnnounceHandoff(w) \/ CompleteHandoff(w) \/ HandoffReverts(w)

WorkerNext ==
  \/ PassNext
  \/ \E w \in Workers :
       \/ StartCommand(w) \/ EndCommand(w) \/ TaskNext(w)
       \/ BeginRotation(w) \/ RotationNext(w) \/ Crash(w) \/ LostReply(w)
  \/ \E task \in Tasks : RequestTask(task)
  \/ OtherChainStep

WorkerSpec == WorkerInit /\ [][WorkerNext]_allVars

-----------------------------------------------------------------------------
(* Properties *)

Settled == {task \in Tasks : task.kind # "opening" /\ status[task] = "Finalized"}
Unsettled == ledger.applied \ Settled
LedgerAhead == ledger.root # privateStateRoots[WorkerToken]

(* The ledger and the chain step in turn, whatever workers, crashes, pauses *)
(* and rotations do: what the chain settled is in the ledger, at most one   *)
(* task is in the ledger only, and the roots agree exactly when none is.    *)
LedgerMatchesChain ==
  /\ Settled \subseteq ledger.applied
  /\ Cardinality(Unsettled) <= 1
  /\ Unsettled = {} <=> ~LedgerAhead

SignedAmount(task) ==
  CASE task.kind = "deposit" -> task.amount
    [] task.kind = "withdrawal" -> 0 - task.amount
    [] OTHER -> 0

(* The balances of the ledger add up to the liabilities of the contract,    *)
(* but for the one task the chain has not settled: no transfer, retry or    *)
(* second worker creates or destroys confidential value.                    *)
BalancesAreBacked ==
  LET balances == [a \in Commitments |-> ledger.balances[a].amount] IN
  IF Unsettled = {}
    THEN Total(balances) = privateLiabilities[WorkerToken]
    ELSE \E task \in Unsettled :
           Total(balances) = privateLiabilities[WorkerToken] + SignedAmount(task)

(* No cursor passes a task that still waits, however often the daemon is    *)
(* restarted between a settlement and the update of its cursor.             *)
CursorPassesNoPending ==
  \A k \in 1..4 : \A i \in 1..cursors[k] : ~Pending(taskIds[k][i])

(* With one daemon, the databases of the next nodes hold the ledger as it   *)
(* is when the committee switches, all of them and with the root it had.    *)
SnapshotsAreCurrent ==
  [][At(watch, "finalize") /\ rotated' # rotated =>
       \A n \in NextNodes :
         snapshots[n].root = ledger.root /\ snapshots[n].balances = ledger.balances]_allVars

-----------------------------------------------------------------------------
(* Progress *)

\* The daemon keeps running; when it rotates the committee is up to the clock.
WatchNext == PassNext \/ TaskNext(watch) \/ RotationNext(watch)

FairWorkerSpec == WorkerSpec /\ WF_allVars(WatchNext)

\* The ledger has no room for a deposit of the list up to this one: its amount,
\* a uint256 of the contract, or the balance with it, exceeds a u128.
NoRoomFor(task) ==
  \E j \in DOMAIN taskIds[1] : taskIds[1][j] = task /\
    \E i \in 1..j :
      LET earlier == taskIds[1][i] IN
      /\ Pending(earlier)
      /\ ledger.balances[earlier.account].amount + earlier.amount > MaxAmount

(* A deposit is settled or cancelled, unless the ledger has run ahead of    *)
(* the chain for good, or it stands behind a deposit, or is one, that the   *)
(* ledger has no room for: whatever crashes, is paused or rotates, nothing  *)
(* else stops the daemon from serving deposits.                             *)
DepositsAreServed ==
  \A task \in TasksOf("deposit") :
    Pending(task) ~> (~Pending(task) \/ []LedgerAhead \/ []<>NoRoomFor(task))
=============================================================================
