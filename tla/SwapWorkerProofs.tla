-------------------------- MODULE SwapWorkerProofs --------------------------
(***************************************************************************)
(* Proofs about SwapWorker: any number of workers, accounts, tasks and     *)
(* faults.  The contract and its daemons together implement the contract   *)
(* alone, so what TokenSwapProofs proves holds here too; what is proved    *)
(* about the ledger, the cursors and the snapshots builds on that.         *)
(***************************************************************************)
EXTENDS SwapWorker, TokenSwapProofs

Entry == [account : Commitments, amount : Nat, version : Nat]
Record == [amount : Nat, version : Nat]
Ledger == [root : Seq(Entry), balances : [Commitments -> Record], applied : SUBSET Tasks]

\* A root of the contract may be any that the ledger derives.
LedgerRoots == Seq(Entry) \subseteq Roots

\* The contract serves one token.  The daemon does not look at a task's token.
OneToken == \A task \in Tasks : task.token = WorkerToken

\* The places of the program where a worker holds a task.
TaskPcs == {"open", "root", "commit", "digest", "send", "advance"}
RotationPcs == {"records", "install", "finalize"}

WorkerState ==
  [pc : {"idle", "next", "rest"} \cup TaskPcs \cup RotationPcs,
   kind : 1..4, counts : [1..4 -> Nat], task : Tasks \cup {None},
   old : Seq(Entry), new : Seq(Entry), committee : CommitteeIds \cup {None},
   records : [Commitments -> Record], installed : SUBSET NextNodes]

\* A process holds a task where the program does, and has counted tasks that exist.
MemoryOK(m) ==
  /\ m \in WorkerState
  /\ m.pc \in TaskPcs => m.task \in Tasks
  /\ m.pc \in {"root", "commit"} => m.task.kind # "opening"
  /\ m.pc = "open" => m.task.kind = "opening"
  /\ \A k \in 1..4 : m.counts[k] <= Len(taskIds[k])

WorkerTypeOK ==
  /\ taskIds \in [1..4 -> Seq(Tasks)]
  /\ ledger \in Ledger
  /\ cursors \in [1..4 -> Nat]
  /\ worker \in [Workers -> WorkerState] /\ \A w \in Workers : MemoryOK(worker[w])
  /\ rotated \in BOOLEAN
  /\ snapshots \in [NextNodes -> Ledger]
  /\ faults \in Nat
  /\ privateStateRoots \in [Tokens -> Seq(Entry)]

JointInv == LedgerInv /\ WorkerTypeOK

Root == privateStateRoots[WorkerToken]
Sum(l) == Total([a \in Commitments |-> l.balances[a].amount])

(* Either the chain has settled all the ledger applied, or all but one task *)
(* x: the ledger is then longer, and its balances differ by that task.      *)
InStep ==
  /\ Settled \subseteq ledger.applied
  /\ \/ /\ Unsettled = {} /\ ledger.root = Root
        /\ Sum(ledger) = privateLiabilities[WorkerToken]
     \/ \E x \in Tasks :
          /\ Unsettled = {x} /\ Len(Root) < Len(ledger.root)
          /\ Sum(ledger) = privateLiabilities[WorkerToken] + SignedAmount(x)

(* The root a worker is about to require is not newer than the chain's.  A  *)
(* settlement it is about to send is the next of the chain, or stale.       *)
InFlight(m) ==
  /\ m.pc = "commit" => Len(m.old) <= Len(Root)
  /\ m.pc \in {"digest", "send"} /\ m.task.kind # "opening" =>
       \/ m.old = Root /\ m.new = ledger.root /\ Unsettled = {m.task}
       \/ Len(m.old) < Len(Root)

StepInv == InStep /\ \A w \in Workers : InFlight(worker[w])

(* The task that watch holds is the one under its cursor.                   *)
CursorInv ==
  /\ \A k \in 1..4 : cursors[k] <= Len(taskIds[k])
  /\ \A k \in 1..4 : \A i \in 1..Len(taskIds[k]) : status[taskIds[k][i]] # "None"
  /\ CursorPassesNoPending
  /\ worker[watch].pc \in TaskPcs =>
       LET kind == worker[watch].kind IN
       /\ cursors[kind] < Len(taskIds[kind])
       /\ worker[watch].task = taskIds[kind][cursors[kind] + 1]
  /\ At(watch, "advance") => ~Pending(worker[watch].task)

(* A record of version 0 is no record, and a next node has records only of  *)
(* accounts that the ledger has.  While the one daemon rotates, what it     *)
(* read and what it installed are the ledger.                               *)
SnapshotInv ==
  /\ \A a \in Commitments :
       ledger.balances[a].version = 0 => ledger.balances[a] = L!NoRecord
  /\ \A n \in NextNodes, a \in Commitments :
       LET record == snapshots[n].balances[a] IN
       /\ record.version = 0 => record = L!NoRecord
       /\ record.version > 0 => ledger.balances[a].version > 0
  /\ worker[watch].pc \in {"rest", "records"} => worker[watch].installed = {}
  /\ worker[watch].pc \in RotationPcs => ~rotated /\ worker[watch].new = ledger.root
  /\ worker[watch].pc \in {"install", "finalize"} =>
       /\ worker[watch].records = ledger.balances
       /\ \A n \in worker[watch].installed :
            snapshots[n].root = ledger.root /\ snapshots[n].balances = ledger.balances
  /\ At(watch, "finalize") => worker[watch].installed = NextNodes

-----------------------------------------------------------------------------
(* The ledger *)

(* One record written: the root grows by it, and the sum moves to it.       *)
LEMMA WriteFacts ==
  ASSUME NEW l \in Ledger, NEW a \in Commitments, NEW amount \in Nat
  PROVE  LET record == [amount |-> amount, version |-> l.balances[a].version + 1] IN
         /\ L!Write(l, a, amount) \in Ledger
         /\ L!Write(l, a, amount).balances = [l.balances EXCEPT ![a] = record]
         /\ L!Write(l, a, amount).applied = l.applied
         /\ Len(L!Write(l, a, amount).root) = Len(l.root) + 1
         /\ Sum(L!Write(l, a, amount)) = Sum(l) - l.balances[a].amount + amount
<1> DEFINE record == [amount |-> amount, version |-> l.balances[a].version + 1]
           entry == [account |-> a, amount |-> amount, version |-> record.version]
           w == L!Write(l, a, amount)
           f == [x \in Commitments |-> l.balances[x].amount]
<1>1. record \in Record /\ entry \in Entry
  BY DEF Ledger, Record, Entry
<1>2. w = [l EXCEPT !.root = Append(@, entry), !.balances[a] = record]
  BY DEF L!Write
<1>3. /\ w.root = Append(l.root, entry) /\ w.applied = l.applied
      /\ w.balances = [l.balances EXCEPT ![a] = record]
  BY <1>2 DEF Ledger
<1>4. w \in Ledger /\ Len(w.root) = Len(l.root) + 1
  <2> HIDE DEF record, entry
  <2>1. Append(l.root, entry) \in Seq(Entry) /\ Len(Append(l.root, entry)) = Len(l.root) + 1
    BY <1>1 DEF Ledger
  <2>2. QED
    BY <1>1, <1>2, <1>3, <2>1 DEF Ledger
<1>5. Sum(w) = Sum(l) - l.balances[a].amount + amount
  <2>1. f \in [Commitments -> Nat] /\ f[a] = l.balances[a].amount
    BY DEF Ledger, Record
  <2>2. Total([f EXCEPT ![a] = amount]) = Total(f) - f[a] + amount
    <3> HIDE DEF f
    <3> QED BY <2>1, TotalUpdate, WorkerAssumption
  <2>3. [x \in Commitments |-> w.balances[x].amount] = [f EXCEPT ![a] = amount]
    <3>1. \A x \in Commitments : w.balances[x] = IF x = a THEN record ELSE l.balances[x]
      <4> HIDE DEF record, w
      <4> QED BY <1>3 DEF Ledger
    <3>2. \A x \in Commitments : w.balances[x].amount = IF x = a THEN amount ELSE f[x]
      <4> HIDE DEF w
      <4> QED BY <3>1
    <3> HIDE DEF w, f, record
    <3>3. QED
      BY <2>1, <3>2
  <2>4. QED
    BY <2>1, <2>2, <2>3 DEF Sum
<1>6. QED
  BY <1>3, <1>4, <1>5

LEMMA SumTyped == ASSUME NEW l \in Ledger PROVE Sum(l) \in Nat
<1>1. [a \in Commitments |-> l.balances[a].amount] \in [Commitments -> Nat]
  BY DEF Ledger, Record
<1>2. QED
  BY <1>1, UnitsFinite, WorkerAssumption DEF Sum

(* An accepted task is marked, lengthens the root and moves the sum by what *)
(* the contract will add to its liabilities; a transfer moves nothing.      *)
LEMMA AppliedFacts ==
  ASSUME ledger \in Ledger, NEW task \in Tasks, task.kind # "opening",
         NEW old, Accepts(task, old)
  PROVE  /\ old = ledger.root /\ task \notin ledger.applied
         /\ Applied(task) \in Ledger
         /\ Applied(task).applied = ledger.applied \cup {task}
         /\ Len(ledger.root) < Len(Applied(task).root)
         /\ Sum(Applied(task)) = Sum(ledger) + SignedAmount(task)
         /\ \A a \in Commitments :
              \/ Applied(task).balances[a] = ledger.balances[a]
              \/ Applied(task).balances[a].version > ledger.balances[a].version
<1> DEFINE from == ledger.balances[task.account].amount
           marked(l) == L!Mark(l, task)
<1>1. /\ task.kind \in {"deposit", "transfer", "withdrawal"} /\ task.amount \in Nat
      /\ task.account \in Commitments /\ from \in Nat
      /\ \A a \in Commitments : ledger.balances[a] \in Record
  BY TaskFacts DEF Ledger, Record
<1>2. L!Admissible(ledger, task, task.amount, old)
  BY <1>1 DEF Accepts, L!MayCredit, L!MayDebit, L!MayTransfer
<1>3. old = ledger.root /\ task \notin ledger.applied
  BY <1>2 DEF L!Admissible
<1>4. ASSUME NEW l \in Ledger
      PROVE  /\ marked(l) \in Ledger /\ marked(l).applied = l.applied \cup {task}
             /\ marked(l).root = l.root /\ marked(l).balances = l.balances
             /\ Sum(marked(l)) = Sum(l)
  BY DEF L!Mark, Ledger, Sum
<1>5. ASSUME task.kind \in {"deposit", "withdrawal"}
      PROVE  \E amount \in Nat : /\ Applied(task) = marked(L!Write(ledger, task.account, amount))
                                 /\ amount = from + SignedAmount(task)
  <2>1. CASE task.kind = "deposit"
    BY <1>1, <2>1 DEF Applied, L!Credit, SignedAmount
  <2>2. CASE task.kind = "withdrawal"
    <3>1. from >= task.amount
      BY <2>2 DEF Accepts, L!MayDebit
    <3>2. from - task.amount \in Nat /\ from - task.amount = from + (0 - task.amount)
      BY <1>1, <3>1
    <3>3. Applied(task) = marked(L!Write(ledger, task.account, from - task.amount))
      BY <2>2 DEF Applied, L!Debit
    <3>4. QED
      BY <2>2, <3>2, <3>3 DEF SignedAmount
  <2>3. QED
    BY <1>5, <2>1, <2>2
<1>6. CASE task.kind \in {"deposit", "withdrawal"}
  <2>1. PICK amount \in Nat : /\ Applied(task) = marked(L!Write(ledger, task.account, amount))
                             /\ amount = from + SignedAmount(task)
    BY <1>5, <1>6
  <2> DEFINE w == L!Write(ledger, task.account, amount)
  <2>2. /\ w \in Ledger /\ w.applied = ledger.applied /\ Len(w.root) = Len(ledger.root) + 1
        /\ w.balances = [ledger.balances EXCEPT ![task.account] =
             [amount |-> amount, version |-> ledger.balances[task.account].version + 1]]
        /\ Sum(w) = Sum(ledger) - from + amount
    BY <1>1, WriteFacts
  <2> HIDE DEF w
  <2>3. /\ marked(w) \in Ledger /\ marked(w).applied = w.applied \cup {task}
        /\ marked(w).root = w.root /\ marked(w).balances = w.balances /\ Sum(marked(w)) = Sum(w)
    BY <1>4, <2>2
  <2>4. SignedAmount(task) \in Int /\ Sum(ledger) \in Nat
    BY <1>1, SumTyped DEF SignedAmount
  <2>5. Applied(task) = marked(w)
    BY <2>1 DEF w
  <2>6. Len(ledger.root) < Len(Applied(task).root)
    BY <2>2, <2>3, <2>5 DEF Ledger
  <2>7. Sum(Applied(task)) = Sum(ledger) + SignedAmount(task)
    BY SMTT(20), <1>1, <2>1, <2>2, <2>3, <2>4, <2>5
  <2>8. \A a \in Commitments :
          \/ Applied(task).balances[a] = ledger.balances[a]
          \/ Applied(task).balances[a].version > ledger.balances[a].version
    BY SMTT(20), <1>1, <2>2, <2>3, <2>5 DEF Ledger, Record
  <2>9. QED
    BY <1>3, <2>2, <2>3, <2>5, <2>6, <2>7, <2>8
<1>7. CASE task.kind = "transfer"
  <2> DEFINE b == task.receiver
             to == ledger.balances[b].amount
  <2>1. b \in Commitments /\ b # task.account /\ to \in Nat
    BY <1>1, <1>7, TasksAssumption DEF Record
  <2>2. from - task.amount \in Nat /\ to + task.amount \in Nat
    BY <1>1, <1>7, <2>1 DEF Accepts, L!MayTransfer
  <2>3. PICK w \in Ledger :
          /\ w = L!Write(ledger, task.account, from - task.amount)
          /\ w.applied = ledger.applied /\ Len(w.root) = Len(ledger.root) + 1
          /\ w.balances = [ledger.balances EXCEPT ![task.account] =
               [amount |-> from - task.amount,
                version |-> ledger.balances[task.account].version + 1]]
          /\ Sum(w) = Sum(ledger) - from + (from - task.amount)
    BY <1>1, <2>2, WriteFacts
  <2>4. w.balances[b] = ledger.balances[b]
    BY <2>1, <2>3 DEF Ledger
  <2>5. PICK v \in Ledger :
          /\ v = L!Write(w, b, to + task.amount)
          /\ v.applied = w.applied /\ Len(v.root) = Len(w.root) + 1
          /\ v.balances = [w.balances EXCEPT ![b] =
               [amount |-> to + task.amount, version |-> w.balances[b].version + 1]]
          /\ Sum(v) = Sum(w) - to + (to + task.amount)
    BY <2>1, <2>2, <2>4, WriteFacts
  <2>6. /\ marked(v) \in Ledger /\ marked(v).applied = v.applied \cup {task}
        /\ marked(v).root = v.root /\ marked(v).balances = v.balances /\ Sum(marked(v)) = Sum(v)
    BY <1>4, <2>5
  <2>7. Applied(task) = marked(v)
    BY <1>7, <2>3, <2>5 DEF Applied, L!Transfer
  <2>8. SignedAmount(task) = 0 /\ Sum(ledger) \in Nat
    BY <1>7, SumTyped DEF SignedAmount
  <2>9. Len(ledger.root) < Len(Applied(task).root)
    <3>1. Applied(task).root = v.root
      BY <2>6, <2>7
    <3>2. Len(ledger.root) \in Nat
      BY DEF Ledger
    <3>3. QED
      BY SMTT(20), <2>3, <2>5, <3>1, <3>2
  <2>10. Sum(Applied(task)) = Sum(ledger) + SignedAmount(task)
    <3>1. Sum(w) = Sum(ledger) - task.amount
      <4> HIDE DEF from
      <4> QED BY <1>1, <2>3, <2>8
    <3>2. Sum(v) = Sum(w) + task.amount
      <4> HIDE DEF to
      <4> QED BY <1>1, <2>1, <2>5, <2>8, <3>1
    <3>3. Sum(Applied(task)) = Sum(v)
      BY <2>6, <2>7
    <3>4. QED
      BY <1>1, <2>8, <3>1, <3>2, <3>3
  <2>11. \A a \in Commitments :
           \/ Applied(task).balances[a] = ledger.balances[a]
           \/ Applied(task).balances[a].version > ledger.balances[a].version
    <3> DEFINE bal == Applied(task).balances
               from1 == [amount |-> from - task.amount,
                         version |-> ledger.balances[task.account].version + 1]
               to1 == [amount |-> to + task.amount, version |-> w.balances[b].version + 1]
    <3>1. bal = [[ledger.balances EXCEPT ![task.account] = from1] EXCEPT ![b] = to1]
      BY <2>3, <2>5, <2>6, <2>7
    <3>2. from1.version > ledger.balances[task.account].version
          /\ to1.version > ledger.balances[b].version
      BY <1>1, <2>1, <2>4 DEF Record
    <3>3. ledger.balances \in [Commitments -> Record]
      BY DEF Ledger
    <3> HIDE DEF bal, from1, to1, b
    <3>4. \A a \in Commitments :
            bal[a] = IF a = b THEN to1 ELSE IF a = task.account THEN from1 ELSE ledger.balances[a]
      BY <3>1, <3>3
    <3>5. QED
      BY <3>2, <3>4 DEF bal
  <2>12. QED
    BY <1>3, <2>3, <2>5, <2>6, <2>7, <2>9, <2>10, <2>11
<1>8. QED
  BY <1>1, <1>6, <1>7

-----------------------------------------------------------------------------
(* Types, and the contract inside the system *)

(* A worker at rest, and one that took a step alone.                        *)
LEMMA IdleTyped ==
  /\ Idle \in WorkerState /\ Idle.pc = "idle" /\ Idle.installed = {}
  /\ Idle.counts = <<0, 0, 0, 0>>
  /\ [Idle EXCEPT !.pc = "rest"] \in WorkerState
<1>1. <<0, 0, 0, 0>> \in [1..4 -> Nat]
  OBVIOUS
<1>2. L!EmptyLedger.balances \in [Commitments -> Record]
  BY DEF L!EmptyLedger, L!NoRecord, Record
<1>3. <<>> \in Seq(Entry) /\ {} \in SUBSET NextNodes
  OBVIOUS
<1>4. Idle \in WorkerState
  <2> HIDE DEF Entry, Record
  <2>1. QED
    BY <1>1, <1>2, <1>3 DEF Idle, WorkerState
<1>5. Idle.pc = "idle" /\ Idle.installed = {} /\ Idle.counts = <<0, 0, 0, 0>>
  BY DEF Idle
<1>6. QED
  BY <1>4, <1>5 DEF WorkerState

LEMMA OneWorkerSteps ==
  ASSUME WorkerTypeOK, NEW w \in Workers, NEW m, MemoryOK(m),
         worker' = [worker EXCEPT ![w] = m], UNCHANGED taskIds
  PROVE  worker' \in [Workers -> WorkerState] /\ \A v \in Workers : MemoryOK(worker[v])'
BY DEF WorkerTypeOK, MemoryOK

(* An error or a restart leaves the worker without a task.                  *)
LEMMA StopFacts ==
  ASSUME WorkerTypeOK, NEW w \in Workers, Stop(w) \/ Exit(w)
  PROVE  \E m : /\ MemoryOK(m) /\ worker' = [worker EXCEPT ![w] = m]
                /\ m.pc \in {"idle", "rest"} /\ m.installed = {}
<1> DEFINE rest == [Idle EXCEPT !.pc = "rest"]
<1>1. Idle \in WorkerState /\ rest \in WorkerState /\ Idle.pc = "idle" /\ Idle.installed = {}
      /\ Idle.counts = <<0, 0, 0, 0>>
  BY IdleTyped
<1>2. rest.pc = "rest" /\ rest.installed = {} /\ rest.counts = <<0, 0, 0, 0>>
  BY <1>1 DEF WorkerState
<1>3. \A k \in 1..4 : Len(taskIds[k]) \in Nat
  BY DEF WorkerTypeOK
<1>4. \A k \in 1..4 : <<0, 0, 0, 0>>[k] <= Len(taskIds[k])
  BY <1>3
<1>5. MemoryOK(Idle) /\ MemoryOK(rest)
  BY <1>1, <1>2, <1>4 DEF MemoryOK, TaskPcs
<1> HIDE DEF rest
<1>6. worker' = [worker EXCEPT ![w] = Idle] \/ worker' = [worker EXCEPT ![w] = rest]
  BY DEF Stop, Exit, rest
<1>7. QED
  BY <1>1, <1>2, <1>5, <1>6

(* What the contract does with a settlement it accepts.                     *)
LEMMA SettleFacts ==
  ASSUME WorkerTypeOK, TypeOK, NEW w \in Workers, At(w, "send"), Settle(w)
  PROVE  LET m == worker[w] IN
         /\ m.task \in Tasks /\ Pending(m.task)
         /\ status' = [status EXCEPT ![m.task] = "Finalized"]
         /\ m.task.kind = "opening" => UNCHANGED <<privateStateRoots, privateLiabilities>>
         /\ m.task.kind # "opening" =>
              /\ m.old = privateStateRoots[m.task.token]
              /\ privateStateRoots' = [privateStateRoots EXCEPT ![m.task.token] = m.new]
              /\ privateLiabilities' = [privateLiabilities EXCEPT
                   ![m.task.token] = @ + SignedAmount(m.task)]
         /\ SettleNext(Admin, m.committee, Signers) \/ ~LedgerRoots
         /\ m.committee \in CommitteeIds
<1> DEFINE m == worker[w]
           task == m.task
<1>1. /\ task \in Tasks /\ m \in WorkerState
      /\ m.old \in Seq(Entry) /\ m.new \in Seq(Entry)
  BY DEF WorkerTypeOK, MemoryOK, TaskPcs, At, WorkerState
<1>2. task.token \in Tokens /\ task.amount \in Nat
      /\ privateLiabilities \in [Tokens -> Nat]
      /\ privateStateRoots \in [Tokens -> Seq(Entry)]
      /\ activeCommitteeId \in CommitteeIds
  BY <1>1, TaskFacts DEF TypeOK, WorkerTypeOK
<1>3. CASE FinalizeDeposit(Admin, task, m.old, m.new, m.committee, Signers)
  <2>1. SignedAmount(task) = task.amount
    BY <1>3 DEF FinalizeDeposit, SignedAmount
  <2>2. SettleNext(Admin, m.committee, Signers) \/ ~LedgerRoots
    BY <1>1, <1>3 DEF SettleNext, LedgerRoots
  <2>3. QED
    BY <1>1, <1>2, <1>3, <2>1, <2>2 DEF FinalizeDeposit, ChainRoots, VerifyThreshold
<1>4. CASE FinalizeConfidentialTransfer(Admin, task, m.old, m.new, m.committee, Signers)
  <2>1. SignedAmount(task) = 0
    BY <1>4 DEF FinalizeConfidentialTransfer, SignedAmount
  <2>2. SettleNext(Admin, m.committee, Signers) \/ ~LedgerRoots
    BY <1>1, <1>4 DEF SettleNext, LedgerRoots
  <2>3. privateLiabilities' = [privateLiabilities EXCEPT ![task.token] = @ + 0]
    BY <1>2, <1>4 DEF FinalizeConfidentialTransfer
  <2>4. QED
    BY <1>1, <1>2, <1>4, <2>1, <2>2, <2>3
       DEF FinalizeConfidentialTransfer, ChainRoots, VerifyThreshold
<1>5. CASE FinalizeWithdrawal(Admin, task, WithdrawalNullifier(task),
                              m.old, m.new, m.committee, Signers)
  <2>0. task.kind = "withdrawal" => WithdrawalNullifier(task) \in Nullifiers
    BY <1>1, WorkerAssumption DEF WithdrawalNullifier, TasksOf
  <2>1. SignedAmount(task) = 0 - task.amount
    BY <1>5 DEF FinalizeWithdrawal, SignedAmount
  <2>2. SettleNext(Admin, m.committee, Signers) \/ ~LedgerRoots
    <3>1. task.kind = "withdrawal"
      BY <1>5 DEF FinalizeWithdrawal
    <3>2. QED
      BY <1>1, <1>5, <2>0, <3>1 DEF SettleNext, LedgerRoots
  <2>3. privateLiabilities' = [privateLiabilities EXCEPT ![task.token] = @ - task.amount]
    BY <1>5 DEF FinalizeWithdrawal, Payout
  <2>4. privateLiabilities' = [privateLiabilities EXCEPT ![task.token] = @ + (0 - task.amount)]
    <3>1. \A n \in Nat, amount \in Nat : n - amount = n + (0 - amount)
      OBVIOUS
    <3>2. privateLiabilities[task.token] - task.amount
            = privateLiabilities[task.token] + (0 - task.amount)
      BY <1>2, <3>1
    <3>3. QED
      BY <2>3, <3>2
  <2>5. QED
    BY <1>1, <1>2, <1>5, <2>1, <2>2, <2>4 DEF FinalizeWithdrawal, ChainRoots, VerifyThreshold
<1>6. CASE FulfillBalanceOpening(Admin, task, m.committee, Signers)
  <2>1. SettleNext(Admin, m.committee, Signers)
    BY <1>1, <1>6 DEF SettleNext
  <2>2. /\ task.kind = "opening" /\ Pending(task) /\ m.committee \in CommitteeIds
        /\ status' = [status EXCEPT ![task] = "Finalized"]
        /\ UNCHANGED <<privateStateRoots, privateLiabilities>>
    BY <1>2, <1>6 DEF FulfillBalanceOpening, ledgerVars, VerifyThreshold
  <2>3. QED
    BY <1>1, <2>1, <2>2
<1>7. QED
  BY <1>3, <1>4, <1>5, <1>6 DEF Settle

(* Steps of the daemons and of the rotation that leave the contract alone,  *)
(* and those of the contract that leave every daemon alone.                 *)
OwnStep(w) ==
  \/ StartCommand(w) \/ EndCommand(w) \/ ReadRoot(w) \/ CommitLedger(w) \/ ReadDigest(w)
  \/ SettlementReverts(w) \/ BeginRotation(w) \/ ReadRecords(w)
  \/ (\E n \in NextNodes : InstallSnapshot(w, n)) \/ HandoffReverts(w) \/ Crash(w)
SettleStep(w) == SendSettlement(w) \/ LostReply(w)
HandoffStep(w) == AnnounceHandoff(w) \/ CompleteHandoff(w)

LEMMA WorkerNextCases ==
  ASSUME WorkerNext
  PROVE  \/ PassNext
         \/ \E w \in Workers : OwnStep(w) \/ SettleStep(w) \/ HandoffStep(w)
         \/ \E task \in Tasks : RequestTask(task)
         \/ OtherChainStep
BY DEF WorkerNext, TaskNext, RotationNext, OwnStep, SettleStep, HandoffStep

(* Every step of the system is one of the contract, or none.                *)
LEMMA ContractStep ==
  ASSUME LedgerRoots, TypeOK, WorkerTypeOK, [WorkerNext]_allVars
  PROVE  [Next]_vars
<1>1. Admin \in Accounts /\ 0 \in GasValues /\ Signers \in SUBSET Nodes
      /\ NextSigners \in SUBSET Nodes /\ NextCommittee \in CommitteeIds
  BY SwapAssumption, WorkerAssumption
<1>2. CASE PassNext
  BY <1>2 DEF PassNext, Poll, NextTask, AdvanceCursor, OpenBalance, Sleep
<1>3. ASSUME NEW w \in Workers, OwnStep(w) PROVE UNCHANGED vars
  BY <1>3 DEF OwnStep, StartCommand, EndCommand, ReadRoot, CommitLedger, ReadDigest,
     SettlementReverts, BeginRotation, ReadRecords, InstallSnapshot, HandoffReverts, Crash
<1>4. ASSUME NEW w \in Workers, SettleStep(w) PROVE Next
  <2>1. At(w, "send") /\ Settle(w)
    BY <1>4 DEF SettleStep, SendSettlement, LostReply
  <2>2. SettleNext(Admin, worker[w].committee, Signers) /\ worker[w].committee \in CommitteeIds
    BY <2>1, SettleFacts
  <2>3. QED
    BY <1>1, <2>2 DEF Next
<1>5. ASSUME NEW w \in Workers, HandoffStep(w) PROVE Next \/ UNCHANGED vars
  <2>1. CASE BeginCommitteeHandoff(Admin, NextCommittee)
    BY <1>1, <2>1 DEF Next, AdminNext
  <2>2. CASE FinalizeCommitteeHandoff(Signers, NextSigners)
    BY <1>1, <2>2 DEF Next
  <2>3. QED
    BY <1>5, <2>1, <2>2 DEF HandoffStep, AnnounceHandoff, CompleteHandoff
<1>6. ASSUME NEW task \in Tasks, RequestTask(task) PROVE Next
  BY <1>1, <1>6 DEF RequestTask, Next, RequestNext
<1>7. ASSUME OtherChainStep PROVE Next
  <2>1. CASE \E sender \in Accounts, account \in Commitments :
               RegisterConfidentialAccount(sender, account)
    BY <2>1 DEF Next, AccountNext
  <2>2. CASE \E task \in Tasks :
               CancelDeposit(task.requester, task) \/ CancelWithdrawal(task.requester, task)
    BY <2>2, TaskFacts DEF Next, AccountNext
  <2>3. CASE \/ \E nextPaused \in BOOLEAN : SetPaused(Admin, nextPaused)
             \/ \E k \in CommitteeIds : SetActiveCommittee(Admin, k)
             \/ \E t \in Tokens, config \in Configs : ConfigureToken(Admin, t, config)
    BY <1>1, <2>3 DEF Next, AdminNext
  <2>4. CASE Tick
    BY <2>4 DEF Next, ChainNext
  <2>5. QED
    BY <1>7, <2>1, <2>2, <2>3, <2>4 DEF OtherChainStep
<1>8. CASE UNCHANGED allVars
  BY <1>8 DEF allVars
<1>9. QED
  BY <1>2, <1>3, <1>4, <1>5, <1>6, <1>7, <1>8, WorkerNextCases

LEMMA WorkerTypeInit == WorkerInit => WorkerTypeOK
<1> SUFFICES ASSUME WorkerInit PROVE WorkerTypeOK
  OBVIOUS
<1>1. L!EmptyLedger \in Ledger
  BY DEF L!EmptyLedger, L!NoRecord, L!EmptyRoot, Ledger, Record
<1>2. privateStateRoots \in [Tokens -> Seq(Entry)]
  BY WorkerAssumption DEF WorkerInit, Init, L!EmptyRoot
<1>4. /\ taskIds \in [1..4 -> Seq(Tasks)] /\ cursors \in [1..4 -> Nat] /\ ledger \in Ledger
      /\ rotated \in BOOLEAN /\ snapshots \in [NextNodes -> Ledger] /\ faults \in Nat
  <2> HIDE DEF Ledger
  <2>1. taskIds \in [1..4 -> Seq(Tasks)] /\ cursors \in [1..4 -> Nat]
    <3>1. <<>> \in Seq(Tasks) /\ 0 \in Nat
      OBVIOUS
    <3>2. QED
      BY <3>1 DEF WorkerInit
  <2>2. ledger \in Ledger /\ snapshots \in [NextNodes -> Ledger]
    BY <1>1 DEF WorkerInit
  <2>3. QED
    BY <2>1, <2>2 DEF WorkerInit
<1>5. /\ worker \in [Workers -> WorkerState] /\ \A w \in Workers : MemoryOK(worker[w])
  <2>1. Idle \in WorkerState /\ Idle.pc = "idle" /\ Idle.counts = <<0, 0, 0, 0>>
    BY IdleTyped
  <2>2. \A k \in 1..4 : <<0, 0, 0, 0>>[k] <= Len(taskIds[k])
    BY DEF WorkerInit
  <2>3. MemoryOK(Idle)
    BY <2>1, <2>2 DEF MemoryOK, TaskPcs
  <2>4. QED
    BY <2>1, <2>3 DEF WorkerInit
<1>6. QED
  BY <1>2, <1>4, <1>5 DEF WorkerTypeOK

(* What the steps other than settlements do to what the ledger follows.     *)
LEMMA ChainFrame ==
  ASSUME PassNext \/ \E w \in Workers : OwnStep(w) \/ HandoffStep(w)
  PROVE  UNCHANGED <<privateStateRoots, privateLiabilities, status>>
<1>1. CASE PassNext
  BY <1>1 DEF PassNext, Poll, NextTask, AdvanceCursor, OpenBalance, Sleep, vars
<1>2. ASSUME NEW w \in Workers, OwnStep(w)
      PROVE  UNCHANGED <<privateStateRoots, privateLiabilities, status>>
  BY <1>2 DEF OwnStep, StartCommand, EndCommand, ReadRoot, CommitLedger, ReadDigest,
     SettlementReverts, BeginRotation, ReadRecords, InstallSnapshot, HandoffReverts, Crash, vars
<1>3. ASSUME NEW w \in Workers, HandoffStep(w)
      PROVE  UNCHANGED <<privateStateRoots, privateLiabilities, status>>
  BY <1>3 DEF HandoffStep, AnnounceHandoff, CompleteHandoff, BeginCommitteeHandoff,
     FinalizeCommitteeHandoff, vars, ledgerVars, requestVars
<1>4. QED
  BY <1>1, <1>2, <1>3

LEMMA RequestFacts ==
  ASSUME LedgerInv, NEW task \in Tasks, RequestTask(task)
  PROVE  /\ UNCHANGED <<privateStateRoots, privateLiabilities>>
         /\ status[task] = "None" /\ status' = [status EXCEPT ![task] = "Pending"]
         /\ UNCHANGED <<ledger, cursors, worker, rotated, snapshots, faults>>
         /\ \E k \in 1..4 : taskIds' = [taskIds EXCEPT ![k] = Append(@, task)]
<1>1. Request(task, 0) /\ UNCHANGED <<privateStateRoots, privateLiabilities>>
  BY DEF RequestTask, Deposit, RequestWithdrawal, RequestConfidentialTransfer,
     RequestBalanceOpening, ledgerVars
<1>2. status[task] \in Statuses /\ status' = [status EXCEPT ![task] = "Pending"]
  BY <1>1 DEF Request, LedgerInv, TypeOK
<1>3. status[task] = "None"
  BY <1>1 DEF Request, FreshNonce, LedgerInv, NoncesCoverTasks
<1>4. QED
  BY <1>1, <1>2, <1>3 DEF RequestTask

LEMMA OtherFacts ==
  ASSUME OtherChainStep
  PROVE  /\ UNCHANGED <<privateStateRoots, privateLiabilities, workerVars>>
         /\ \/ status' = status
            \/ \E task \in Tasks : /\ Pending(task)
                                  /\ status' = [status EXCEPT ![task] = "Cancelled"]
<1>1. CASE \E task \in Tasks :
             CancelDeposit(task.requester, task) \/ CancelWithdrawal(task.requester, task)
  BY <1>1 DEF OtherChainStep, CancelDeposit, CancelWithdrawal, Refundable, ledgerVars
<1>2. CASE \/ \E sender \in Accounts, account \in Commitments :
                RegisterConfidentialAccount(sender, account)
           \/ \E nextPaused \in BOOLEAN : SetPaused(Admin, nextPaused)
           \/ \E k \in CommitteeIds : SetActiveCommittee(Admin, k)
           \/ \E t \in Tokens, config \in Configs : ConfigureToken(Admin, t, config)
           \/ Tick
  BY <1>2 DEF OtherChainStep, RegisterConfidentialAccount, SetPaused, SetActiveCommittee,
     ConfigureToken, Tick, ledgerVars, requestVars
<1>3. QED
  BY <1>1, <1>2 DEF OtherChainStep

(* A pass of the loop keeps the types: the list it counted has not shrunk.  *)
LEMMA PassTypes ==
  ASSUME WorkerTypeOK, PassNext
  PROVE  WorkerTypeOK'
<1> DEFINE m == worker[watch]
<1>1. /\ watch \in Workers /\ m \in WorkerState /\ MemoryOK(m)
      /\ UNCHANGED <<taskIds, ledger, rotated, snapshots, faults, privateStateRoots>>
  BY WorkerAssumption, ChainFrame
     DEF WorkerTypeOK, PassNext, Poll, NextTask, AdvanceCursor, OpenBalance, Sleep
<1>2. cursors' \in [1..4 -> Nat]
  <2>1. CASE AdvanceCursor
    <3>1. m.kind \in 1..4
      BY <1>1 DEF WorkerState
    <3>2. cursors' = [cursors EXCEPT ![m.kind] = cursors[m.kind] + 1]
      BY <2>1 DEF AdvanceCursor
    <3>3. QED
      BY SMTT(20), <3>1, <3>2 DEF WorkerTypeOK
  <2>2. CASE ~AdvanceCursor
    BY <2>2 DEF WorkerTypeOK, PassNext, Poll, NextTask, OpenBalance, Sleep
  <2>3. QED
    BY <2>1, <2>2
<1>3. \E new : MemoryOK(new) /\ worker' = [worker EXCEPT ![watch] = new]
  <2>1. CASE Poll
    <3> DEFINE counts == [k \in 1..4 |-> Len(taskIds[k])]
               new == [Idle EXCEPT !.pc = "next", !.counts = counts]
    <3>1. counts \in [1..4 -> Nat] /\ \A k \in 1..4 : counts[k] <= Len(taskIds[k])
      BY DEF WorkerTypeOK
    <3>2. new \in WorkerState /\ new.pc = "next" /\ new.counts = counts
      <4> HIDE DEF counts
      <4> QED BY <3>1, IdleTyped DEF WorkerState
    <3>3. worker' = [worker EXCEPT ![watch] = new]
      BY <2>1 DEF Poll
    <3> HIDE DEF new, counts
    <3>4. QED
      BY <3>1, <3>2, <3>3 DEF MemoryOK, TaskPcs
  <2>2. CASE NextTask
    <3> DEFINE kind == m.kind
               index == cursors[kind] + 1
               task == taskIds[kind][index]
    <3>0. kind \in 1..4 /\ m.counts \in [1..4 -> Nat]
      BY <1>1 DEF WorkerState
    <3>1. kind \in 1..4 /\ m.counts[kind] \in Nat /\ index \in Nat /\ index >= 1
      <4>1. cursors[kind] \in Nat
        BY <3>0 DEF WorkerTypeOK
      <4>2. m.counts[kind] \in Nat
        BY <3>0
      <4> HIDE DEF kind
      <4>3. QED
        BY <3>0, <4>1, <4>2
    <3>2. CASE index <= m.counts[kind]
      <4>1. PICK pc \in {"advance", "open", "root"} :
              /\ worker' = [worker EXCEPT ![watch].task = task, ![watch].pc = pc]
              /\ pc = "root" => task.kind # "opening"
              /\ pc = "open" => task.kind = "opening"
        BY <2>2, <3>2 DEF NextTask
      <4>2. task \in Tasks
        <5>1. taskIds[kind] \in Seq(Tasks) /\ m.counts[kind] <= Len(taskIds[kind])
          BY <1>1, <3>1 DEF WorkerTypeOK, MemoryOK
        <5>2. index \in 1..Len(taskIds[kind])
          <6> HIDE DEF index, kind
          <6> QED BY <3>1, <3>2, <5>1
        <5> HIDE DEF index, kind
        <5>3. QED
          BY <5>1, <5>2
      <4> DEFINE new == [m EXCEPT !.task = task, !.pc = pc]
      <4>3. new \in WorkerState /\ new.pc = pc /\ new.task = task /\ new.counts = m.counts
        <5> HIDE DEF task
        <5> QED BY <1>1, <4>1, <4>2 DEF WorkerState, TaskPcs
      <4>4. worker' = [worker EXCEPT ![watch] = new]
        <5> HIDE DEF task
        <5> QED BY <1>1, <4>1 DEF WorkerState, WorkerTypeOK
      <4> HIDE DEF new, task
      <4>5. QED
        BY <1>1, <4>1, <4>2, <4>3, <4>4 DEF MemoryOK
    <3>3. CASE ~(index <= m.counts[kind]) /\ kind < 4
      <4> DEFINE new == [m EXCEPT !.kind = kind + 1]
      <4>1. worker' = [worker EXCEPT ![watch] = new] /\ At(watch, "next")
        BY <2>2, <3>3 DEF NextTask
      <4>2. new \in WorkerState /\ new.pc = "next" /\ new.counts = m.counts
        <5>1. kind + 1 \in 1..4
          BY <3>0, <3>3
        <5>2. m.pc = "next"
          BY <4>1 DEF At
        <5> HIDE DEF kind
        <5>3. QED
          BY <1>1, <5>1, <5>2 DEF WorkerState
      <4> HIDE DEF new
      <4>3. QED
        BY <1>1, <4>1, <4>2 DEF MemoryOK, TaskPcs
    <3>4. CASE ~(index <= m.counts[kind]) /\ ~(kind < 4)
      BY <1>1, <2>2, <3>4, StopFacts DEF NextTask
    <3>5. QED
      BY <3>2, <3>3, <3>4
  <2>3. CASE AdvanceCursor \/ Sleep \/ (OpenBalance /\ Goto(watch, "digest"))
    <3>1. PICK pc \in {"next", "idle", "digest"} :
            /\ worker' = [worker EXCEPT ![watch] = [m EXCEPT !.pc = pc]]
            /\ pc = "digest" => At(watch, "open")
      BY <2>3 DEF AdvanceCursor, Sleep, OpenBalance, Goto
    <3> DEFINE new == [m EXCEPT !.pc = pc]
    <3>2. new \in WorkerState /\ new.pc = pc /\ new.task = m.task /\ new.counts = m.counts
      BY <1>1, <3>1 DEF WorkerState, TaskPcs
    <3>3. worker' = [worker EXCEPT ![watch] = new]
      BY <3>1
    <3> HIDE DEF new
    <3>4. QED
      BY <1>1, <3>1, <3>2, <3>3 DEF MemoryOK, TaskPcs, At
  <2>4. CASE Stop(watch)
    BY <1>1, <2>4, StopFacts
  <2>5. QED
    BY <2>1, <2>2, <2>3, <2>4, <1>1, Zenon DEF PassNext, OpenBalance
<1>4. QED
  BY <1>1, <1>2, <1>3, OneWorkerSteps DEF WorkerTypeOK

(* A worker moved to another place with the same task.                      *)
LEMMA GotoTypes ==
  ASSUME WorkerTypeOK, NEW w \in Workers, NEW pc, Goto(w, pc),
         pc \in {"idle", "next", "rest", "digest", "send", "advance"} \cup RotationPcs,
         pc \in TaskPcs => worker[w].pc \in TaskPcs
  PROVE  \E new : MemoryOK(new) /\ worker' = [worker EXCEPT ![w] = new]
<1> DEFINE m == worker[w]
           new == [m EXCEPT !.pc = pc]
<1>1. m \in WorkerState /\ MemoryOK(m)
  BY DEF WorkerTypeOK
<1>2. new \in WorkerState /\ new.pc = pc /\ new.task = m.task /\ new.counts = m.counts
  BY <1>1 DEF WorkerState, TaskPcs
<1>3. worker' = [worker EXCEPT ![w] = new]
  BY DEF Goto
<1> HIDE DEF new
<1>4. MemoryOK(new)
  BY <1>1, <1>2 DEF MemoryOK, RotationPcs, TaskPcs
<1>5. QED
  BY <1>3, <1>4

LEMMA OwnTypes ==
  ASSUME WorkerTypeOK, TypeOK, NEW w \in Workers, OwnStep(w)
  PROVE  WorkerTypeOK'
<1> DEFINE m == worker[w]
           Moved == \E new : MemoryOK(new) /\ worker' = [worker EXCEPT ![w] = new]
<1>1. m \in WorkerState /\ MemoryOK(m)
  BY DEF WorkerTypeOK
<1>2. privateStateRoots' = privateStateRoots
  BY ChainFrame
<1>3. CASE CommitLedger(w)
  <2>1. m.task \in Tasks /\ m.task.kind # "opening" /\ ledger \in Ledger
    BY <1>1, <1>3 DEF CommitLedger, At, MemoryOK, TaskPcs, WorkerTypeOK
  <2>2. ledger' \in Ledger /\ Moved
    <3>1. CASE Accepts(m.task, m.old)
      <4>1. ledger' = Applied(m.task) /\ ledger' \in Ledger
        BY <1>3, <2>1, <3>1, AppliedFacts DEF CommitLedger
      <4> DEFINE root == ledger'.root
                 new == [m EXCEPT !.pc = "digest", !.new = root]
      <4>2. root \in Seq(Entry)
        BY <4>1 DEF Ledger
      <4>3. worker' = [worker EXCEPT ![w].pc = "digest", ![w].new = root]
        BY <1>3, <3>1 DEF CommitLedger
      <4> HIDE DEF root
      <4>4. worker' = [worker EXCEPT ![w] = new]
        BY <1>1, <4>3 DEF WorkerTypeOK, WorkerState
      <4>5. new \in WorkerState /\ new.pc = "digest" /\ new.task = m.task /\ new.counts = m.counts
        BY <1>1, <4>2 DEF WorkerState, TaskPcs
      <4> HIDE DEF new
      <4>6. MemoryOK(new)
        BY <1>1, <2>1, <4>5 DEF MemoryOK
      <4>7. QED
        BY <4>1, <4>4, <4>6
    <3>2. CASE ~Accepts(m.task, m.old)
      BY <1>3, <2>1, <3>2, StopFacts DEF CommitLedger
    <3>3. QED
      BY <3>1, <3>2
  <2>3. UNCHANGED <<taskIds, cursors, rotated, snapshots, faults>>
    BY <1>3 DEF CommitLedger
  <2>4. QED
    BY <1>2, <2>2, <2>3, OneWorkerSteps DEF WorkerTypeOK
<1>4. CASE \E n \in NextNodes : InstallSnapshot(w, n)
  <2>1. PICK n \in NextNodes : InstallSnapshot(w, n)
    BY <1>4
  <2> DEFINE balances == [a \in Commitments |->
               IF m.records[a].version > 0 THEN m.records[a] ELSE snapshots[n].balances[a]]
             snapshot == [snapshots[n] EXCEPT !.root = m.new, !.balances = balances]
             new == [m EXCEPT !.installed = m.installed \cup {n}]
  <2>2. /\ m.records \in [Commitments -> Record] /\ m.new \in Seq(Entry)
        /\ snapshots[n] \in Ledger /\ m.installed \in SUBSET NextNodes
    BY <1>1 DEF WorkerState, WorkerTypeOK
  <2>3. balances \in [Commitments -> Record]
    BY <2>2 DEF Ledger
  <2>4. snapshots' = [snapshots EXCEPT ![n] = snapshot]
    BY <2>1 DEF InstallSnapshot
  <2>5. snapshot \in Ledger
    <3> HIDE DEF balances
    <3> QED BY <2>2, <2>3 DEF Ledger
  <2>6. snapshots' \in [NextNodes -> Ledger]
    <3> HIDE DEF snapshot
    <3> QED BY <2>4, <2>5 DEF WorkerTypeOK
  <2>7. worker' = [worker EXCEPT ![w] = new] /\ m.pc = "install"
    BY <2>1 DEF InstallSnapshot, At
  <2>8. new \in WorkerState /\ new.pc = m.pc /\ new.task = m.task /\ new.counts = m.counts
    BY <1>1, <2>2 DEF WorkerState
  <2> HIDE DEF new
  <2>9. MemoryOK(new)
    BY <1>1, <2>7, <2>8 DEF MemoryOK
  <2> HIDE DEF balances, snapshot
  <2>10. UNCHANGED <<taskIds, ledger, cursors, rotated, faults>>
    BY <2>1, Zenon DEF InstallSnapshot
  <2>11. QED
    BY <1>2, <2>6, <2>7, <2>9, <2>10, OneWorkerSteps DEF WorkerTypeOK
<1>5. CASE Crash(w)
  <2>1. Moved
    BY <1>5, StopFacts DEF Crash
  <2>2. faults' \in Nat
    BY <1>5 DEF Crash, WorkerTypeOK
  <2>3. rotated' \in BOOLEAN
    <3>1. rotated' = FALSE \/ rotated' = rotated
      BY <1>5, Zenon DEF Crash
    <3>2. QED
      BY <3>1, Zenon DEF WorkerTypeOK
  <2>4. UNCHANGED <<taskIds, ledger, cursors, snapshots>>
    BY <1>5 DEF Crash
  <2>5. QED
    BY <1>2, <2>1, <2>2, <2>3, <2>4, OneWorkerSteps DEF WorkerTypeOK
<1>6. CASE \/ StartCommand(w) \/ EndCommand(w) \/ ReadRoot(w) \/ ReadDigest(w)
           \/ SettlementReverts(w) \/ BeginRotation(w) \/ ReadRecords(w) \/ HandoffReverts(w)
  <2>1. UNCHANGED <<taskIds, ledger, cursors, rotated, snapshots, faults>>
    BY <1>6 DEF StartCommand, EndCommand, ReadRoot, ReadDigest, SettlementReverts,
       BeginRotation, ReadRecords, HandoffReverts
  <2>2. ASSUME EndCommand(w) \/ SettlementReverts(w) \/ HandoffReverts(w) PROVE Moved
    <3>1. Stop(w) \/ Exit(w)
      BY <2>2 DEF EndCommand, SettlementReverts, HandoffReverts
    <3>2. QED
      BY <3>1, StopFacts
  <2>3. ASSUME StartCommand(w) PROVE Moved
    <3>1. PICK task \in Tasks : /\ task.kind # "opening"
                               /\ worker' = [worker EXCEPT ![w].task = task, ![w].pc = "root"]
      BY <2>3 DEF StartCommand
    <3> DEFINE new == [m EXCEPT !.task = task, !.pc = "root"]
    <3>2. worker' = [worker EXCEPT ![w] = new]
      BY <1>1, <3>1 DEF WorkerTypeOK, WorkerState
    <3>3. new \in WorkerState /\ new.pc = "root" /\ new.task = task /\ new.counts = m.counts
      BY <1>1, <3>1 DEF WorkerState, TaskPcs
    <3> HIDE DEF new
    <3>4. QED
      BY <1>1, <3>1, <3>2, <3>3 DEF MemoryOK
  <2>4. ASSUME ReadRoot(w) PROVE Moved
    <3> DEFINE root == privateStateRoots[WorkerToken]
               new == [m EXCEPT !.pc = "commit", !.old = root]
    <3>1. root \in Seq(Entry)
      BY WorkerAssumption DEF WorkerTypeOK
    <3>2. worker' = [worker EXCEPT ![w].pc = "commit", ![w].old = root] /\ m.pc = "root"
      BY <2>4 DEF ReadRoot, At
    <3> HIDE DEF root
    <3>3. worker' = [worker EXCEPT ![w] = new]
      BY <1>1, <3>2 DEF WorkerTypeOK, WorkerState
    <3>4. new \in WorkerState /\ new.pc = "commit" /\ new.task = m.task /\ new.counts = m.counts
      BY <1>1, <3>1 DEF WorkerState, TaskPcs
    <3> HIDE DEF new
    <3>5. QED
      BY <1>1, <3>2, <3>3, <3>4 DEF MemoryOK, TaskPcs
  <2>5. ASSUME ReadDigest(w) PROVE Moved
    <3> DEFINE k == activeCommitteeId
               new == [m EXCEPT !.pc = "send", !.committee = k]
    <3>1. k \in CommitteeIds
      BY DEF TypeOK
    <3>2. worker' = [worker EXCEPT ![w].pc = "send", ![w].committee = k] /\ m.pc = "digest"
      BY <2>5 DEF ReadDigest, At
    <3> HIDE DEF k
    <3>3. worker' = [worker EXCEPT ![w] = new]
      BY <1>1, <3>2 DEF WorkerTypeOK, WorkerState
    <3>4. new \in WorkerState /\ new.pc = "send" /\ new.task = m.task /\ new.counts = m.counts
      BY <1>1, <3>1 DEF WorkerState, TaskPcs
    <3> HIDE DEF new
    <3>5. QED
      BY <1>1, <3>2, <3>3, <3>4 DEF MemoryOK, TaskPcs
  <2>6. ASSUME BeginRotation(w) PROVE Moved
    <3> DEFINE root == ledger.root
               new == [m EXCEPT !.pc = "records", !.new = root]
    <3>1. root \in Seq(Entry)
      BY DEF WorkerTypeOK, Ledger
    <3>2. worker' = [worker EXCEPT ![w].pc = "records", ![w].new = root]
      BY <2>6 DEF BeginRotation
    <3> HIDE DEF root
    <3>3. worker' = [worker EXCEPT ![w] = new]
      BY <1>1, <3>2 DEF WorkerTypeOK, WorkerState
    <3>4. new \in WorkerState /\ new.pc = "records" /\ new.counts = m.counts
      BY <1>1, <3>1 DEF WorkerState, RotationPcs
    <3> HIDE DEF new
    <3>5. QED
      BY <1>1, <3>3, <3>4 DEF MemoryOK, TaskPcs
  <2>7. ASSUME ReadRecords(w) PROVE Moved
    <3> DEFINE records == ledger.balances
               new == [m EXCEPT !.pc = "install", !.records = records]
    <3>1. records \in [Commitments -> Record]
      BY DEF WorkerTypeOK, Ledger
    <3>2. worker' = [worker EXCEPT ![w].pc = "install", ![w].records = records]
      BY <2>7 DEF ReadRecords
    <3> HIDE DEF records
    <3>3. worker' = [worker EXCEPT ![w] = new]
      BY <1>1, <3>2 DEF WorkerTypeOK, WorkerState
    <3>4. new \in WorkerState /\ new.pc = "install" /\ new.counts = m.counts
      BY <1>1, <3>1 DEF WorkerState, RotationPcs
    <3> HIDE DEF new
    <3>5. QED
      BY <1>1, <3>3, <3>4 DEF MemoryOK, TaskPcs
  <2>8. Moved
    BY <1>6, <2>2, <2>3, <2>4, <2>5, <2>6, <2>7
  <2>9. QED
    BY <1>2, <2>1, <2>8, OneWorkerSteps DEF WorkerTypeOK
<1>7. QED
  BY <1>3, <1>4, <1>5, <1>6 DEF OwnStep

LEMMA SettleTypes ==
  ASSUME WorkerTypeOK, TypeOK, NEW w \in Workers, SettleStep(w)
  PROVE  WorkerTypeOK'
<1> DEFINE m == worker[w]
<1>1. At(w, "send") /\ Settle(w) /\ m \in WorkerState
  BY DEF SettleStep, SendSettlement, LostReply, WorkerTypeOK
<1>2. privateStateRoots' \in [Tokens -> Seq(Entry)]
  <2>1. m.task \in Tasks /\ m.new \in Seq(Entry)
    BY <1>1, SettleFacts DEF WorkerState
  <2>2. \/ privateStateRoots' = privateStateRoots
        \/ privateStateRoots' = [privateStateRoots EXCEPT ![m.task.token] = m.new]
    BY <1>1, SettleFacts
  <2>3. QED
    BY <2>1, <2>2, TaskFacts DEF WorkerTypeOK
<1>3. /\ UNCHANGED <<taskIds, ledger, cursors, rotated, snapshots>> /\ faults' \in Nat
      /\ Goto(w, "advance") \/ Stop(w)
  BY DEF SettleStep, SendSettlement, LostReply, WorkerTypeOK
<1>4. \E new : MemoryOK(new) /\ worker' = [worker EXCEPT ![w] = new]
  <2>1. m.pc \in TaskPcs
    BY <1>1 DEF At, TaskPcs
  <2>2. CASE Goto(w, "advance")
    BY <2>1, <2>2, GotoTypes
  <2>3. CASE Stop(w)
    BY <2>3, StopFacts
  <2>4. QED
    BY <1>3, <2>2, <2>3
<1>5. QED
  BY <1>2, <1>3, <1>4, OneWorkerSteps DEF WorkerTypeOK

LEMMA HandoffTypes ==
  ASSUME WorkerTypeOK, NEW w \in Workers, HandoffStep(w)
  PROVE  WorkerTypeOK'
<1>1. UNCHANGED <<taskIds, ledger, cursors, snapshots, faults, privateStateRoots>>
  BY ChainFrame DEF HandoffStep, AnnounceHandoff, CompleteHandoff
<1>2. rotated' \in BOOLEAN
  <2>1. rotated' = TRUE \/ rotated' = rotated
    BY Zenon DEF HandoffStep, AnnounceHandoff, CompleteHandoff
  <2>2. QED
    BY <2>1, Zenon DEF WorkerTypeOK
<1>3. \E new : MemoryOK(new) /\ worker' = [worker EXCEPT ![w] = new]
  <2>1. Goto(w, "finalize") \/ Exit(w)
    BY DEF HandoffStep, AnnounceHandoff, CompleteHandoff
  <2>2. CASE Goto(w, "finalize")
    <3>1. "finalize" \in RotationPcs /\ "finalize" \notin TaskPcs
      BY DEF RotationPcs, TaskPcs
    <3>2. QED
      BY <2>2, <3>1, GotoTypes
  <2>3. CASE Exit(w)
    BY <2>3, StopFacts
  <2>4. QED
    BY <2>1, <2>2, <2>3
<1>4. QED
  BY <1>1, <1>2, <1>3, OneWorkerSteps DEF WorkerTypeOK

(* A request lengthens one list.                                            *)
LEMMA RequestTypes ==
  ASSUME LedgerInv, WorkerTypeOK, NEW task \in Tasks, RequestTask(task)
  PROVE  /\ WorkerTypeOK'
         /\ \A k \in 1..4 :
              /\ Len(taskIds[k]) <= Len(taskIds'[k])
              /\ \A i \in 1..Len(taskIds[k]) : taskIds'[k][i] = taskIds[k][i]
              /\ \A i \in 1..Len(taskIds'[k]) :
                   i \in 1..Len(taskIds[k]) \/ taskIds'[k][i] = task
<1>1. PICK kind \in 1..4 : taskIds' = [taskIds EXCEPT ![kind] = Append(taskIds[kind], task)]
  BY RequestFacts
<1>2. \A k \in 1..4 : taskIds[k] \in Seq(Tasks)
  BY DEF WorkerTypeOK
<1>3. /\ Append(taskIds[kind], task) \in Seq(Tasks)
      /\ Len(Append(taskIds[kind], task)) = Len(taskIds[kind]) + 1
      /\ \A i \in 1..Len(taskIds[kind]) : Append(taskIds[kind], task)[i] = taskIds[kind][i]
      /\ Append(taskIds[kind], task)[Len(taskIds[kind]) + 1] = task
  <2> DEFINE s == taskIds[kind]
  <2>1. s \in Seq(Tasks)
    BY <1>2
  <2> HIDE DEF s
  <2>2. QED
    BY <2>1 DEF s
<1>4. \A k \in 1..4 : taskIds'[k] = IF k = kind THEN Append(taskIds[kind], task) ELSE taskIds[k]
  BY <1>1 DEF WorkerTypeOK
<1>5. taskIds' \in [1..4 -> Seq(Tasks)]
  BY <1>1, <1>3 DEF WorkerTypeOK
<1>6. \A k \in 1..4 :
        /\ Len(taskIds[k]) <= Len(taskIds'[k])
        /\ \A i \in 1..Len(taskIds[k]) : taskIds'[k][i] = taskIds[k][i]
        /\ \A i \in 1..Len(taskIds'[k]) : i \in 1..Len(taskIds[k]) \/ taskIds'[k][i] = task
  <2> SUFFICES ASSUME NEW k \in 1..4
               PROVE  /\ Len(taskIds[k]) <= Len(taskIds'[k])
                      /\ \A i \in 1..Len(taskIds[k]) : taskIds'[k][i] = taskIds[k][i]
                      /\ \A i \in 1..Len(taskIds'[k]) :
                           i \in 1..Len(taskIds[k]) \/ taskIds'[k][i] = task
    OBVIOUS
  <2>1. Len(taskIds[k]) \in Nat
    BY <1>2
  <2>2. CASE k = kind
    <3>1. taskIds'[k] = Append(taskIds[kind], task)
      BY <1>4, <2>2
    <3>2. \A i \in 1..Len(taskIds[k]) + 1 : i \in 1..Len(taskIds[k]) \/ i = Len(taskIds[k]) + 1
      BY <2>1
    <3>3. Len(taskIds'[k]) = Len(taskIds[k]) + 1
      BY <1>3, <2>2, <3>1
    <3>4. QED
      BY <1>3, <2>1, <2>2, <3>1, <3>2, <3>3
  <2>3. CASE k # kind
    BY <1>4, <2>1, <2>3
  <2>4. QED
    BY <2>2, <2>3
<1>7. \A w \in Workers : MemoryOK(worker[w])'
  <2> SUFFICES ASSUME NEW w \in Workers PROVE MemoryOK(worker[w])'
    OBVIOUS
  <2>1. MemoryOK(worker[w]) /\ worker[w] \in WorkerState /\ worker' = worker
    BY RequestFacts DEF WorkerTypeOK
  <2>2. worker[w].counts \in [1..4 -> Nat]
    BY <2>1 DEF WorkerState
  <2>3. ASSUME NEW k \in 1..4 PROVE worker[w].counts[k] <= Len(taskIds'[k])
    <3>1. taskIds[k] \in Seq(Tasks) /\ taskIds'[k] \in Seq(Tasks)
      BY <1>2, <1>5
    <3>2. Len(taskIds[k]) \in Nat /\ Len(taskIds'[k]) \in Nat
      BY <3>1
    <3>3. worker[w].counts[k] \in Nat
      BY <2>2
    <3>4. worker[w].counts[k] <= Len(taskIds[k])
      BY <2>1 DEF MemoryOK
    <3>5. Len(taskIds[k]) <= Len(taskIds'[k])
      BY <1>6
    <3>6. QED
      BY <3>2, <3>3, <3>4, <3>5
  <2>4. QED
    BY <2>1, <2>3 DEF MemoryOK
<1>8. UNCHANGED <<privateStateRoots, ledger, cursors, worker, rotated, snapshots, faults>>
  BY RequestFacts
<1>9. QED
  BY <1>5, <1>6, <1>7, <1>8 DEF WorkerTypeOK

LEMMA WorkerTypeStep ==
  ASSUME LedgerInv, WorkerTypeOK, [WorkerNext]_allVars
  PROVE  WorkerTypeOK'
<1>1. TypeOK
  BY DEF LedgerInv
<1>2. CASE OtherChainStep
  <2>1. UNCHANGED <<privateStateRoots, workerVars>>
    BY <1>2, OtherFacts
  <2>2. QED
    BY <2>1 DEF WorkerTypeOK, workerVars, MemoryOK
<1>3. CASE UNCHANGED allVars
  BY <1>3 DEF WorkerTypeOK, allVars, vars, workerVars, MemoryOK
<1>4. QED
  BY <1>1, <1>2, <1>3, PassTypes, OwnTypes, SettleTypes, HandoffTypes, RequestTypes,
     WorkerNextCases

LEMMA JointAlways ==
  ASSUME LedgerRoots
  PROVE  WorkerSpec => []JointInv
<1>1. WorkerInit => JointInv
  BY LedgerInit, WorkerTypeInit DEF WorkerInit, JointInv
<1>2. JointInv /\ [WorkerNext]_allVars => JointInv'
  BY ContractStep, LedgerStep, WorkerTypeStep DEF JointInv, LedgerInv
<1>3. QED
  BY <1>1, <1>2, PTL DEF WorkerSpec

(* The contract, with its daemons and whatever goes wrong with them, does   *)
(* what the contract alone may do: its reserve, its liabilities, its ether  *)
(* and the control of accounts are safe whatever the daemons send.          *)
THEOREM WorkersImplementContract ==
  ASSUME LedgerRoots
  PROVE  WorkerSpec => Spec
<1>1. WorkerInit => Init
  BY DEF WorkerInit
<1>2. JointInv /\ [WorkerNext]_allVars => [Next]_vars
  BY ContractStep DEF JointInv, LedgerInv
<1>3. QED
  BY <1>1, <1>2, JointAlways, PTL DEF WorkerSpec, Spec

-----------------------------------------------------------------------------
(* The ledger and the chain in step *)

(* A step that moves neither the ledger nor what the chain settled keeps    *)
(* them in step, if what the workers then have in flight is in order.       *)
LEMMA StepKept ==
  ASSUME StepInv, UNCHANGED <<ledger, privateStateRoots, privateLiabilities>>,
         Settled' = Settled, \A v \in Workers : InFlight(worker'[v])
  PROVE  StepInv'
<1>1. Unsettled' = Unsettled /\ Root' = Root /\ Sum(ledger)' = Sum(ledger)
  BY DEF Unsettled, Root, Sum
<1>2. InStep'
  BY <1>1 DEF StepInv, InStep
<1>3. \A v \in Workers : InFlight(worker[v])'
  BY <1>1 DEF InFlight
<1>4. QED
  BY <1>2, <1>3 DEF StepInv

(* Requests and cancellations do not touch what was settled.                *)
LEMMA SettledKept ==
  ASSUME TypeOK, NEW task \in Tasks, status[task] \in {"None", "Pending"},
         NEW s, s \in {"Pending", "Cancelled"}, status' = [status EXCEPT ![task] = s]
  PROVE  Settled' = Settled
BY DEF Settled, TypeOK

LEMMA PassFlight ==
  ASSUME WorkerTypeOK, StepInv, PassNext
  PROVE  \A v \in Workers : InFlight(worker'[v])
<1> DEFINE m == worker[watch]
<1>1. watch \in Workers /\ m \in WorkerState /\ MemoryOK(m) /\ worker \in [Workers -> WorkerState]
      /\ \A v \in Workers : InFlight(worker[v])
  BY WorkerAssumption DEF WorkerTypeOK, StepInv
<1>2. /\ \A v \in Workers \ {watch} : worker'[v] = worker[v]
      /\ \/ worker'[watch].pc \in {"next", "advance", "open", "root", "idle", "rest"}
         \/ worker'[watch].pc = "digest" /\ worker'[watch].task.kind = "opening"
  <2>1. CASE Stop(watch)
    <3>1. PICK new : worker' = [worker EXCEPT ![watch] = new] /\ new.pc \in {"idle", "rest"}
      BY <1>1, <2>1, StopFacts
    <3>2. QED
      BY <1>1, <3>1
  <2>2. CASE Poll
    <3>1. PICK counts : worker' =
            [worker EXCEPT ![watch] = [Idle EXCEPT !.pc = "next", !.counts = counts]]
      BY <2>2 DEF Poll
    <3>2. [Idle EXCEPT !.pc = "next", !.counts = counts].pc = "next"
      BY IdleTyped DEF WorkerState
    <3>3. QED
      BY <1>1, <3>1, <3>2
  <2>3. CASE NextTask /\ ~Stop(watch)
    <3>1. \/ \E task : \E pc \in {"advance", "open", "root"} :
               worker' = [worker EXCEPT ![watch].task = task, ![watch].pc = pc]
          \/ worker' = [worker EXCEPT ![watch].kind = m.kind + 1] /\ m.pc = "next"
      BY <2>3 DEF NextTask, At
    <3>2. ASSUME NEW task, NEW pc \in {"advance", "open", "root"},
                 worker' = [worker EXCEPT ![watch].task = task, ![watch].pc = pc]
          PROVE  worker'[watch].pc = pc /\ \A v \in Workers \ {watch} : worker'[v] = worker[v]
      BY <1>1, <3>2 DEF WorkerState
    <3>3. ASSUME worker' = [worker EXCEPT ![watch].kind = m.kind + 1], m.pc = "next"
          PROVE  worker'[watch].pc = "next" /\ \A v \in Workers \ {watch} : worker'[v] = worker[v]
      BY <1>1, <3>3 DEF WorkerState
    <3>4. QED
      BY <3>1, <3>2, <3>3
  <2>4. CASE AdvanceCursor \/ Sleep
    BY <1>1, <2>4 DEF AdvanceCursor, Sleep, Goto, WorkerState
  <2>5. CASE OpenBalance /\ ~Stop(watch)
    <3>1. Goto(watch, "digest") /\ m.task.kind = "opening"
      BY <1>1, <2>5 DEF OpenBalance, At, MemoryOK
    <3>2. worker'[watch].pc = "digest" /\ worker'[watch].task = m.task
      BY <1>1, <3>1 DEF Goto, WorkerState
    <3>3. QED
      BY <1>1, <3>1, <3>2 DEF Goto
  <2>6. QED
    BY <2>1, <2>2, <2>3, <2>4, <2>5 DEF PassNext
<1>3. InFlight(worker'[watch])
  BY <1>2 DEF InFlight
<1>4. QED
  BY <1>1, <1>2, <1>3

\* One step of a worker by itself, except a transaction of the ledger.
LEMMA OwnFlight ==
  ASSUME WorkerTypeOK, StepInv, NEW w \in Workers, OwnStep(w), ~CommitLedger(w)
  PROVE  \A v \in Workers : InFlight(worker'[v])
<1> DEFINE m == worker[w]
<1>1. /\ m \in WorkerState /\ MemoryOK(m) /\ worker \in [Workers -> WorkerState]
      /\ \A v \in Workers : InFlight(worker[v])
  BY DEF WorkerTypeOK, StepInv
<1> DEFINE Rest == \A v \in Workers \ {w} : worker'[v] = worker[v]
<1>2. ASSUME Stop(w) \/ Exit(w) PROVE Rest /\ InFlight(worker'[w])
  <2>1. PICK new : worker' = [worker EXCEPT ![w] = new] /\ new.pc \in {"idle", "rest"}
    BY <1>2, StopFacts
  <2>2. QED
    BY <1>1, <2>1 DEF InFlight
<1>3. ASSUME StartCommand(w) PROVE Rest /\ InFlight(worker'[w])
  <2>1. PICK task \in Tasks : worker' = [worker EXCEPT ![w].task = task, ![w].pc = "root"]
    BY <1>3 DEF StartCommand
  <2>2. Rest /\ worker'[w].pc = "root"
    BY <1>1, <2>1 DEF WorkerState
  <2>3. QED
    BY <2>2 DEF InFlight
<1>4. ASSUME ReadRoot(w) PROVE Rest /\ InFlight(worker'[w])
  <2>1. worker' = [worker EXCEPT ![w].pc = "commit", ![w].old = Root]
    BY <1>4 DEF ReadRoot, Root
  <2>2. Rest /\ worker'[w].pc = "commit" /\ worker'[w].old = Root
    BY <1>1, <2>1 DEF WorkerState
  <2>3. Len(Root) \in Nat
    BY WorkerAssumption DEF WorkerTypeOK, Root
  <2>4. QED
    BY <2>2, <2>3 DEF InFlight
<1>5. ASSUME ReadDigest(w) PROVE Rest /\ InFlight(worker'[w])
  <2>1. m.pc = "digest"
        /\ worker' = [worker EXCEPT ![w].pc = "send", ![w].committee = activeCommitteeId]
    BY <1>5 DEF ReadDigest, At
  <2>2. /\ Rest /\ worker'[w].pc = "send" /\ worker'[w].task = m.task
        /\ worker'[w].old = m.old /\ worker'[w].new = m.new
    BY <1>1, <2>1 DEF WorkerState
  <2>3. QED
    BY <1>1, <2>1, <2>2 DEF InFlight
<1>6. ASSUME BeginRotation(w) PROVE Rest /\ InFlight(worker'[w])
  <2>1. worker' = [worker EXCEPT ![w].pc = "records", ![w].new = ledger.root]
    BY <1>6 DEF BeginRotation
  <2>2. Rest /\ worker'[w].pc = "records"
    BY <1>1, <2>1 DEF WorkerState
  <2>3. QED
    BY <2>2 DEF InFlight
<1>7. ASSUME ReadRecords(w) PROVE Rest /\ InFlight(worker'[w])
  <2>1. worker' = [worker EXCEPT ![w].pc = "install", ![w].records = ledger.balances]
    BY <1>7 DEF ReadRecords
  <2>2. Rest /\ worker'[w].pc = "install"
    BY <1>1, <2>1 DEF WorkerState
  <2>3. QED
    BY <2>2 DEF InFlight
<1>8. ASSUME NEW n \in NextNodes, InstallSnapshot(w, n) PROVE Rest /\ InFlight(worker'[w])
  <2>1. m.pc = "install" /\ worker' = [worker EXCEPT ![w].installed = m.installed \cup {n}]
    BY <1>8 DEF InstallSnapshot, At
  <2>2. Rest /\ worker'[w].pc = "install"
    BY <1>1, <2>1 DEF WorkerState
  <2>3. QED
    BY <2>2 DEF InFlight
<1>9. Rest /\ InFlight(worker'[w])
  BY <1>2, <1>3, <1>4, <1>5, <1>6, <1>7, <1>8
     DEF OwnStep, EndCommand, SettlementReverts, HandoffReverts, Crash
<1>10. QED
  BY <1>1, <1>9

LEMMA HandoffFlight ==
  ASSUME WorkerTypeOK, StepInv, NEW w \in Workers, HandoffStep(w)
  PROVE  \A v \in Workers : InFlight(worker'[v])
<1>1. worker \in [Workers -> WorkerState] /\ \A v \in Workers : InFlight(worker[v])
  BY DEF WorkerTypeOK, StepInv
<1>2. /\ \A v \in Workers \ {w} : worker'[v] = worker[v]
      /\ worker'[w].pc \in {"idle", "rest", "finalize"}
  <2>1. Goto(w, "finalize") \/ Exit(w)
    BY DEF HandoffStep, AnnounceHandoff, CompleteHandoff
  <2>2. CASE Goto(w, "finalize")
    BY <1>1, <2>2 DEF Goto, WorkerState
  <2>3. CASE Exit(w)
    <3>1. PICK new : worker' = [worker EXCEPT ![w] = new] /\ new.pc \in {"idle", "rest"}
      BY <2>3, StopFacts
    <3>2. QED
      BY <1>1, <3>1
  <2>4. QED
    BY <2>1, <2>2, <2>3
<1>3. QED
  BY <1>1, <1>2 DEF InFlight

LEMMA RootLengths ==
  ASSUME WorkerTypeOK
  PROVE  /\ Len(Root) \in Nat /\ Len(ledger.root) \in Nat
         /\ \A v \in Workers : Len(worker[v].old) \in Nat
<1>1. Root \in Seq(Entry)
  BY WorkerAssumption DEF WorkerTypeOK, Root
<1>2. ledger.root \in Seq(Entry)
  BY DEF WorkerTypeOK, Ledger
<1>3. \A v \in Workers : worker[v].old \in Seq(Entry)
  BY DEF WorkerTypeOK, WorkerState
<1>4. QED
  BY <1>1, <1>2, <1>3

(* A transaction of the ledger is accepted only when it is in step with the *)
(* chain; the task is then the one that the chain has not settled.          *)
LEMMA CommitFlight ==
  ASSUME WorkerTypeOK, StepInv, NEW w \in Workers, CommitLedger(w)
  PROVE  StepInv'
<1> DEFINE m == worker[w]
           task == m.task
<1>1. /\ m.pc = "commit" /\ task \in Tasks /\ task.kind # "opening" /\ ledger \in Ledger
      /\ m \in WorkerState /\ worker \in [Workers -> WorkerState]
      /\ UNCHANGED <<status, privateStateRoots, privateLiabilities>>
  <2>1. OwnStep(w)
    BY DEF OwnStep
  <2>2. QED
    BY <2>1, ChainFrame DEF CommitLedger, At, WorkerTypeOK, MemoryOK, TaskPcs
<1>2. Settled' = Settled
  BY <1>1 DEF Settled
<1>3. CASE ~Accepts(task, m.old)
  <2>1. UNCHANGED ledger /\ Stop(w)
    BY <1>3 DEF CommitLedger
  <2>2. PICK new : worker' = [worker EXCEPT ![w] = new] /\ new.pc \in {"idle", "rest"}
    BY <2>1, StopFacts
  <2>3. \A v \in Workers : InFlight(worker'[v])
    BY <1>1, <2>2 DEF InFlight, StepInv
  <2>4. QED
    BY <1>1, <1>2, <2>1, <2>3, StepKept
<1>4. CASE Accepts(task, m.old)
  <2>1. /\ m.old = ledger.root /\ task \notin ledger.applied /\ ledger' = Applied(task)
        /\ ledger' \in Ledger /\ ledger'.applied = ledger.applied \cup {task}
        /\ Len(ledger.root) < Len(ledger'.root)
        /\ Sum(ledger') = Sum(ledger) + SignedAmount(task)
    BY <1>1, <1>4, AppliedFacts DEF CommitLedger
  <2>2. /\ Len(Root) \in Nat /\ Len(ledger.root) \in Nat /\ Len(ledger'.root) \in Nat
        /\ Len(m.old) \in Nat
    <3>1. ledger'.root \in Seq(Entry)
      BY <2>1 DEF Ledger
    <3>2. QED
      BY <3>1, RootLengths
  <2>3. Len(ledger.root) <= Len(Root)
    BY <1>1, <2>1 DEF StepInv, InFlight
  <2>4. /\ Unsettled = {} /\ ledger.root = Root /\ Settled \subseteq ledger.applied
        /\ Sum(ledger) = privateLiabilities[WorkerToken]
    BY <2>2, <2>3 DEF StepInv, InStep
  <2>5. Unsettled' = {task} /\ Root' = Root /\ Sum(ledger)' = Sum(ledger')
    BY <1>1, <1>2, <2>1, <2>4 DEF Unsettled, Root, Sum
  <2>6. InStep'
    BY <1>1, <1>2, <2>1, <2>4, <2>5 DEF InStep
  <2>7. ASSUME NEW v \in Workers \ {w} PROVE InFlight(worker[v])'
    <3>1. worker'[v] = worker[v]
      <4> DEFINE root == ledger'.root
      <4>1. worker' = [worker EXCEPT ![w].pc = "digest", ![w].new = root]
        BY <1>4 DEF CommitLedger
      <4> HIDE DEF root
      <4>2. QED
        BY <1>1, <4>1
    <3>2. InFlight(worker[v])
      BY DEF StepInv
    <3>3. QED
      BY <2>4, <2>5, <3>1, <3>2 DEF InFlight
  <2>8. InFlight(worker[w])'
    <3> DEFINE root == ledger'.root
    <3>1. worker' = [worker EXCEPT ![w].pc = "digest", ![w].new = root]
      BY <1>4 DEF CommitLedger
    <3> HIDE DEF root
    <3>2. /\ worker'[w].pc = "digest" /\ worker'[w].task = task
          /\ worker'[w].old = m.old /\ worker'[w].new = root
      BY <1>1, <3>1 DEF WorkerState
    <3>3. QED
      BY <2>1, <2>4, <2>5, <3>2 DEF InFlight, root
  <2>9. QED
    BY <2>6, <2>7, <2>8 DEF StepInv
<1>5. QED
  BY <1>3, <1>4

(* The chain accepts only the settlement of the task it is behind by.       *)
LEMMA SettleFlight ==
  ASSUME OneToken, WorkerTypeOK, TypeOK, StepInv, NEW w \in Workers, SettleStep(w)
  PROVE  StepInv'
<1> DEFINE m == worker[w]
           task == m.task
<1>1. /\ At(w, "send") /\ Settle(w) /\ m \in WorkerState /\ worker \in [Workers -> WorkerState]
      /\ ledger' = ledger /\ ledger \in Ledger
  BY DEF SettleStep, SendSettlement, LostReply, WorkerTypeOK
<1>2. /\ task \in Tasks /\ Pending(task) /\ status' = [status EXCEPT ![task] = "Finalized"]
      /\ task.kind = "opening" => UNCHANGED <<privateStateRoots, privateLiabilities>>
      /\ task.kind # "opening" =>
           /\ m.old = privateStateRoots[task.token]
           /\ privateStateRoots' = [privateStateRoots EXCEPT ![task.token] = m.new]
           /\ privateLiabilities' =
                [privateLiabilities EXCEPT ![task.token] = @ + SignedAmount(task)]
  BY <1>1, SettleFacts
<1>3. /\ \A v \in Workers \ {w} : worker'[v] = worker[v]
      /\ worker'[w].pc \in {"advance", "idle", "rest"}
  <2>1. CASE Goto(w, "advance")
    BY <1>1, <2>1 DEF Goto, WorkerState
  <2>2. CASE Stop(w)
    <3>1. PICK new : worker' = [worker EXCEPT ![w] = new] /\ new.pc \in {"idle", "rest"}
      BY <2>2, StopFacts
    <3>2. QED
      BY <1>1, <3>1
  <2>3. QED
    BY <2>1, <2>2 DEF SettleStep, SendSettlement, LostReply
<1>4. CASE task.kind = "opening"
  <2>1. Settled' = Settled
    BY <1>2, <1>4 DEF Settled, TypeOK
  <2>2. \A v \in Workers : InFlight(worker'[v])
    BY <1>3 DEF InFlight, StepInv
  <2>3. QED
    BY <1>1, <1>2, <1>4, <2>1, <2>2, StepKept
<1>5. CASE task.kind # "opening"
  <2>1. task.token = WorkerToken /\ m.old = Root /\ Root' = m.new
        /\ privateLiabilities'[WorkerToken] = privateLiabilities[WorkerToken] + SignedAmount(task)
    BY <1>2, <1>5, WorkerAssumption DEF OneToken, Root, WorkerTypeOK, TypeOK
  <2>2. /\ Len(Root) \in Nat /\ Len(ledger.root) \in Nat
        /\ \A v \in Workers : Len(worker[v].old) \in Nat
    BY RootLengths
  <2>3. m.new = ledger.root /\ Unsettled = {task}
    BY <1>1, <1>5, <2>1, <2>2 DEF StepInv, InFlight, At
  <2>4. /\ Settled \subseteq ledger.applied /\ Len(Root) < Len(ledger.root)
        /\ Sum(ledger) = privateLiabilities[WorkerToken] + SignedAmount(task)
    BY <2>3 DEF StepInv, InStep
  <2>5. Settled' = Settled \cup {task}
    BY <1>2, <1>5 DEF Settled, TypeOK
  <2>6. Unsettled' = {} /\ Settled' \subseteq ledger'.applied
    BY <1>1, <2>3, <2>4, <2>5 DEF Unsettled
  <2>7. InStep'
    BY <1>1, <2>1, <2>3, <2>4, <2>6 DEF InStep, Sum
  <2>8. ASSUME NEW v \in Workers \ {w} PROVE InFlight(worker[v])'
    <3>1. InFlight(worker[v]) /\ worker'[v] = worker[v] /\ Root' = ledger.root
      BY <1>3, <2>1, <2>3 DEF StepInv
    <3>2. Len(worker[v].old) \in Nat
      BY <2>2
    <3>3. worker[v].pc = "commit" => Len(worker[v].old) <= Len(Root')
      BY <2>2, <2>4, <3>1, <3>2 DEF InFlight
    <3>4. worker[v].pc \in {"digest", "send"} /\ worker[v].task.kind # "opening" =>
            Len(worker[v].old) < Len(Root')
      BY <2>2, <2>4, <3>1, <3>2 DEF InFlight
    <3>5. QED
      BY <3>1, <3>3, <3>4 DEF InFlight
  <2>9. InFlight(worker[w])'
    BY <1>3 DEF InFlight
  <2>10. QED
    BY <2>7, <2>8, <2>9 DEF StepInv
<1>6. QED
  BY <1>4, <1>5

LEMMA StepInit == WorkerInit => StepInv
<1> SUFFICES ASSUME WorkerInit PROVE StepInv
  OBVIOUS
<1>1. Settled = {} /\ Unsettled = {}
  BY DEF WorkerInit, Init, Settled, Unsettled, L!EmptyLedger
<1>2. ledger.root = Root
  BY WorkerAssumption DEF WorkerInit, Init, Root, L!EmptyLedger
<1>3. Sum(ledger) = 0
  <2> DEFINE f == [a \in Commitments |-> ledger.balances[a].amount]
  <2>1. f \in [Commitments -> Nat] /\ \A a \in Commitments : f[a] = 0
    BY DEF WorkerInit, L!EmptyLedger, L!NoRecord
  <2> HIDE DEF f
  <2>2. Total(f) = 0
    BY <2>1, TotalBounds, WorkerAssumption
  <2>3. QED
    BY <2>2 DEF Sum, f
<1>4. privateLiabilities[WorkerToken] = 0
  BY WorkerAssumption DEF WorkerInit, Init
<1>5. \A w \in Workers : InFlight(worker[w])
  BY IdleTyped DEF WorkerInit, InFlight
<1>6. QED
  BY <1>1, <1>2, <1>3, <1>4, <1>5 DEF StepInv, InStep

LEMMA StepStep ==
  ASSUME OneToken, JointInv, StepInv, [WorkerNext]_allVars
  PROVE  StepInv'
<1>1. LedgerInv /\ TypeOK /\ WorkerTypeOK
  BY DEF JointInv, LedgerInv
<1>2. ASSUME PassNext \/ \E w \in Workers : (OwnStep(w) /\ ~CommitLedger(w)) \/ HandoffStep(w)
      PROVE  StepInv'
  <2>1. UNCHANGED <<privateStateRoots, privateLiabilities, status>>
    BY <1>2, ChainFrame
  <2>2. ledger' = ledger
    BY <1>2 DEF PassNext, Poll, NextTask, AdvanceCursor, OpenBalance, Sleep, OwnStep,
       StartCommand, EndCommand, ReadRoot, ReadDigest, SettlementReverts, BeginRotation,
       ReadRecords, InstallSnapshot, HandoffReverts, Crash, HandoffStep, AnnounceHandoff,
       CompleteHandoff
  <2>3. \A v \in Workers : InFlight(worker'[v])
    BY <1>1, <1>2, PassFlight, OwnFlight, HandoffFlight
  <2>4. QED
    BY <2>1, <2>2, <2>3, StepKept DEF Settled
<1>3. ASSUME NEW task \in Tasks, RequestTask(task) PROVE StepInv'
  <2>1. Settled' = Settled
    BY <1>1, <1>3, RequestFacts, SettledKept
  <2>2. \A v \in Workers : InFlight(worker'[v])
    BY <1>1, <1>3, RequestFacts DEF StepInv
  <2>3. QED
    BY <1>1, <1>3, <2>1, <2>2, RequestFacts, StepKept
<1>4. ASSUME OtherChainStep PROVE StepInv'
  <2>1. Settled' = Settled
    BY <1>1, <1>4, OtherFacts, SettledKept DEF Settled, Pending
  <2>2. \A v \in Workers : InFlight(worker'[v])
    BY <1>4, OtherFacts DEF StepInv, workerVars
  <2>3. QED
    BY <1>4, <2>1, <2>2, OtherFacts, StepKept DEF workerVars
<1>5. CASE UNCHANGED allVars
  <2>1. \A v \in Workers : InFlight(worker'[v])
    BY <1>5 DEF StepInv, allVars, workerVars
  <2>2. QED
    BY <1>5, <2>1, StepKept DEF allVars, vars, workerVars, Settled
<1>6. QED
  BY <1>1, <1>2, <1>3, <1>4, <1>5, CommitFlight, SettleFlight, WorkerNextCases

LEMMA StepAlways ==
  ASSUME LedgerRoots, OneToken
  PROVE  WorkerSpec => []StepInv
<1>1. JointInv /\ StepInv /\ [WorkerNext]_allVars => StepInv'
  BY StepStep
<1>2. QED
  BY <1>1, StepInit, JointAlways, PTL DEF WorkerSpec

(* The ledger and the chain step in turn, for any number of workers and     *)
(* operators, any faults and any tasks of the one token: two workers never  *)
(* apply two tasks on one root, and a stale settlement is never accepted.   *)
THEOREM LedgerAlwaysMatches ==
  ASSUME LedgerRoots, OneToken
  PROVE  WorkerSpec => []LedgerMatchesChain
<1>1. JointInv /\ StepInv => LedgerMatchesChain
  <2> SUFFICES ASSUME JointInv, StepInv PROVE LedgerMatchesChain
    OBVIOUS
  <2>1. Len(Root) \in Nat /\ Len(ledger.root) \in Nat
    BY WorkerAssumption DEF JointInv, WorkerTypeOK, Root, Ledger
  <2>2. CASE Unsettled = {}
    BY <2>1, <2>2, FS_EmptySet DEF StepInv, InStep, LedgerMatchesChain, LedgerAhead, Root
  <2>3. CASE \E x \in Tasks : Unsettled = {x} /\ Len(Root) < Len(ledger.root)
    <3>1. PICK x \in Tasks : Unsettled = {x} /\ Len(Root) < Len(ledger.root)
      BY <2>3
    <3>2. Cardinality(Unsettled) = 1
      BY <3>1, FS_Singleton
    <3>3. LedgerAhead
      BY <2>1, <3>1 DEF LedgerAhead, Root
    <3>4. QED
      BY <3>1, <3>2, <3>3 DEF StepInv, InStep, LedgerMatchesChain
  <2>4. QED
    BY <2>2, <2>3 DEF StepInv, InStep
<1>2. QED
  BY <1>1, JointAlways, StepAlways, PTL

(* Confidential balances add up to the liabilities of the contract, but for *)
(* the one task the chain has not settled, in every behaviour.              *)
THEOREM BalancesAlwaysBacked ==
  ASSUME LedgerRoots, OneToken
  PROVE  WorkerSpec => []BalancesAreBacked
<1>1. StepInv => BalancesAreBacked
  BY DEF StepInv, InStep, BalancesAreBacked, Sum
<1>2. QED
  BY <1>1, StepAlways, PTL

-----------------------------------------------------------------------------
(* The cursors *)

(* A task that was requested stays requested, and one that is settled or    *)
(* cancelled is never pending again: its nonce is used.                     *)
LEMMA StatusSteps ==
  ASSUME JointInv, [WorkerNext]_allVars, NEW task \in Tasks, status[task] # "None"
  PROVE  status'[task] # "None" /\ (~Pending(task) => ~Pending(task)')
<1>1. LedgerInv /\ TypeOK /\ WorkerTypeOK /\ status \in [Tasks -> Statuses]
  BY DEF JointInv, LedgerInv, TypeOK
<1>2. \/ status' = status
      \/ \E other \in Tasks, s \in {"Pending", "Finalized", "Cancelled"} :
           /\ status' = [status EXCEPT ![other] = s]
           /\ status[other] = "None" \/ (status[other] = "Pending" /\ s # "Pending")
  <2>1. CASE PassNext \/ \E w \in Workers : OwnStep(w) \/ HandoffStep(w)
    BY <2>1, ChainFrame
  <2>2. ASSUME NEW w \in Workers, SettleStep(w)
        PROVE  \E other \in Tasks : status[other] = "Pending"
                                   /\ status' = [status EXCEPT ![other] = "Finalized"]
    BY <1>1, <2>2, SettleFacts DEF SettleStep, SendSettlement, LostReply, Pending
  <2>3. ASSUME NEW other \in Tasks, RequestTask(other)
        PROVE  status[other] = "None" /\ status' = [status EXCEPT ![other] = "Pending"]
    BY <1>1, <2>3, RequestFacts
  <2>4. ASSUME OtherChainStep
        PROVE  \/ status' = status
               \/ \E other \in Tasks : status[other] = "Pending"
                                      /\ status' = [status EXCEPT ![other] = "Cancelled"]
    BY <2>4, OtherFacts DEF Pending
  <2>5. CASE UNCHANGED allVars
    BY <2>5 DEF allVars, vars
  <2>6. QED
    BY <2>1, <2>2, <2>3, <2>4, <2>5, WorkerNextCases
<1>3. ASSUME NEW other \in Tasks, NEW s \in {"Pending", "Finalized", "Cancelled"},
             status' = [status EXCEPT ![other] = s],
             status[other] = "None" \/ (status[other] = "Pending" /\ s # "Pending")
      PROVE  status'[task] # "None" /\ (status[task] # "Pending" => status'[task] # "Pending")
  BY <1>1, <1>3
<1>4. status'[task] # "None" /\ (status[task] # "Pending" => status'[task] # "Pending")
  BY <1>2, <1>3
<1>5. QED
  BY <1>4 DEF Pending

(* The lists of tasks only grow, by tasks that were requested.              *)
LEMMA ListsGrow ==
  ASSUME JointInv, CursorInv, [WorkerNext]_allVars, NEW k \in 1..4
  PROVE  /\ Len(taskIds[k]) <= Len(taskIds'[k])
         /\ \A i \in 1..Len(taskIds[k]) : taskIds'[k][i] = taskIds[k][i]
         /\ \A i \in 1..Len(taskIds'[k]) : status'[taskIds'[k][i]] # "None"
<1>1. LedgerInv /\ WorkerTypeOK /\ taskIds[k] \in Seq(Tasks) /\ Len(taskIds[k]) \in Nat
      /\ status \in [Tasks -> Statuses]
  <2>1. LedgerInv /\ WorkerTypeOK /\ status \in [Tasks -> Statuses]
    BY DEF JointInv, LedgerInv, TypeOK
  <2>2. taskIds[k] \in Seq(Tasks)
    BY <2>1 DEF WorkerTypeOK
  <2>3. QED
    BY <2>1, <2>2
<1>2. \A i \in 1..Len(taskIds[k]) : status'[taskIds[k][i]] # "None"
  <2>1. \A i \in 1..Len(taskIds[k]) : taskIds[k][i] \in Tasks
    BY <1>1
  <2>2. QED
    BY <2>1, StatusSteps DEF CursorInv
<1>3. ASSUME NEW task \in Tasks, RequestTask(task)
      PROVE  /\ Len(taskIds[k]) <= Len(taskIds'[k])
             /\ \A i \in 1..Len(taskIds[k]) : taskIds'[k][i] = taskIds[k][i]
             /\ \A i \in 1..Len(taskIds'[k]) : status'[taskIds'[k][i]] # "None"
  <2>1. status'[task] # "None"
    BY <1>1, <1>3, RequestFacts
  <2>2. /\ Len(taskIds[k]) <= Len(taskIds'[k])
        /\ \A i \in 1..Len(taskIds[k]) : taskIds'[k][i] = taskIds[k][i]
        /\ \A i \in 1..Len(taskIds'[k]) : i \in 1..Len(taskIds[k]) \/ taskIds'[k][i] = task
    BY <1>1, <1>3, RequestTypes
  <2>3. \A i \in 1..Len(taskIds'[k]) : status'[taskIds'[k][i]] # "None"
    <3> SUFFICES ASSUME NEW i \in 1..Len(taskIds'[k]) PROVE status'[taskIds'[k][i]] # "None"
      OBVIOUS
    <3>1. CASE i \in 1..Len(taskIds[k])
      BY <1>2, <2>2, <3>1
    <3>2. CASE taskIds'[k][i] = task
      BY <2>1, <3>2
    <3>3. QED
      BY <2>2, <3>1, <3>2
  <2>4. QED
    BY <2>2, <2>3
<1>4. CASE taskIds' = taskIds
  BY <1>1, <1>2, <1>4
<1>5. taskIds' = taskIds \/ \E task \in Tasks : RequestTask(task)
  <2>1. CASE PassNext
    BY <2>1 DEF PassNext, Poll, NextTask, AdvanceCursor, OpenBalance, Sleep
  <2>2. ASSUME NEW w \in Workers, OwnStep(w) \/ SettleStep(w) \/ HandoffStep(w)
        PROVE  taskIds' = taskIds
    BY <2>2 DEF OwnStep, StartCommand, EndCommand, ReadRoot, CommitLedger, ReadDigest,
       SettlementReverts, BeginRotation, ReadRecords, InstallSnapshot, HandoffReverts, Crash,
       SettleStep, SendSettlement, LostReply, HandoffStep, AnnounceHandoff, CompleteHandoff
  <2>3. CASE OtherChainStep
    BY <2>3, OtherFacts DEF workerVars
  <2>4. CASE UNCHANGED allVars
    BY <2>4 DEF allVars, workerVars
  <2>5. QED
    BY <2>1, <2>2, <2>3, <2>4, WorkerNextCases
<1>6. QED
  BY <1>3, <1>4, <1>5

(* A step that moves no cursor keeps the invariant, if the task that watch  *)
(* then holds is the one under its cursor.                                  *)
LEMMA CursorKept ==
  ASSUME JointInv, WorkerTypeOK', CursorInv, [WorkerNext]_allVars, cursors' = cursors,
         worker'[watch].pc \in TaskPcs =>
           LET kind == worker'[watch].kind IN
           /\ cursors[kind] < Len(taskIds[kind])
           /\ worker'[watch].task = taskIds[kind][cursors[kind] + 1],
         worker'[watch].pc = "advance" => ~Pending(worker[watch].task)'
  PROVE  CursorInv'
<1>1. WorkerTypeOK /\ \A k \in 1..4 : cursors[k] \in Nat /\ taskIds[k] \in Seq(Tasks)
  BY DEF JointInv, WorkerTypeOK
<1>2. \A k \in 1..4 : Len(taskIds[k]) \in Nat /\ Len(taskIds'[k]) \in Nat
  BY DEF JointInv, WorkerTypeOK
<1>3. \A k \in 1..4 : cursors'[k] <= Len(taskIds'[k])
  <2> SUFFICES ASSUME NEW k \in 1..4 PROVE cursors'[k] <= Len(taskIds'[k])
    OBVIOUS
  <2>1. cursors[k] <= Len(taskIds[k]) /\ Len(taskIds[k]) <= Len(taskIds'[k])
    BY ListsGrow DEF CursorInv
  <2>2. cursors[k] \in Nat /\ Len(taskIds[k]) \in Nat /\ Len(taskIds'[k]) \in Nat
    BY <1>1, <1>2
  <2>3. QED
    BY <2>1, <2>2
<1>4. \A k \in 1..4 : \A i \in 1..Len(taskIds'[k]) : status'[taskIds'[k][i]] # "None"
  BY ListsGrow
<1>5. CursorPassesNoPending'
  <2> SUFFICES ASSUME NEW k \in 1..4, NEW i \in 1..cursors[k]
               PROVE  ~Pending(taskIds[k][i])'
    BY DEF CursorPassesNoPending
  <2>1. i \in 1..Len(taskIds[k])
    <3>1. cursors[k] <= Len(taskIds[k]) /\ cursors[k] \in Nat /\ Len(taskIds[k]) \in Nat
      BY <1>1, <1>2 DEF CursorInv
    <3>2. QED
      BY <3>1
  <2>2. taskIds'[k][i] = taskIds[k][i]
    BY <2>1, ListsGrow
  <2>3. taskIds[k][i] \in Tasks
    BY <1>1, <2>1
  <2>4. status[taskIds[k][i]] # "None" /\ ~Pending(taskIds[k][i])
    BY <2>1 DEF CursorInv, CursorPassesNoPending
  <2>5. ~(status'[taskIds[k][i]] = "Pending")
    BY <2>3, <2>4, StatusSteps DEF Pending
  <2>6. QED
    BY <2>2, <2>5 DEF Pending
<1>6. ASSUME worker'[watch].pc \in TaskPcs
      PROVE  /\ cursors'[worker'[watch].kind] < Len(taskIds'[worker'[watch].kind])
             /\ worker'[watch].task =
                  taskIds'[worker'[watch].kind][cursors'[worker'[watch].kind] + 1]
  <2> DEFINE kind == worker'[watch].kind
  <2>1. kind \in 1..4
    BY WorkerAssumption DEF WorkerTypeOK, WorkerState
  <2>2. cursors[kind] < Len(taskIds[kind]) /\ worker'[watch].task = taskIds[kind][cursors[kind] + 1]
    BY <1>6
  <2> HIDE DEF kind
  <2>3. cursors[kind] \in Nat /\ Len(taskIds[kind]) \in Nat /\ Len(taskIds'[kind]) \in Nat
    BY <1>1, <1>2, <2>1
  <2>4. cursors[kind] + 1 \in 1..Len(taskIds[kind])
    BY <2>2, <2>3
  <2>5. Len(taskIds[kind]) <= Len(taskIds'[kind])
        /\ taskIds'[kind][cursors[kind] + 1] = taskIds[kind][cursors[kind] + 1]
    BY <2>1, <2>4, ListsGrow
  <2>6. QED
    BY <2>2, <2>3, <2>5 DEF kind
<1>7. QED
  BY <1>3, <1>4, <1>5, <1>6 DEF CursorInv, At

(* Between taking a task and passing it, watch keeps the task and its kind. *)
LEMMA WatchHolds ==
  ASSUME WorkerTypeOK, NEW w \in Workers, OwnStep(w) \/ HandoffStep(w) \/ SettleStep(w)
  PROVE  /\ cursors' = cursors
         /\ worker'[watch].pc \in TaskPcs =>
              /\ worker[watch].pc \in TaskPcs
              /\ worker'[watch].task = worker[watch].task
              /\ worker'[watch].kind = worker[watch].kind
         /\ worker'[watch].pc = "advance" =>
              worker[watch].pc = "advance" \/ (w = watch /\ SettleStep(w))
<1> DEFINE m == worker[w]
           Held(n) == n.pc \in TaskPcs => /\ m.pc \in TaskPcs /\ n.task = m.task /\ n.kind = m.kind
                                          /\ n.pc = "advance" => SettleStep(w)
<1>1. m \in WorkerState /\ MemoryOK(m) /\ worker \in [Workers -> WorkerState] /\ watch \in Workers
  BY WorkerAssumption DEF WorkerTypeOK
<1>2. cursors' = cursors
  BY DEF OwnStep, StartCommand, EndCommand, ReadRoot, CommitLedger, ReadDigest,
     SettlementReverts, BeginRotation, ReadRecords, InstallSnapshot, HandoffReverts, Crash,
     SettleStep, SendSettlement, LostReply, HandoffStep, AnnounceHandoff, CompleteHandoff
<1>3. ASSUME Stop(w) \/ Exit(w) PROVE \E n : worker' = [worker EXCEPT ![w] = n] /\ Held(n)
  BY <1>3, StopFacts DEF TaskPcs
<1>4. ASSUME NEW root, m.pc \in TaskPcs,
             \/ worker' = [worker EXCEPT ![w].pc = "digest", ![w].new = root]
             \/ worker' = [worker EXCEPT ![w].pc = "commit", ![w].old = root]
             \/ worker' = [worker EXCEPT ![w].pc = "send", ![w].committee = root]
      PROVE  \E n : worker' = [worker EXCEPT ![w] = n] /\ Held(n)
  <2>1. worker' = [worker EXCEPT ![w] = worker'[w]]
    BY <1>1, <1>4 DEF WorkerState
  <2>2. /\ worker'[w].pc \in {"digest", "commit", "send"}
        /\ worker'[w].task = m.task /\ worker'[w].kind = m.kind
    BY <1>1, <1>4 DEF WorkerState
  <2>3. QED
    BY <1>4, <2>1, <2>2
<1>5. ASSUME NEW x,
             \/ worker' = [worker EXCEPT ![w].pc = "records", ![w].new = x]
             \/ worker' = [worker EXCEPT ![w].pc = "install", ![w].records = x]
             \/ m.pc = "install" /\ worker' = [worker EXCEPT ![w].installed = x]
             \/ worker' = [worker EXCEPT ![w].pc = "finalize"]
      PROVE  \E n : worker' = [worker EXCEPT ![w] = n] /\ Held(n)
  <2>1. worker' = [worker EXCEPT ![w] = worker'[w]]
    BY <1>1, <1>5 DEF WorkerState
  <2>2. worker'[w].pc \in {"records", "install", "finalize"}
    BY <1>1, <1>5 DEF WorkerState
  <2>3. QED
    BY <2>1, <2>2 DEF TaskPcs
<1>6. ASSUME SettleStep(w) PROVE \E n : worker' = [worker EXCEPT ![w] = n] /\ Held(n)
  <2>1. At(w, "send") /\ (Goto(w, "advance") \/ Stop(w))
    BY <1>6 DEF SettleStep, SendSettlement, LostReply
  <2>2. CASE Goto(w, "advance")
    <3>1. worker' = [worker EXCEPT ![w] = worker'[w]]
      BY <1>1, <2>2 DEF Goto, WorkerState
    <3>2. worker'[w].task = m.task /\ worker'[w].kind = m.kind /\ m.pc \in TaskPcs
      BY <1>1, <2>1, <2>2 DEF Goto, WorkerState, At, TaskPcs
    <3>3. QED
      BY <1>6, <3>1, <3>2
  <2>3. QED
    BY <1>3, <2>1, <2>2
<1>7. ASSUME w # watch, StartCommand(w)
      PROVE  worker'[watch] = worker[watch]
  BY <1>1, <1>7 DEF StartCommand
<1>8. CASE StartCommand(w)
  <2>1. w # watch
    BY <1>8 DEF StartCommand
  <2>2. QED
    BY <1>2, <1>7, <1>8, <2>1
<1>9. CASE ~StartCommand(w)
  <2>1. \E n : worker' = [worker EXCEPT ![w] = n] /\ Held(n)
    <3>1. CASE CommitLedger(w)
      <4>1. m.pc \in TaskPcs /\ \/ Stop(w)
                                \/ \E root : worker' = [worker EXCEPT ![w].pc = "digest", ![w].new = root]
        BY <3>1 DEF CommitLedger, At, TaskPcs
      <4>2. QED
        BY <1>3, <1>4, <4>1
    <3>2. CASE ReadRoot(w) \/ ReadDigest(w)
      <4>1. m.pc \in TaskPcs
        BY <3>2 DEF ReadRoot, ReadDigest, At, TaskPcs
      <4>2. \E root : \/ worker' = [worker EXCEPT ![w].pc = "commit", ![w].old = root]
                      \/ worker' = [worker EXCEPT ![w].pc = "send", ![w].committee = root]
        BY <3>2 DEF ReadRoot, ReadDigest
      <4>3. QED
        BY <1>4, <4>1, <4>2
    <3>3. CASE EndCommand(w) \/ SettlementReverts(w) \/ HandoffReverts(w) \/ Crash(w)
                 \/ CompleteHandoff(w)
      BY <1>3, <3>3 DEF EndCommand, SettlementReverts, HandoffReverts, Crash, CompleteHandoff
    <3>4. CASE BeginRotation(w) \/ ReadRecords(w) \/ AnnounceHandoff(w)
                 \/ \E n \in NextNodes : InstallSnapshot(w, n)
      <4>1. \/ Exit(w)
            \/ \E x : \/ worker' = [worker EXCEPT ![w].pc = "records", ![w].new = x]
                      \/ worker' = [worker EXCEPT ![w].pc = "install", ![w].records = x]
                      \/ m.pc = "install" /\ worker' = [worker EXCEPT ![w].installed = x]
                      \/ worker' = [worker EXCEPT ![w].pc = "finalize"]
        BY <3>4 DEF BeginRotation, ReadRecords, AnnounceHandoff, InstallSnapshot, Goto, At
      <4>2. QED
        BY <1>3, <1>5, <4>1
    <3>5. QED
      BY <1>6, <1>9, <3>1, <3>2, <3>3, <3>4 DEF OwnStep, HandoffStep
  <2>2. PICK n : worker' = [worker EXCEPT ![w] = n] /\ Held(n)
    BY <2>1
  <2>3. w # watch => worker'[watch] = worker[watch]
    BY <1>1, <2>2
  <2>4. CASE w # watch
    BY <1>2, <2>3, <2>4
  <2>5. CASE w = watch
    <3>1. worker'[watch] = n /\ worker[watch] = m
      BY <1>1, <2>2, <2>5
    <3>2. n.pc = "advance" => n.pc \in TaskPcs
      BY DEF TaskPcs
    <3>3. QED
      BY <1>2, <2>2, <2>5, <3>1, <3>2
  <2>6. QED
    BY <2>4, <2>5
<1>10. QED
  BY <1>8, <1>9

LEMMA CursorInit == WorkerInit => CursorInv
<1> SUFFICES ASSUME WorkerInit PROVE CursorInv
  OBVIOUS
<1>1. \A k \in 1..4 : cursors[k] = 0 /\ taskIds[k] = <<>>
  BY DEF WorkerInit
<1>2. worker[watch].pc = "idle"
  BY IdleTyped, WorkerAssumption DEF WorkerInit
<1>3. QED
  BY <1>1, <1>2 DEF CursorInv, CursorPassesNoPending, TaskPcs, At

LEMMA CursorStep ==
  ASSUME JointInv, JointInv', CursorInv, [WorkerNext]_allVars
  PROVE  CursorInv'
<1> DEFINE m == worker[watch]
           Under(n) == n.pc \in TaskPcs => /\ cursors[n.kind] < Len(taskIds[n.kind])
                                           /\ n.task = taskIds[n.kind][cursors[n.kind] + 1]
<1>1. /\ WorkerTypeOK /\ WorkerTypeOK' /\ TypeOK /\ LedgerInv
      /\ m \in WorkerState /\ MemoryOK(m) /\ watch \in Workers
      /\ worker \in [Workers -> WorkerState]
  BY WorkerAssumption DEF JointInv, WorkerTypeOK, LedgerInv
<1>2. Under(m) /\ (m.pc = "advance" => ~Pending(m.task))
  BY DEF CursorInv, At
<1>3. ASSUME UNCHANGED <<cursors, worker>> PROVE CursorInv'
  <2>1. m.pc = "advance" => ~Pending(m.task)'
    <3>1. ASSUME m.pc = "advance" PROVE m.task \in Tasks /\ status[m.task] # "None"
      <4>1. m.pc \in TaskPcs /\ m.task \in Tasks
        BY <1>1, <3>1 DEF MemoryOK, TaskPcs
      <4>2. m.kind \in 1..4 /\ cursors[m.kind] \in Nat /\ Len(taskIds[m.kind]) \in Nat
        <5>1. m.kind \in 1..4
          BY <1>1 DEF WorkerState
        <5>2. taskIds[m.kind] \in Seq(Tasks) /\ cursors[m.kind] \in Nat
          BY <1>1, <5>1 DEF WorkerTypeOK
        <5>3. QED
          BY <5>1, <5>2
      <4>3. cursors[m.kind] + 1 \in 1..Len(taskIds[m.kind])
            /\ m.task = taskIds[m.kind][cursors[m.kind] + 1]
        BY <1>2, <4>1, <4>2
      <4>4. QED
        BY <4>1, <4>2, <4>3 DEF CursorInv
    <3>2. ASSUME m.pc = "advance" PROVE ~(status'[m.task] = "Pending")
      BY <1>2, <3>1, <3>2, StatusSteps DEF Pending
    <3>3. worker' = worker
      BY <1>3
    <3>4. QED
      BY <3>2, <3>3 DEF Pending
  <2>2. worker'[watch].pc = "advance" => ~Pending(worker[watch].task)'
    BY <1>3, <2>1 DEF Pending
  <2>3. QED
    BY <1>1, <1>2, <1>3, <2>2, CursorKept
<1>4. CASE AdvanceCursor
  <2> DEFINE kind == m.kind
  <2>1. /\ m.pc = "advance" /\ cursors' = [cursors EXCEPT ![kind] = cursors[kind] + 1]
        /\ worker' = [worker EXCEPT ![watch].pc = "next"] /\ UNCHANGED taskIds
        /\ UNCHANGED status
    BY <1>4 DEF AdvanceCursor, Goto, At, vars
  <2>2. kind \in 1..4 /\ cursors \in [1..4 -> Nat] /\ taskIds \in [1..4 -> Seq(Tasks)]
    BY <1>1 DEF WorkerState, WorkerTypeOK
  <2>3. cursors[kind] < Len(taskIds[kind]) /\ ~Pending(taskIds[kind][cursors[kind] + 1])
    BY <1>2, <2>1 DEF TaskPcs
  <2>4. worker'[watch].pc = "next"
    BY <1>1, <2>1 DEF WorkerState
  <2> HIDE DEF kind
  <2>5. ASSUME NEW k \in 1..4
        PROVE  /\ cursors'[k] <= Len(taskIds[k])
               /\ \A i \in 1..cursors'[k] : ~Pending(taskIds[k][i])
    <3>1. cursors[k] \in Nat /\ Len(taskIds[k]) \in Nat /\ cursors[k] <= Len(taskIds[k])
      BY <2>2 DEF CursorInv
    <3>2. \A i \in 1..cursors[k] : ~Pending(taskIds[k][i])
      BY DEF CursorInv, CursorPassesNoPending
    <3>3. CASE k = kind
      <4>1. cursors'[k] = cursors[k] + 1
        BY <2>1, <2>2, <3>3
      <4>2. \A i \in 1..(cursors[k] + 1) : i \in 1..cursors[k] \/ i = cursors[k] + 1
        BY <3>1
      <4>3. QED
        BY <2>3, <3>1, <3>2, <3>3, <4>1, <4>2
    <3>4. CASE k # kind
      BY <2>1, <2>2, <3>1, <3>2, <3>4
    <3>5. QED
      BY <3>3, <3>4
  <2>6. \A k \in 1..4 : \A i \in 1..Len(taskIds[k]) : status[taskIds[k][i]] # "None"
    BY DEF CursorInv
  <2>7. QED
    BY <2>1, <2>4, <2>5, <2>6 DEF CursorInv, CursorPassesNoPending, Pending, TaskPcs, At
<1>5. CASE Poll \/ Sleep
  <2>1. cursors' = cursors /\ worker'[watch].pc \in {"next", "idle"}
    <3>1. CASE Poll
      <4>1. PICK counts : worker' =
              [worker EXCEPT ![watch] = [Idle EXCEPT !.pc = "next", !.counts = counts]]
        BY <3>1 DEF Poll
      <4>2. [Idle EXCEPT !.pc = "next", !.counts = counts].pc = "next"
        BY IdleTyped DEF WorkerState
      <4>3. QED
        BY <1>1, <3>1, <4>1, <4>2 DEF Poll
    <3>2. CASE Sleep
      BY <1>1, <3>2 DEF Sleep, Goto, WorkerState
    <3>3. QED
      BY <1>5, <3>1, <3>2
  <2>2. QED
    BY <1>1, <2>1, CursorKept DEF TaskPcs
<1>6. ASSUME cursors' = cursors, Stop(watch) PROVE CursorInv'
  <2>1. PICK new : worker' = [worker EXCEPT ![watch] = new] /\ new.pc \in {"idle", "rest"}
    BY <1>1, <1>6, StopFacts
  <2>2. worker'[watch].pc \in {"idle", "rest"}
    BY <1>1, <2>1
  <2>3. QED
    BY <1>1, <1>6, <2>2, CursorKept DEF TaskPcs
<1>7. CASE NextTask /\ ~Stop(watch)
  <2> DEFINE kind == m.kind
             index == cursors[kind] + 1
             task == taskIds[kind][index]
  <2>1. cursors' = cursors /\ status' = status
    BY <1>7 DEF NextTask, vars
  <2>2. CASE ~(index <= m.counts[kind])
    <3>1. worker' = [worker EXCEPT ![watch].kind = kind + 1] /\ m.pc = "next"
      BY <1>7, <2>2 DEF NextTask, At
    <3>2. worker'[watch].pc = "next"
      BY <1>1, <3>1 DEF WorkerState
    <3>3. QED
      BY <1>1, <2>1, <3>2, CursorKept DEF TaskPcs
  <2>3. CASE index <= m.counts[kind]
    <3>1. PICK pc \in {"advance", "open", "root"} :
            /\ worker' = [worker EXCEPT ![watch].task = task, ![watch].pc = pc]
            /\ pc = "advance" => ~Pending(task)
      BY <1>7, <2>3 DEF NextTask
    <3>2. worker'[watch].task = task /\ worker'[watch].pc = pc /\ worker'[watch].kind = kind
      <4> HIDE DEF task
      <4> QED BY <1>1, <3>1 DEF WorkerState
    <3>3. cursors[kind] < Len(taskIds[kind])
      <4>1. kind \in 1..4 /\ m.counts \in [1..4 -> Nat]
        BY <1>1 DEF WorkerState
      <4>2. m.counts[kind] <= Len(taskIds[kind]) /\ m.counts[kind] \in Nat
        BY <1>1, <4>1 DEF MemoryOK
      <4>3. taskIds[kind] \in Seq(Tasks) /\ cursors[kind] \in Nat
        BY <1>1, <4>1 DEF WorkerTypeOK
      <4>4. Len(taskIds[kind]) \in Nat
        BY <4>3
      <4> HIDE DEF kind
      <4>5. QED
        BY <2>3, <4>2, <4>3, <4>4
    <3>4. worker'[watch].pc = "advance" => ~Pending(worker[watch].task)'
      <4> HIDE DEF task
      <4> QED BY <2>1, <3>1, <3>2 DEF Pending
    <3>5. QED
      BY <1>1, <2>1, <3>2, <3>3, <3>4, CursorKept
  <2>4. QED
    BY <2>2, <2>3
<1>8. CASE OpenBalance /\ ~Stop(watch)
  <2>1. m.pc = "open" /\ worker' = [worker EXCEPT ![watch].pc = "digest"] /\ cursors' = cursors
    BY <1>8 DEF OpenBalance, At, Goto
  <2>2. /\ worker'[watch].pc = "digest" /\ worker'[watch].kind = m.kind
        /\ worker'[watch].task = m.task /\ m.pc \in TaskPcs
    BY <1>1, <2>1 DEF WorkerState, TaskPcs
  <2>3. QED
    BY <1>1, <1>2, <2>1, <2>2, CursorKept
<1>9. ASSUME NEW w \in Workers, OwnStep(w) \/ HandoffStep(w) \/ SettleStep(w)
      PROVE  CursorInv'
  <2>1. /\ cursors' = cursors
        /\ worker'[watch].pc \in TaskPcs => /\ m.pc \in TaskPcs
                                            /\ worker'[watch].task = m.task
                                            /\ worker'[watch].kind = m.kind
        /\ worker'[watch].pc = "advance" => m.pc = "advance" \/ (w = watch /\ SettleStep(w))
    BY <1>1, <1>9, WatchHolds
  <2>2. CASE ~(m.pc = "advance" /\ worker'[watch].pc = "advance")
    <3>1. worker'[watch].pc = "advance" => ~Pending(worker[watch].task)'
      <4> SUFFICES ASSUME worker'[watch].pc = "advance"
                   PROVE  ~(status'[worker'[watch].task] = "Pending")
        BY DEF Pending
      <4>1. w = watch /\ SettleStep(w)
        BY <2>1, <2>2
      <4>2. At(w, "send") /\ Settle(w)
        BY <4>1 DEF SettleStep, SendSettlement, LostReply
      <4>3. m.task \in Tasks /\ status' = [status EXCEPT ![m.task] = "Finalized"]
        BY <1>1, <4>1, <4>2, SettleFacts
      <4>4. worker'[watch].task = m.task
        BY <2>1 DEF TaskPcs
      <4>5. QED
        BY <1>1, <4>3, <4>4 DEF TypeOK
    <3>2. QED
      BY <1>1, <1>2, <2>1, <3>1, CursorKept
  <2>3. CASE m.pc = "advance" /\ worker'[watch].pc = "advance"
    <3>1. worker'[watch].task = m.task /\ m.task \in Tasks
      BY <1>1, <2>1, <2>3 DEF TaskPcs, MemoryOK
    <3>2. status[m.task] # "None" /\ ~Pending(m.task)
      <4>1. m.kind \in 1..4
        BY <1>1 DEF WorkerState
      <4>2. taskIds[m.kind] \in Seq(Tasks) /\ cursors[m.kind] \in Nat
        BY <1>1, <4>1 DEF WorkerTypeOK
      <4>3. cursors[m.kind] + 1 \in 1..Len(taskIds[m.kind])
            /\ m.task = taskIds[m.kind][cursors[m.kind] + 1]
        <5>1. Len(taskIds[m.kind]) \in Nat
          BY <4>2
        <5>2. m.pc \in TaskPcs
          BY <2>3 DEF TaskPcs
        <5>3. QED
          BY <1>2, <4>2, <5>1, <5>2
      <4>4. QED
        BY <1>2, <2>3, <4>1, <4>3 DEF CursorInv
    <3>3. ~(status'[m.task] = "Pending")
      BY <3>1, <3>2, StatusSteps DEF Pending
    <3>4. ~Pending(worker[watch].task)'
      BY <3>1, <3>3 DEF Pending
    <3>5. QED
      BY <1>1, <1>2, <2>1, <3>4, CursorKept
  <2>4. QED
    BY <2>2, <2>3
<1>10. ASSUME PassNext PROVE CursorInv'
  <2>1. CASE NextTask /\ Stop(watch)
    BY <1>6, <2>1 DEF NextTask
  <2>2. CASE OpenBalance /\ Stop(watch)
    BY <1>6, <2>2 DEF OpenBalance
  <2>3. QED
    BY <1>4, <1>5, <1>7, <1>8, <1>10, <2>1, <2>2 DEF PassNext
<1>11. ASSUME \/ \E task \in Tasks : RequestTask(task)
              \/ OtherChainStep
              \/ UNCHANGED allVars
       PROVE  UNCHANGED <<cursors, worker>>
  <2>1. CASE \E task \in Tasks : RequestTask(task)
    BY <2>1 DEF RequestTask
  <2>2. CASE OtherChainStep
    BY <2>2, OtherFacts DEF workerVars
  <2>3. CASE UNCHANGED allVars
    BY <2>3 DEF allVars, workerVars
  <2>4. QED
    BY <1>11, <2>1, <2>2, <2>3
<1>12. QED
  BY <1>3, <1>9, <1>10, <1>11, WorkerNextCases

(* No cursor passes a task that waits, in any behaviour: a crash between a  *)
(* settlement and the update of its cursor repeats a task and skips none.   *)
THEOREM CursorNeverPassesPending ==
  ASSUME LedgerRoots
  PROVE  WorkerSpec => []CursorPassesNoPending
<1>1. JointInv /\ JointInv' /\ CursorInv /\ [WorkerNext]_allVars => CursorInv'
  BY CursorStep
<1>2. CursorInv => CursorPassesNoPending
  BY DEF CursorInv
<1>3. QED
  BY <1>1, <1>2, CursorInit, JointAlways, PTL DEF WorkerSpec

-----------------------------------------------------------------------------
(* The snapshots of the next nodes, with one daemon *)

(* A step of watch that ends outside a rotation.                            *)
LEMMA AwayFromRotation ==
  ASSUME SnapshotInv, WorkerTypeOK, WorkerTypeOK', UNCHANGED snapshots,
         worker'[watch].pc \notin RotationPcs,
         worker'[watch].pc = "rest" => worker'[watch].installed = {},
         \A a \in Commitments :
           \/ ledger'.balances[a] = ledger.balances[a]
           \/ ledger'.balances[a].version > ledger.balances[a].version
  PROVE  SnapshotInv'
<1>1. \A a \in Commitments : /\ ledger.balances[a].version \in Nat
                             /\ ledger'.balances[a].version \in Nat
  BY DEF WorkerTypeOK, Ledger, Record
<1>2. \A a \in Commitments : /\ ledger'.balances[a].version = 0 => ledger'.balances[a] = L!NoRecord
                             /\ ledger.balances[a].version > 0 => ledger'.balances[a].version > 0
  <2> SUFFICES ASSUME NEW a \in Commitments
               PROVE  /\ ledger'.balances[a].version = 0 => ledger'.balances[a] = L!NoRecord
                      /\ ledger.balances[a].version > 0 => ledger'.balances[a].version > 0
    OBVIOUS
  <2>1. CASE ledger'.balances[a] = ledger.balances[a]
    BY <2>1 DEF SnapshotInv
  <2>2. CASE ledger'.balances[a].version > ledger.balances[a].version
    BY <1>1, <2>2
  <2>3. QED
    BY <2>1, <2>2
<1>3. worker'[watch].pc \notin {"records", "install", "finalize"}
  BY DEF RotationPcs
<1>4. snapshots' = snapshots
  OBVIOUS
<1>5. QED
  BY <1>2, <1>3, <1>4 DEF SnapshotInv, At, RotationPcs

LEMMA SnapshotInit == WorkerInit => SnapshotInv
<1> SUFFICES ASSUME WorkerInit PROVE SnapshotInv
  OBVIOUS
<1>1. worker[watch].pc = "idle"
  BY IdleTyped, WorkerAssumption DEF WorkerInit
<1>2. /\ \A a \in Commitments : ledger.balances[a] = L!NoRecord
      /\ \A n \in NextNodes, a \in Commitments : snapshots[n].balances[a] = L!NoRecord
      /\ L!NoRecord.version = 0
  BY DEF WorkerInit, L!EmptyLedger, L!NoRecord
<1>3. QED
  BY <1>1, <1>2 DEF SnapshotInv, RotationPcs, At

(* A step of watch in a rotation: it reads, installs or announces.          *)
LEMMA RotationKept ==
  ASSUME SnapshotInv, WorkerTypeOK,
         \/ BeginRotation(watch) \/ ReadRecords(watch)
         \/ \E n \in NextNodes : InstallSnapshot(watch, n)
         \/ AnnounceHandoff(watch) /\ Goto(watch, "finalize")
  PROVE  SnapshotInv'
<1> DEFINE m == worker[watch]
<1>1. /\ watch \in Workers /\ m \in WorkerState /\ worker \in [Workers -> WorkerState]
      /\ ledger' = ledger /\ rotated' = rotated
  BY WorkerAssumption DEF WorkerTypeOK, BeginRotation, ReadRecords, InstallSnapshot,
     AnnounceHandoff
<1>2. CASE BeginRotation(watch)
  <2>1. /\ m.pc = "rest" /\ ~rotated /\ UNCHANGED snapshots
        /\ worker' = [worker EXCEPT ![watch].pc = "records", ![watch].new = ledger.root]
    BY <1>2 DEF BeginRotation, At
  <2>2. /\ worker'[watch].pc = "records" /\ worker'[watch].new = ledger.root
        /\ worker'[watch].installed = {}
    BY <1>1, <2>1 DEF WorkerState, SnapshotInv
  <2>3. QED
    BY <1>1, <2>1, <2>2 DEF SnapshotInv, RotationPcs, At
<1>3. CASE ReadRecords(watch)
  <2>1. /\ m.pc = "records" /\ UNCHANGED snapshots
        /\ worker' = [worker EXCEPT ![watch].pc = "install", ![watch].records = ledger.balances]
    BY <1>3 DEF ReadRecords, At
  <2>2. /\ worker'[watch].pc = "install" /\ worker'[watch].new = ledger.root
        /\ worker'[watch].installed = {} /\ worker'[watch].records = ledger.balances /\ ~rotated
    BY <1>1, <2>1 DEF WorkerState, SnapshotInv, RotationPcs
  <2>3. QED
    BY <1>1, <2>1, <2>2 DEF SnapshotInv, RotationPcs, At
<1>4. ASSUME NEW n \in NextNodes, InstallSnapshot(watch, n) PROVE SnapshotInv'
  <2> DEFINE taken == [a \in Commitments |->
               IF m.records[a].version > 0 THEN m.records[a] ELSE snapshots[n].balances[a]]
  <2>1. /\ m.pc = "install" /\ m.new = ledger.root /\ m.records = ledger.balances /\ ~rotated
    BY <1>4 DEF InstallSnapshot, At, SnapshotInv, RotationPcs
  <2>2. /\ snapshots' = [snapshots EXCEPT ![n] =
             [snapshots[n] EXCEPT !.root = m.new, !.balances = taken]]
        /\ worker' = [worker EXCEPT ![watch].installed = m.installed \cup {n}]
    BY <1>4 DEF InstallSnapshot
  <2>3. /\ ledger.balances \in [Commitments -> Record]
        /\ snapshots[n] \in Ledger /\ snapshots \in [NextNodes -> Ledger]
    BY DEF WorkerTypeOK, Ledger
  <2>4. taken = ledger.balances
    <3>1. ASSUME NEW a \in Commitments PROVE taken[a] = ledger.balances[a]
      <4>1. ledger.balances[a].version \in Nat /\ snapshots[n].balances[a].version \in Nat
        BY <2>3 DEF Ledger, Record
      <4>2. CASE ledger.balances[a].version > 0
        BY <2>1, <4>2
      <4>3. CASE ledger.balances[a].version = 0
        <5>1. ledger.balances[a] = L!NoRecord /\ snapshots[n].balances[a] = L!NoRecord
          BY <4>1, <4>3 DEF SnapshotInv
        <5>2. QED
          BY <2>1, <5>1
      <4>4. QED
        BY <4>1, <4>2, <4>3
    <3>2. QED
      BY <2>3, <3>1
  <2> HIDE DEF taken
  <2>5. /\ snapshots'[n].root = ledger.root /\ snapshots'[n].balances = ledger.balances
        /\ \A k \in NextNodes \ {n} : snapshots'[k] = snapshots[k]
    BY <2>1, <2>2, <2>3, <2>4 DEF Ledger
  <2>6. /\ worker'[watch].pc = "install" /\ worker'[watch].new = m.new
        /\ worker'[watch].records = m.records
        /\ worker'[watch].installed = m.installed \cup {n}
    BY <1>1, <2>1, <2>2 DEF WorkerState
  <2>7. ASSUME NEW k \in NextNodes, NEW a \in Commitments
        PROVE  LET record == snapshots'[k].balances[a] IN
               /\ record.version = 0 => record = L!NoRecord
               /\ record.version > 0 => ledger.balances[a].version > 0
    BY <2>5 DEF SnapshotInv
  <2>8. \A k \in m.installed :
          snapshots'[k].root = ledger.root /\ snapshots'[k].balances = ledger.balances
    <3>1. m.installed \subseteq NextNodes
      BY <1>1 DEF WorkerState
    <3>2. QED
      BY <2>1, <2>5, <3>1 DEF SnapshotInv
  <2>9. QED
    BY <1>1, <2>1, <2>5, <2>6, <2>7, <2>8 DEF SnapshotInv, RotationPcs, At
<1>5. CASE AnnounceHandoff(watch) /\ Goto(watch, "finalize")
  <2>1. /\ m.pc = "install" /\ m.installed = NextNodes /\ UNCHANGED snapshots
        /\ worker' = [worker EXCEPT ![watch].pc = "finalize"]
    BY <1>5 DEF AnnounceHandoff, Goto, At
  <2>2. /\ worker'[watch].pc = "finalize" /\ worker'[watch].new = m.new
        /\ worker'[watch].records = m.records /\ worker'[watch].installed = m.installed
    BY <1>1, <2>1 DEF WorkerState
  <2>3. QED
    BY <1>1, <2>1, <2>2 DEF SnapshotInv, RotationPcs, At
<1>6. QED
  BY <1>2, <1>3, <1>4, <1>5

LEMMA SnapshotStep ==
  ASSUME Workers = {watch}, JointInv, JointInv', SnapshotInv, [WorkerNext]_allVars
  PROVE  SnapshotInv'
<1> DEFINE m == worker[watch]
<1>1. /\ WorkerTypeOK /\ WorkerTypeOK' /\ LedgerInv /\ m \in WorkerState /\ MemoryOK(m)
      /\ watch \in Workers /\ worker \in [Workers -> WorkerState]
  BY WorkerAssumption DEF JointInv, WorkerTypeOK
<1>2. ASSUME UNCHANGED <<ledger, rotated, snapshots, worker>> PROVE SnapshotInv'
  BY <1>2 DEF SnapshotInv, RotationPcs, At
<1>3. ASSUME UNCHANGED <<ledger, snapshots>>, Stop(watch) \/ Exit(watch) PROVE SnapshotInv'
  <2>1. PICK new : /\ worker' = [worker EXCEPT ![watch] = new]
                   /\ new.pc \in {"idle", "rest"} /\ new.installed = {}
    BY <1>1, <1>3, StopFacts
  <2>2. worker'[watch] = new
    BY <1>1, <2>1
  <2>3. QED
    BY <1>1, <1>3, <2>1, <2>2, AwayFromRotation DEF RotationPcs
<1>4. ASSUME UNCHANGED <<ledger, snapshots>>,
             worker'[watch].pc \in {"idle", "next"} \cup TaskPcs
      PROVE  SnapshotInv'
  BY <1>1, <1>4, AwayFromRotation DEF RotationPcs, TaskPcs
<1>5. ASSUME PassNext PROVE SnapshotInv'
  <2>1. UNCHANGED <<ledger, snapshots>>
    BY <1>5 DEF PassNext, Poll, NextTask, AdvanceCursor, OpenBalance, Sleep
  <2>2. CASE Stop(watch)
    BY <1>3, <2>1, <2>2
  <2>3. CASE Poll
    <3>1. PICK counts : worker' =
            [worker EXCEPT ![watch] = [Idle EXCEPT !.pc = "next", !.counts = counts]]
      BY <2>3 DEF Poll
    <3>2. [Idle EXCEPT !.pc = "next", !.counts = counts].pc = "next"
      BY IdleTyped DEF WorkerState
    <3>3. worker'[watch].pc = "next"
      BY <1>1, <3>1, <3>2
    <3>4. QED
      BY <1>4, <2>1, <3>3
  <2>4. CASE NextTask /\ ~Stop(watch)
    <3> DEFINE index == cursors[m.kind] + 1
               task == taskIds[m.kind][index]
               pc == CASE ~Pending(task) -> "advance"
                       [] Pending(task) /\ task.kind = "opening" -> "open"
                       [] OTHER -> "root"
    <3>1. pc \in {"advance", "open", "root"}
      OBVIOUS
    <3>2. CASE index <= m.counts[m.kind]
      <4>1. worker' = [worker EXCEPT ![watch].task = task, ![watch].pc = pc]
        BY <2>4, <3>2 DEF NextTask
      <4> HIDE DEF pc, task, index
      <4>2. worker'[watch].pc = pc
        BY <1>1, <4>1 DEF WorkerState
      <4>3. QED
        BY <1>4, <2>1, <3>1, <4>2 DEF TaskPcs
    <3>3. CASE ~(index <= m.counts[m.kind])
      <4>1. m.pc = "next" /\ worker' = [worker EXCEPT ![watch].kind = m.kind + 1]
        BY <2>4, <3>3 DEF NextTask, At
      <4>2. worker'[watch].pc = "next"
        BY <1>1, <4>1 DEF WorkerState
      <4>3. QED
        BY <1>4, <2>1, <4>2
    <3>4. QED
      BY <3>2, <3>3
  <2>5. CASE AdvanceCursor \/ Sleep \/ (OpenBalance /\ ~Stop(watch))
    <3>1. \E pc \in {"next", "idle", "digest"} : worker' = [worker EXCEPT ![watch].pc = pc]
      BY <2>5 DEF AdvanceCursor, Sleep, OpenBalance, Goto
    <3>2. worker'[watch].pc \in {"next", "idle", "digest"}
      BY <1>1, <3>1 DEF WorkerState
    <3>3. QED
      BY <1>4, <2>1, <3>2 DEF TaskPcs
  <2>6. QED
    BY <1>5, <2>2, <2>3, <2>4, <2>5 DEF PassNext
<1>6. ASSUME CommitLedger(watch) PROVE SnapshotInv'
  <2>1. CASE ~Accepts(m.task, m.old)
    BY <1>3, <1>6, <2>1 DEF CommitLedger
  <2>2. CASE Accepts(m.task, m.old)
    <3>1. m.task \in Tasks /\ m.task.kind # "opening"
      BY <1>1, <1>6 DEF CommitLedger, At, MemoryOK, TaskPcs
    <3>2. /\ ledger' = Applied(m.task) /\ UNCHANGED snapshots
          /\ worker' = [worker EXCEPT ![watch].pc = "digest", ![watch].new = ledger'.root]
      BY <1>6, <2>2 DEF CommitLedger
    <3>3. \A a \in Commitments :
            \/ ledger'.balances[a] = ledger.balances[a]
            \/ ledger'.balances[a].version > ledger.balances[a].version
      <4>1. ledger \in Ledger
        BY <1>1 DEF WorkerTypeOK
      <4>2. QED
        BY <2>2, <3>1, <3>2, <4>1, AppliedFacts
    <3>4. worker'[watch].pc = "digest"
      BY <1>1, <3>2 DEF WorkerState
    <3>5. QED
      BY <1>1, <3>2, <3>3, <3>4, AwayFromRotation DEF RotationPcs
  <2>3. QED
    BY <2>1, <2>2
<1>7. ASSUME OwnStep(watch) PROVE SnapshotInv'
  <2>1. CASE EndCommand(watch) \/ SettlementReverts(watch) \/ HandoffReverts(watch) \/ Crash(watch)
    BY <1>3, <2>1 DEF EndCommand, SettlementReverts, HandoffReverts, Crash
  <2>2. CASE ReadRoot(watch) \/ ReadDigest(watch)
    <3>1. /\ UNCHANGED <<ledger, snapshots>>
          /\ \E x : \/ worker' = [worker EXCEPT ![watch].pc = "commit", ![watch].old = x]
                    \/ worker' = [worker EXCEPT ![watch].pc = "send", ![watch].committee = x]
      BY <2>2 DEF ReadRoot, ReadDigest
    <3>2. worker'[watch].pc \in {"commit", "send"}
      BY <1>1, <3>1 DEF WorkerState
    <3>3. QED
      BY <1>4, <3>1, <3>2 DEF TaskPcs
  <2>3. ~StartCommand(watch)
    BY DEF StartCommand
  <2>4. QED
    BY <1>1, <1>6, <1>7, <2>1, <2>2, <2>3, RotationKept DEF OwnStep
<1>8. ASSUME SettleStep(watch) PROVE SnapshotInv'
  <2>1. UNCHANGED <<ledger, snapshots>> /\ (Goto(watch, "advance") \/ Stop(watch))
    BY <1>8 DEF SettleStep, SendSettlement, LostReply
  <2>2. CASE Goto(watch, "advance")
    <3>1. worker'[watch].pc = "advance"
      BY <1>1, <2>2 DEF Goto, WorkerState
    <3>2. QED
      BY <1>4, <2>1, <3>1 DEF TaskPcs
  <2>3. QED
    BY <1>3, <2>1, <2>2
<1>9. ASSUME HandoffStep(watch) PROVE SnapshotInv'
  <2>1. CASE AnnounceHandoff(watch) /\ Goto(watch, "finalize")
    BY <1>1, <2>1, RotationKept
  <2>2. CASE Exit(watch)
    <3>1. UNCHANGED <<ledger, snapshots>>
      BY <1>9 DEF HandoffStep, AnnounceHandoff, CompleteHandoff
    <3>2. QED
      BY <1>3, <2>2, <3>1
  <2>3. QED
    BY <1>9, <2>1, <2>2 DEF HandoffStep, AnnounceHandoff, CompleteHandoff
<1>10. ASSUME \/ \E task \in Tasks : RequestTask(task)
              \/ OtherChainStep
              \/ UNCHANGED allVars
       PROVE  UNCHANGED <<ledger, rotated, snapshots, worker>>
  <2>1. CASE \E task \in Tasks : RequestTask(task)
    BY <2>1 DEF RequestTask
  <2>2. CASE OtherChainStep
    BY <2>2, OtherFacts DEF workerVars
  <2>3. CASE UNCHANGED allVars
    BY <2>3 DEF allVars, workerVars
  <2>4. QED
    BY <1>10, <2>1, <2>2, <2>3
<1>11. QED
  BY <1>2, <1>5, <1>7, <1>8, <1>9, <1>10, WorkerNextCases

(* With one daemon a committee takes over a ledger that every next node has *)
(* as it is: the finalization that switches it comes after every database   *)
(* was written with the records and the root of the same moment.            *)
THEOREM SnapshotsAlwaysCurrent ==
  ASSUME LedgerRoots, Workers = {watch}
  PROVE  WorkerSpec => SnapshotsAreCurrent
<1>1. JointInv /\ JointInv' /\ SnapshotInv /\ [WorkerNext]_allVars => SnapshotInv'
  BY SnapshotStep
<1>2. SnapshotInv => [At(watch, "finalize") /\ rotated' # rotated =>
                        \A n \in NextNodes : snapshots[n].root = ledger.root
                                             /\ snapshots[n].balances = ledger.balances]_allVars
  BY DEF SnapshotInv, At
<1>3. QED
  BY <1>1, <1>2, SnapshotInit, JointAlways, PTL DEF WorkerSpec, SnapshotsAreCurrent
=============================================================================
