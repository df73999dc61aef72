------------------------------ MODULE TokenSwap ------------------------------
(***************************************************************************)
(* The custody contract, contracts/src/ConfidentialTokenSwap.sol: public   *)
(* tokens are locked against confidential balances, committees attest to   *)
(* every change of those balances, and users prepay the gas of their tasks.*)
(*                                                                         *)
(* Every external function that changes storage is one action.  The four   *)
(* kinds of request differ only in their fields, so a task is the record   *)
(* whose hash is its id, and one status function holds the four mappings.  *)
(* Token transfers move exactly the amount asked for; deposit refuses any  *)
(* other token.  An attestation names the committee whose digest was       *)
(* signed and the signers.                                                 *)
(***************************************************************************)
EXTENDS Totals

CONSTANTS
  Accounts,        \* addresses that send transactions
  Admin,
  Tokens,
  Commitments,     \* private account commitments
  Tasks,           \* the requests that may be made, see Task
  Vouchers,        \* withdrawals that a committee may sign without a request
  Nullifiers,      \* each stands for one confidential debit
  Roots,           \* private state roots
  ZeroRoot,        \* bytes32(0)
  CommitteeIds,
  Nodes,
  Members,         \* committeeId -> its nodes, as PpscControlPlane records it
  Threshold,       \* committeeId -> its threshold
  RefundDelay,
  Configs,         \* token configurations the admin chooses from
  GasValues,       \* msg.value of a request
  None,
  MaxTime,         \* bound: the last block timestamp
  MaxDonation      \* bound: tokens sent to the contract without a deposit

FeeBase == 10000
MaxFeeBps == 1000

Task ==
  [kind : {"deposit", "transfer", "withdrawal", "opening"},
   token : Tokens, requester : Accounts, amount : Nat,
   account : Commitments, receiver : Commitments \cup {None},
   nonce : Nat, expiry : Nat]

Voucher == [nullifier : Nullifiers, token : Tokens, amount : Nat, expiry : Nat]

TokenConfig == [enabled : BOOLEAN, minimumDeposit : Nat, withdrawalFeeBps : 0..MaxFeeBps]

ASSUME TasksAssumption ==
  /\ IsFiniteSet(Tasks) /\ Tasks \subseteq Task
  /\ \A task \in Tasks : task.kind # "opening" => task.amount > 0
  /\ \A task \in Tasks : task.expiry < MaxTime   \* bound
  /\ \A task \in Tasks : task.kind = "transfer" =>
       task.receiver \in Commitments \ {task.account}

ASSUME VouchersAssumption ==
  /\ IsFiniteSet(Nullifiers)
  /\ Vouchers \subseteq Voucher
  /\ Vouchers \cap Tasks = {} /\ None \notin Vouchers \cup Tasks

ASSUME SwapAssumption ==
  /\ IsFiniteSet(Accounts)
  /\ Admin \in Accounts
  /\ ZeroRoot \in Roots
  /\ Configs \subseteq TokenConfig
  /\ GasValues \subseteq Nat
  /\ CommitteeIds # {}
  /\ None \notin CommitteeIds \cup Accounts \cup Commitments
  /\ Members \in [CommitteeIds -> SUBSET Nodes]
  /\ Threshold \in [CommitteeIds -> Nat \ {0}]
  /\ RefundDelay \in Nat /\ MaxTime \in Nat /\ MaxDonation \in Nat

TasksOf(kind) == {task \in Tasks : task.kind = kind}

VARIABLES
  now,                    \* block.timestamp
  registered,             \* committees active in PpscControlPlane
  activeCommitteeId, pendingCommitteeId, paused,
  tokenConfigs,
  privateStateRoots, privateLiabilities, accountedBalances, accruedFees,
  nonceUsed,              \* the <<kind, sender, nonce>> already used
  status,                 \* task -> status, of all four kinds
  createdAt,              \* time of a deposit
  spentNullifiers,        \* nullifier -> None, or the request or voucher that spent
                          \* it, of which the code keeps a boolean
  taskGasEscrow, gasRefundCredits,
  controllers,            \* commitment -> address in control
  tokenBalances,          \* external: balanceOf(this) of each token
  etherBalance            \* address(this).balance

adminVars   == <<activeCommitteeId, pendingCommitteeId, paused, tokenConfigs>>
ledgerVars  == <<privateStateRoots, privateLiabilities, accountedBalances, accruedFees>>
gasVars     == <<taskGasEscrow, gasRefundCredits, etherBalance>>
requestVars == <<nonceUsed, status, createdAt>>
vars == <<now, registered, activeCommitteeId, pendingCommitteeId, paused,
          tokenConfigs, privateStateRoots, privateLiabilities, accountedBalances,
          accruedFees, nonceUsed, status, createdAt, spentNullifiers,
          taskGasEscrow, gasRefundCredits, controllers, tokenBalances, etherBalance>>

Init ==
  /\ now = 0
  /\ registered \in SUBSET CommitteeIds
  /\ activeCommitteeId \in CommitteeIds   \* not looked up by the constructor
  /\ pendingCommitteeId = None
  /\ paused = FALSE
  /\ tokenConfigs = [t \in Tokens |->
       [enabled |-> FALSE, minimumDeposit |-> 0, withdrawalFeeBps |-> 0]]
  /\ privateStateRoots = [t \in Tokens |-> ZeroRoot]
  /\ privateLiabilities = [t \in Tokens |-> 0]
  /\ accountedBalances = [t \in Tokens |-> 0]
  /\ accruedFees = [t \in Tokens |-> 0]
  /\ nonceUsed = {}
  /\ status = [task \in Tasks |-> "None"]
  /\ createdAt = [task \in Tasks |-> 0]
  /\ spentNullifiers = [n \in Nullifiers |-> None]
  /\ taskGasEscrow = [task \in Tasks |-> 0]
  /\ gasRefundCredits = [a \in Accounts |-> 0]
  /\ controllers = [c \in Commitments |-> None]
  /\ tokenBalances = [t \in Tokens |-> 0]
  /\ etherBalance = 0

-----------------------------------------------------------------------------
(* Administration *)

ConfigureToken(sender, t, config) ==
  /\ sender = Admin
  /\ config.minimumDeposit # 0
  /\ tokenConfigs' = [tokenConfigs EXCEPT ![t] = config]
  /\ UNCHANGED <<now, registered, activeCommitteeId, pendingCommitteeId, paused,
                 ledgerVars, requestVars, spentNullifiers, gasVars, controllers,
                 tokenBalances>>

\* A pending hand-off stays pending.
SetActiveCommittee(sender, next) ==
  /\ sender = Admin
  /\ next \in registered
  /\ activeCommitteeId' = next
  /\ UNCHANGED <<now, registered, pendingCommitteeId, paused, tokenConfigs,
                 ledgerVars, requestVars, spentNullifiers, gasVars, controllers,
                 tokenBalances>>

BeginCommitteeHandoff(sender, next) ==
  /\ sender = Admin
  /\ next \in registered
  /\ pendingCommitteeId = None
  /\ pendingCommitteeId' = next
  /\ UNCHANGED <<now, registered, activeCommitteeId, paused, tokenConfigs,
                 ledgerVars, requestVars, spentNullifiers, gasVars, controllers,
                 tokenBalances>>

\* _verifyCommitteeThreshold
VerifyCommitteeThreshold(k, signers) ==
  /\ k \in registered
  /\ Cardinality(signers) >= Threshold[k]
  /\ signers \subseteq Members[k]

\* Anyone may submit the two signature sets.
FinalizeCommitteeHandoff(oldSigners, newSigners) ==
  /\ pendingCommitteeId # None
  /\ VerifyCommitteeThreshold(activeCommitteeId, oldSigners)
  /\ VerifyCommitteeThreshold(pendingCommitteeId, newSigners)
  /\ activeCommitteeId' = pendingCommitteeId
  /\ pendingCommitteeId' = None
  /\ UNCHANGED <<now, registered, paused, tokenConfigs, ledgerVars, requestVars,
                 spentNullifiers, gasVars, controllers, tokenBalances>>

SetPaused(sender, nextPaused) ==
  /\ sender = Admin
  /\ paused' = nextPaused
  /\ UNCHANGED <<now, registered, activeCommitteeId, pendingCommitteeId,
                 tokenConfigs, ledgerVars, requestVars, spentNullifiers, gasVars,
                 controllers, tokenBalances>>

-----------------------------------------------------------------------------
(* Slips: forms of the operators below with one check or one assignment     *)
(* lost.  They are used only to confirm that the properties notice.         *)

TaskGasKept(task, who) ==
  /\ gasRefundCredits' = [gasRefundCredits EXCEPT ![who] = @ + taskGasEscrow[task]]
  /\ UNCHANGED <<taskGasEscrow, etherBalance>>
TaskGasDropped(task, who) ==
  /\ taskGasEscrow' = [taskGasEscrow EXCEPT ![task] = 0]
  /\ UNCHANGED <<gasRefundCredits, etherBalance>>
PendingOrClosed(task) == status[task] # "None"
RefundableUnpaused(task) ==
  ~paused /\ status[task] = "Pending" /\ now >= createdAt[task] + RefundDelay
ControllerUnchecked(account, sender) == TRUE
UnspentUnchecked(nullifier) == TRUE

-----------------------------------------------------------------------------
(* Gas of tasks *)

FundTaskGas(task, gas) ==
  /\ taskGasEscrow' = [taskGasEscrow EXCEPT ![task] = gas]
  /\ etherBalance' = etherBalance + gas
  /\ UNCHANGED gasRefundCredits

\* _creditTaskGas and _returnTaskGas
CreditTaskGas(task, who) ==
  /\ taskGasEscrow' = [taskGasEscrow EXCEPT ![task] = 0]
  /\ gasRefundCredits' = [gasRefundCredits EXCEPT ![who] = @ + taskGasEscrow[task]]
  /\ UNCHANGED etherBalance

ClaimGasRefund(sender) ==
  /\ gasRefundCredits[sender] # 0
  /\ gasRefundCredits' = [gasRefundCredits EXCEPT ![sender] = 0]
  /\ etherBalance' = etherBalance - gasRefundCredits[sender]
  /\ UNCHANGED <<now, registered, adminVars, ledgerVars, requestVars,
                 spentNullifiers, taskGasEscrow, controllers, tokenBalances>>

-----------------------------------------------------------------------------
(* Requests *)

Pending(task) == status[task] = "Pending"

FreshNonce(task) == <<task.kind, task.requester, task.nonce>> \notin nonceUsed

\* What the four kinds of request have in common.
Request(task, gas) ==
  /\ ~paused
  /\ tokenConfigs[task.token].enabled
  /\ FreshNonce(task)
  /\ nonceUsed' = nonceUsed \cup {<<task.kind, task.requester, task.nonce>>}
  /\ status' = [status EXCEPT ![task] = "Pending"]
  /\ FundTaskGas(task, gas)

\* An account is controlled by the first address that names it.
MayControl(account, sender) == controllers[account] \in {None, sender}

Deposit(task, gas) ==
  /\ task.kind = "deposit"
  /\ task.amount >= tokenConfigs[task.token].minimumDeposit
  /\ MayControl(task.account, task.requester)
  /\ now + RefundDelay <= MaxTime   \* bound
  /\ Request(task, gas)
  /\ controllers' = [controllers EXCEPT ![task.account] = task.requester]
  /\ createdAt' = [createdAt EXCEPT ![task] = now]
  /\ accountedBalances' = [accountedBalances EXCEPT ![task.token] = @ + task.amount]
  /\ tokenBalances' = [tokenBalances EXCEPT ![task.token] = @ + task.amount]
  /\ UNCHANGED <<now, registered, adminVars, privateStateRoots, privateLiabilities,
                 accruedFees, spentNullifiers>>

\* The requester of a withdrawal need not control the account.
RequestWithdrawal(task, gas) ==
  /\ task.kind = "withdrawal"
  /\ task.expiry > now
  /\ Request(task, gas)
  /\ UNCHANGED <<now, registered, adminVars, ledgerVars, createdAt, spentNullifiers,
                 controllers, tokenBalances>>

RequestConfidentialTransfer(task, gas) ==
  /\ task.kind = "transfer"
  /\ task.expiry > now
  /\ controllers[task.account] = task.requester
  /\ controllers[task.receiver] # None
  /\ Request(task, gas)
  /\ UNCHANGED <<now, registered, adminVars, ledgerVars, createdAt, spentNullifiers,
                 controllers, tokenBalances>>

RequestBalanceOpening(task, gas) ==
  /\ task.kind = "opening"
  /\ task.expiry > now
  /\ controllers[task.account] = task.requester
  /\ Request(task, gas)
  /\ UNCHANGED <<now, registered, adminVars, ledgerVars, createdAt, spentNullifiers,
                 controllers, tokenBalances>>

RegisterConfidentialAccount(sender, account) ==
  /\ MayControl(account, sender)
  /\ controllers' = [controllers EXCEPT ![account] = sender]
  /\ UNCHANGED <<now, registered, adminVars, ledgerVars, requestVars,
                 spentNullifiers, gasVars, tokenBalances>>

-----------------------------------------------------------------------------
(* Settlements *)

\* _verifyThreshold: the digest names the committee in charge.
VerifyThreshold(k, signers) ==
  k = activeCommitteeId /\ VerifyCommitteeThreshold(k, signers)

\* expectedOldStateRoot and newStateRoot of a settlement.
ChainRoots(t, old, new) ==
  /\ old = privateStateRoots[t]
  /\ new # ZeroRoot
  /\ privateStateRoots' = [privateStateRoots EXCEPT ![t] = new]

\* Anyone may submit a settlement and is credited the gas.
FinalizeDeposit(sender, task, old, new, k, signers) ==
  /\ task.kind = "deposit"
  /\ ~paused
  /\ Pending(task)
  /\ ChainRoots(task.token, old, new)
  /\ VerifyThreshold(k, signers)
  /\ privateLiabilities' = [privateLiabilities EXCEPT ![task.token] = @ + task.amount]
  /\ status' = [status EXCEPT ![task] = "Finalized"]
  /\ CreditTaskGas(task, sender)
  /\ UNCHANGED <<now, registered, adminVars, accountedBalances, accruedFees,
                 nonceUsed, createdAt, spentNullifiers, controllers, tokenBalances>>

FinalizeConfidentialTransfer(sender, task, old, new, k, signers) ==
  /\ task.kind = "transfer"
  /\ ~paused
  /\ Pending(task)
  /\ now <= task.expiry
  /\ ChainRoots(task.token, old, new)
  /\ VerifyThreshold(k, signers)
  /\ status' = [status EXCEPT ![task] = "Finalized"]
  /\ CreditTaskGas(task, sender)
  /\ UNCHANGED <<now, registered, adminVars, privateLiabilities, accountedBalances,
                 accruedFees, nonceUsed, createdAt, spentNullifiers, controllers,
                 tokenBalances>>

Unspent(nullifier) == spentNullifiers[nullifier] = None

Fee(t, amount) == (amount * tokenConfigs[t].withdrawalFeeBps) \div FeeBase

\* Burn, fee and payment, at the fee configured now; the subtractions are checked.
Payout(t, amount) ==
  LET payout == amount - Fee(t, amount) IN
  /\ privateLiabilities[t] >= amount
  /\ accountedBalances[t] >= payout
  /\ tokenBalances[t] >= payout
  /\ privateLiabilities' = [privateLiabilities EXCEPT ![t] = @ - amount]
  /\ accruedFees' = [accruedFees EXCEPT ![t] = @ + Fee(t, amount)]
  /\ accountedBalances' = [accountedBalances EXCEPT ![t] = @ - payout]
  /\ tokenBalances' = [tokenBalances EXCEPT ![t] = @ - payout]

\* The nullifier is whatever the committee signed.
FinalizeWithdrawal(sender, task, nullifier, old, new, k, signers) ==
  /\ task.kind = "withdrawal"
  /\ ~paused
  /\ Pending(task)
  /\ now <= task.expiry
  /\ ChainRoots(task.token, old, new)
  /\ Unspent(nullifier)
  /\ VerifyThreshold(k, signers)
  /\ spentNullifiers' = [spentNullifiers EXCEPT ![nullifier] = task]
  /\ status' = [status EXCEPT ![task] = "Finalized"]
  /\ CreditTaskGas(task, sender)
  /\ Payout(task.token, task.amount)
  /\ UNCHANGED <<now, registered, adminVars, nonceUsed, createdAt, controllers>>

\* A withdrawal signed without a request on the chain.
Withdraw(voucher, old, new, k, signers) ==
  /\ ~paused
  /\ tokenConfigs[voucher.token].enabled
  /\ voucher.amount # 0
  /\ now <= voucher.expiry
  /\ ChainRoots(voucher.token, old, new)
  /\ Unspent(voucher.nullifier)
  /\ VerifyThreshold(k, signers)
  /\ spentNullifiers' = [spentNullifiers EXCEPT ![voucher.nullifier] = voucher]
  /\ Payout(voucher.token, voucher.amount)
  /\ UNCHANGED <<now, registered, adminVars, requestVars, gasVars, controllers>>

\* Not stopped by a pause.
FulfillBalanceOpening(sender, task, k, signers) ==
  /\ task.kind = "opening"
  /\ Pending(task)
  /\ now <= task.expiry
  /\ VerifyThreshold(k, signers)
  /\ status' = [status EXCEPT ![task] = "Finalized"]
  /\ CreditTaskGas(task, sender)
  /\ UNCHANGED <<now, registered, adminVars, ledgerVars, nonceUsed, createdAt,
                 spentNullifiers, controllers, tokenBalances>>

-----------------------------------------------------------------------------
(* Cancellation and fees, neither stopped by a pause *)

Refundable(task) == Pending(task) /\ now >= createdAt[task] + RefundDelay

CancelDeposit(sender, task) ==
  /\ task.kind = "deposit"
  /\ sender = task.requester
  /\ Refundable(task)
  /\ accountedBalances[task.token] >= task.amount
  /\ tokenBalances[task.token] >= task.amount
  /\ status' = [status EXCEPT ![task] = "Cancelled"]
  /\ CreditTaskGas(task, task.requester)
  /\ accountedBalances' = [accountedBalances EXCEPT ![task.token] = @ - task.amount]
  /\ tokenBalances' = [tokenBalances EXCEPT ![task.token] = @ - task.amount]
  /\ UNCHANGED <<now, registered, adminVars, privateStateRoots, privateLiabilities,
                 accruedFees, nonceUsed, createdAt, spentNullifiers, controllers>>

Expired(task) == now > task.expiry

CancelWithdrawal(sender, task) ==
  /\ task.kind = "withdrawal"
  /\ Pending(task)
  /\ sender = task.requester
  /\ Expired(task)
  /\ status' = [status EXCEPT ![task] = "Cancelled"]
  /\ CreditTaskGas(task, sender)
  /\ UNCHANGED <<now, registered, adminVars, ledgerVars, nonceUsed, createdAt,
                 spentNullifiers, controllers, tokenBalances>>

CollectFees(sender, t, amount) ==
  /\ sender = Admin
  /\ amount \in 1..accruedFees[t]
  /\ accountedBalances[t] >= amount
  /\ tokenBalances[t] >= amount
  /\ accruedFees' = [accruedFees EXCEPT ![t] = @ - amount]
  /\ accountedBalances' = [accountedBalances EXCEPT ![t] = @ - amount]
  /\ tokenBalances' = [tokenBalances EXCEPT ![t] = @ - amount]
  /\ UNCHANGED <<now, registered, adminVars, privateStateRoots, privateLiabilities,
                 requestVars, spentNullifiers, gasVars, controllers>>

-----------------------------------------------------------------------------
(* External: PpscControlPlane, direct transfers of a token, the clock *)

RegisterCommittee(k) ==
  /\ k \notin registered
  /\ registered' = registered \cup {k}
  /\ UNCHANGED <<now, adminVars, ledgerVars, requestVars, spentNullifiers,
                 gasVars, controllers, tokenBalances>>

Donate(t) ==
  /\ tokenBalances[t] < accountedBalances[t] + MaxDonation
  /\ tokenBalances' = [tokenBalances EXCEPT ![t] = @ + 1]
  /\ UNCHANGED <<now, registered, adminVars, ledgerVars, requestVars,
                 spentNullifiers, gasVars, controllers>>

Tick ==
  /\ now < MaxTime
  /\ now' = now + 1
  /\ UNCHANGED <<registered, adminVars, ledgerVars, requestVars, spentNullifiers,
                 gasVars, controllers, tokenBalances>>

AdminNext(sender) ==
  \/ \E t \in Tokens, config \in Configs : ConfigureToken(sender, t, config)
  \/ \E k \in CommitteeIds : SetActiveCommittee(sender, k)
  \/ \E k \in CommitteeIds : BeginCommitteeHandoff(sender, k)
  \/ \E nextPaused \in BOOLEAN : SetPaused(sender, nextPaused)
  \/ \E t \in Tokens : \E amount \in 1..accruedFees[t] : CollectFees(sender, t, amount)

RequestNext ==
  \E task \in Tasks, gas \in GasValues :
    \/ Deposit(task, gas)
    \/ RequestWithdrawal(task, gas)
    \/ RequestConfidentialTransfer(task, gas)
    \/ RequestBalanceOpening(task, gas)

SettleNext(sender, k, signers) ==
  \/ \E task \in Tasks, old, new \in Roots :
       \/ FinalizeDeposit(sender, task, old, new, k, signers)
       \/ FinalizeConfidentialTransfer(sender, task, old, new, k, signers)
       \/ \E nullifier \in Nullifiers :
            FinalizeWithdrawal(sender, task, nullifier, old, new, k, signers)
  \/ \E voucher \in Vouchers, old, new \in Roots : Withdraw(voucher, old, new, k, signers)
  \/ \E task \in Tasks : FulfillBalanceOpening(sender, task, k, signers)

AccountNext(sender) ==
  \/ \E account \in Commitments : RegisterConfidentialAccount(sender, account)
  \/ \E task \in Tasks : CancelDeposit(sender, task) \/ CancelWithdrawal(sender, task)
  \/ ClaimGasRefund(sender)

ChainNext ==
  \/ \E k \in CommitteeIds : RegisterCommittee(k)
  \/ \E t \in Tokens : Donate(t)
  \/ Tick

Next ==
  \/ \E sender \in Accounts : AdminNext(sender) \/ AccountNext(sender)
  \/ RequestNext
  \/ \E sender \in Accounts, k \in CommitteeIds, signers \in SUBSET Nodes :
       SettleNext(sender, k, signers)
  \/ \E oldSigners, newSigners \in SUBSET Nodes :
       FinalizeCommitteeHandoff(oldSigners, newSigners)
  \/ ChainNext

Spec == Init /\ [][Next]_vars

-----------------------------------------------------------------------------
(* Properties *)

Statuses == {"None", "Pending", "Finalized", "Cancelled"}

TypeOK ==
  /\ now \in 0..MaxTime
  /\ registered \subseteq CommitteeIds
  /\ activeCommitteeId \in CommitteeIds
  /\ pendingCommitteeId \in CommitteeIds \cup {None}
  /\ paused \in BOOLEAN
  /\ tokenConfigs \in [Tokens -> TokenConfig]
  /\ privateStateRoots \in [Tokens -> Roots]
  /\ privateLiabilities \in [Tokens -> Nat]
  /\ accountedBalances \in [Tokens -> Nat]
  /\ accruedFees \in [Tokens -> Nat]
  /\ nonceUsed \subseteq {"deposit", "transfer", "withdrawal", "opening"} \X Accounts \X Nat
  /\ status \in [Tasks -> Statuses]
  /\ createdAt \in [Tasks -> Nat]
  /\ spentNullifiers \in [Nullifiers -> Tasks \cup Vouchers \cup {None}]
  /\ taskGasEscrow \in [Tasks -> Nat]
  /\ gasRefundCredits \in [Accounts -> Nat]
  /\ controllers \in [Commitments -> Accounts \cup {None}]
  /\ tokenBalances \in [Tokens -> Nat]
  /\ etherBalance \in Nat

\* The amounts of the tasks of one kind and token that satisfy a condition.
Deposits(t, statuses) ==
  [task \in TasksOf("deposit") |->
     IF task.token = t /\ status[task] \in statuses THEN task.amount ELSE 0]
\* What each nullifier has been spent on.
Debits(t) ==
  [n \in Nullifiers |->
     LET debit == spentNullifiers[n] IN
     IF debit # None /\ debit.token = t THEN debit.amount ELSE 0]

(* Section 3 of docs/confidential-token-swap.md: the contract holds what it *)
(* accounts for, and what it accounts for is exactly the deposits not yet   *)
(* settled, the confidential balances and the fees.  A payment made twice,  *)
(* a refund of a settled deposit or a fee at a changed rate breaks it.      *)
ReserveIsExact ==
  \A t \in Tokens :
    /\ tokenBalances[t] >= accountedBalances[t]
    /\ accountedBalances[t] =
         Total(Deposits(t, {"Pending"})) + privateLiabilities[t] + accruedFees[t]

\* A request is settled exactly when it has spent one nullifier.
SettledOnce ==
  \A task \in TasksOf("withdrawal") :
    LET spent == {n \in Nullifiers : spentNullifiers[n] = task} IN
    /\ status[task] = "Finalized" <=> spent # {}
    /\ \A m, n \in spent : m = n

(* The liability of a token is what finalized deposits created less what    *)
(* each spent nullifier destroyed, once each, whether a request or a        *)
(* voucher spent it; and a request is settled exactly when it has spent     *)
(* one nullifier, never a second.                                           *)
LiabilitiesAreBacked ==
  /\ \A t \in Tokens :
       Total(Deposits(t, {"Finalized"})) = privateLiabilities[t] + Total(Debits(t))
  /\ SettledOnce

(* The ether of the contract is what it still owes: the gas escrowed for    *)
(* tasks and the credits of those who settled or cancelled them, so every   *)
(* credit can be claimed.                                                   *)
EtherIsOwed ==
  etherBalance = Total(taskGasEscrow) + Total(gasRefundCredits)

(* Gas is escrowed only for a task that is still pending: settling and      *)
(* cancelling race, and whichever comes first takes the gas once.           *)
EscrowIsForPending ==
  \A task \in Tasks : taskGasEscrow[task] > 0 => Pending(task)

(* Control of an account never moves to another address, through deposits,  *)
(* registrations and their order.                                           *)
ControllersAreKept ==
  [][\A account \in Commitments :
       controllers[account] # None => controllers'[account] = controllers[account]]_vars

-----------------------------------------------------------------------------
(* Progress *)

\* Depositors and requesters take back what was not served, and time passes.
Fairness ==
  /\ WF_vars(Tick)
  /\ \A task \in Tasks :
       /\ WF_vars(CancelDeposit(task.requester, task))
       /\ WF_vars(CancelWithdrawal(task.requester, task))

FairSpec == Spec /\ Fairness

(* A deposit or a withdrawal request never stays pending: whatever the      *)
(* administrator, the committees and the other users do, it is settled or   *)
(* its requester gets the tokens and the gas back, paused or not.           *)
FundsComeBack ==
  \A task \in TasksOf("deposit") \cup TasksOf("withdrawal") :
    Pending(task) ~> status[task] \in {"Finalized", "Cancelled"}
=============================================================================
