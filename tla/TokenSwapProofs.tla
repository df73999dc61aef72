--------------------------- MODULE TokenSwapProofs ---------------------------
(***************************************************************************)
(* Proofs about TokenSwap, for every value of its constants.               *)
(***************************************************************************)
EXTENDS TokenSwap

\* A request that was made has used its nonce, so it is not made again.
NoncesCoverTasks ==
  \A task \in Tasks : status[task] # "None" =>
    <<task.kind, task.requester, task.nonce>> \in nonceUsed

GasInv == EscrowIsForPending /\ EtherIsOwed
FundsInv == ReserveIsExact /\ LiabilitiesAreBacked

LedgerInv == TypeOK /\ NoncesCoverTasks /\ GasInv /\ FundsInv

-----------------------------------------------------------------------------
(* The parts of the assumptions that the steps use.                         *)
LEMMA TaskFacts ==
  /\ IsFiniteSet(Tasks) /\ IsFiniteSet(Accounts) /\ IsFiniteSet(Nullifiers)
  /\ \A kind : IsFiniteSet(TasksOf(kind)) /\ TasksOf(kind) \subseteq Tasks
  /\ \A task \in Tasks :
       /\ task.kind \in {"deposit", "transfer", "withdrawal", "opening"}
       /\ task.token \in Tokens /\ task.requester \in Accounts /\ task.amount \in Nat
       /\ task.account \in Commitments /\ task.nonce \in Nat /\ task.expiry \in Nat
<1>1. \A kind : IsFiniteSet(TasksOf(kind))
  BY TasksAssumption, FS_Subset DEF TasksOf
<1>2. QED
  BY <1>1, TasksAssumption, VouchersAssumption, SwapAssumption DEF Task, TasksOf

(* A voucher is not a request, and neither is "no debit".                    *)
LEMMA SpenderFacts == Vouchers \cap Tasks = {} /\ None \notin Vouchers \cup Tasks
BY VouchersAssumption

(* A fee is at most the amount it is taken from.                            *)
LEMMA FeeBound ==
  ASSUME TypeOK, NEW t \in Tokens, NEW amount \in Nat
  PROVE  Fee(t, amount) \in Nat /\ Fee(t, amount) <= amount
<1> DEFINE bps == tokenConfigs[t].withdrawalFeeBps
<1>1. bps \in 0..1000
  BY DEF TypeOK, TokenConfig, MaxFeeBps
<1>2. amount * bps \in Nat /\ amount * bps <= 10000 * amount
  <2> HIDE DEF bps
  <2>1. \A n \in 0..1000 : amount * n \in Nat /\ amount * n <= amount * 1000
    OBVIOUS
  <2>2. QED
    BY <1>1, <2>1
<1>3. \A product \in Nat : product <= 10000 * amount =>
        product \div 10000 \in Nat /\ product \div 10000 <= amount
  OBVIOUS
<1>4. Fee(t, amount) = (amount * bps) \div 10000
  BY DEF Fee, FeeBase
<1>5. QED
  BY <1>2, <1>3, <1>4

(* The totals that the properties speak of are totals of functions to Nat.  *)
LEMMA TotalsTyped ==
  ASSUME TypeOK, NEW t \in Tokens
  PROVE  /\ \A S : /\ Deposits(t, S) \in [TasksOf("deposit") -> Nat]
                   /\ Total(Deposits(t, S)) \in Nat
         /\ Debits(t) \in [Nullifiers -> Nat]
         /\ Total(Debits(t)) \in Nat
<1>1. \A S : Deposits(t, S) \in [TasksOf("deposit") -> Nat]
  BY TaskFacts DEF Deposits
<1>2. \A n \in Nullifiers : spentNullifiers[n] # None => spentNullifiers[n].amount \in Nat
  <2> SUFFICES ASSUME NEW n \in Nullifiers, spentNullifiers[n] # None
               PROVE  spentNullifiers[n].amount \in Nat
    OBVIOUS
  <2>1. spentNullifiers[n] \in Tasks \/ spentNullifiers[n] \in Vouchers
    BY DEF TypeOK
  <2>2. \A voucher \in Vouchers : voucher.amount \in Nat
    BY VouchersAssumption DEF Voucher
  <2>3. QED
    BY <2>1, <2>2, TaskFacts
<1>3. Debits(t) \in [Nullifiers -> Nat]
  BY <1>2 DEF Debits
<1>5. \A S : Total(Deposits(t, S)) \in Nat
  <2> SUFFICES ASSUME NEW S PROVE Total(Deposits(t, S)) \in Nat
    OBVIOUS
  <2>1. Deposits(t, S) \in [TasksOf("deposit") -> Nat]
    BY <1>1
  <2>2. QED
    BY <2>1, TaskFacts, UnitsFinite
<1>6. Total(Debits(t)) \in Nat
  BY <1>3, TaskFacts, UnitsFinite
<1>7. QED
  BY <1>1, <1>3, <1>5, <1>6

\* What task contributes to the deposits of t when its status is s.
Share(task, t, s, S) == IF task.token = t /\ s \in S THEN task.amount ELSE 0

(* A change of one deposit's status moves its amount between the totals.    *)
LEMMA DepositsChange ==
  ASSUME TypeOK, NEW task \in TasksOf("deposit"), NEW s \in Statuses,
         NEW t \in Tokens, NEW S, status' = [status EXCEPT ![task] = s]
  PROVE  Total(Deposits(t, S))' =
           Total(Deposits(t, S)) - Share(task, t, status[task], S) + Share(task, t, s, S)
<1> DEFINE f == Deposits(t, S)
           v == Share(task, t, s, S)
<1>1. task \in Tasks /\ v \in Nat
  BY TaskFacts DEF Share
<1>2. Deposits(t, S)' = [f EXCEPT ![task] = v]
  BY <1>1, TaskFacts DEF Deposits, Share, TypeOK
<1>3. f[task] = Share(task, t, status[task], S)
  BY DEF Deposits, Share
<1>4. f \in [TasksOf("deposit") -> Nat]
  BY TotalsTyped
<1>5. Total([f EXCEPT ![task] = v]) = Total(f) - f[task] + v
  <2> HIDE DEF f, v
  <2> QED BY <1>1, <1>4, TaskFacts, TotalUpdate
<1>6. QED
  BY <1>2, <1>3, <1>5

(* Other steps leave the deposits alone.                                    *)
LEMMA DepositsKept ==
  ASSUME NEW t, NEW S, \A task \in TasksOf("deposit") : status'[task] = status[task]
  PROVE  Total(Deposits(t, S))' = Total(Deposits(t, S))
<1>1. Deposits(t, S)' = Deposits(t, S)
  BY DEF Deposits
<1>2. QED
  BY <1>1

-----------------------------------------------------------------------------
(* Gas *)

(* How one update changes the escrow, and one credit what is owed.          *)
LEMMA EscrowUpdate ==
  ASSUME TypeOK, NEW task \in Tasks, NEW v \in Nat,
         taskGasEscrow' = [taskGasEscrow EXCEPT ![task] = v]
  PROVE  Total(taskGasEscrow)' = Total(taskGasEscrow) - taskGasEscrow[task] + v
<1>1. taskGasEscrow \in [Tasks -> Nat] /\ IsFiniteSet(Tasks)
  BY TaskFacts DEF TypeOK
<1>2. Total([taskGasEscrow EXCEPT ![task] = v])
        = Total(taskGasEscrow) - taskGasEscrow[task] + v
  BY <1>1, TotalUpdate
<1>3. QED
  BY <1>2

LEMMA CreditUpdate ==
  ASSUME TypeOK, NEW who \in Accounts, NEW v \in Nat,
         gasRefundCredits' = [gasRefundCredits EXCEPT ![who] = v]
  PROVE  Total(gasRefundCredits)' = Total(gasRefundCredits) - gasRefundCredits[who] + v
<1>1. gasRefundCredits \in [Accounts -> Nat] /\ IsFiniteSet(Accounts)
  BY TaskFacts DEF TypeOK
<1>2. Total([gasRefundCredits EXCEPT ![who] = v])
        = Total(gasRefundCredits) - gasRefundCredits[who] + v
  BY <1>1, TotalUpdate
<1>3. QED
  BY <1>2

LEMMA GasTotalsTyped ==
  ASSUME TypeOK
  PROVE  /\ Total(taskGasEscrow) \in Nat /\ Total(gasRefundCredits) \in Nat
         /\ \A a \in Accounts : gasRefundCredits[a] <= Total(gasRefundCredits)
<1>1. taskGasEscrow \in [Tasks -> Nat] /\ IsFiniteSet(Tasks)
  BY TaskFacts DEF TypeOK
<1>2. gasRefundCredits \in [Accounts -> Nat] /\ IsFiniteSet(Accounts)
  BY TaskFacts DEF TypeOK
<1>3. Total(taskGasEscrow) \in Nat
  BY <1>1, UnitsFinite
<1>4. Total(gasRefundCredits) \in Nat
  BY <1>2, UnitsFinite
<1>5. QED
  BY <1>2, <1>3, <1>4, TotalBounds

(* Crediting the gas of a task that leaves the pending state.               *)
LEMMA CreditKeepsGas ==
  ASSUME TypeOK, GasInv, NEW task \in Tasks, NEW who \in Accounts,
         NEW s \in Statuses, status' = [status EXCEPT ![task] = s],
         CreditTaskGas(task, who)
  PROVE  /\ GasInv'
         /\ taskGasEscrow' \in [Tasks -> Nat] /\ gasRefundCredits' \in [Accounts -> Nat]
         /\ etherBalance' \in Nat
<1> USE DEF CreditTaskGas, TypeOK
<1> DEFINE gas == taskGasEscrow[task]
           credit == gasRefundCredits[who] + gas
<1>1. gas \in Nat /\ credit \in Nat
  OBVIOUS
<1>2. taskGasEscrow' = [taskGasEscrow EXCEPT ![task] = 0]
      /\ gasRefundCredits' = [gasRefundCredits EXCEPT ![who] = credit]
  OBVIOUS
<1>3. Total(taskGasEscrow)' = Total(taskGasEscrow) - gas + 0
  BY <1>2, EscrowUpdate
<1>4. Total(gasRefundCredits)' = Total(gasRefundCredits) - gasRefundCredits[who] + credit
  <2> HIDE DEF credit
  <2> QED BY <1>1, <1>2, CreditUpdate
<1>5. Total(taskGasEscrow) \in Nat /\ Total(gasRefundCredits) \in Nat
  BY GasTotalsTyped
<1>6. EtherIsOwed'
  BY <1>1, <1>3, <1>4, <1>5 DEF GasInv, EtherIsOwed
<1>7. EscrowIsForPending'
  BY <1>2 DEF GasInv, EscrowIsForPending, Pending
<1>8. QED
  BY <1>1, <1>2, <1>6, <1>7 DEF GasInv

(* A request escrows gas for a task that had none.                          *)
LEMMA RequestKeepsGas ==
  ASSUME TypeOK, NoncesCoverTasks, GasInv, NEW task \in Tasks, NEW gas \in Nat,
         Request(task, gas)
  PROVE  /\ GasInv' /\ NoncesCoverTasks' /\ status[task] = "None"
         /\ status' \in [Tasks -> Statuses]
         /\ nonceUsed' \subseteq
              {"deposit", "transfer", "withdrawal", "opening"} \X Accounts \X Nat
         /\ taskGasEscrow' \in [Tasks -> Nat] /\ gasRefundCredits' \in [Accounts -> Nat]
         /\ etherBalance' \in Nat
<1> USE DEF Request, FundTaskGas, TypeOK
<1>1. status[task] = "None"
  BY DEF NoncesCoverTasks, FreshNonce
<1>2. taskGasEscrow[task] = 0
  BY <1>1 DEF GasInv, EscrowIsForPending, Pending
<1>3. Total(taskGasEscrow)' = Total(taskGasEscrow) - 0 + gas
  BY <1>2, EscrowUpdate
<1>4. Total(taskGasEscrow) \in Nat /\ Total(gasRefundCredits) \in Nat
  BY GasTotalsTyped
<1>5. Total(gasRefundCredits)' = Total(gasRefundCredits)
  OBVIOUS
<1>6. EtherIsOwed'
  BY <1>3, <1>4, <1>5 DEF GasInv, EtherIsOwed
<1>7. EscrowIsForPending'
  BY DEF GasInv, EscrowIsForPending, Pending
<1>8. NoncesCoverTasks'
  BY DEF NoncesCoverTasks
<1>9. nonceUsed' \subseteq {"deposit", "transfer", "withdrawal", "opening"} \X Accounts \X Nat
  BY TaskFacts
<1>10. QED
  BY <1>1, <1>6, <1>7, <1>8, <1>9 DEF GasInv, Statuses

(* A claim pays one account's credit.                                       *)
LEMMA ClaimGasRefundStep ==
  ASSUME LedgerInv, NEW sender \in Accounts, ClaimGasRefund(sender)
  PROVE  LedgerInv'
<1> USE DEF ClaimGasRefund, adminVars, ledgerVars, requestVars
<1>1. Total(gasRefundCredits)' = Total(gasRefundCredits) - gasRefundCredits[sender] + 0
  BY CreditUpdate DEF LedgerInv
<1>2. /\ gasRefundCredits[sender] \in Nat /\ gasRefundCredits[sender] <= Total(gasRefundCredits)
      /\ Total(gasRefundCredits) \in Nat /\ Total(taskGasEscrow) \in Nat
      /\ etherBalance = Total(taskGasEscrow) + Total(gasRefundCredits)
  BY GasTotalsTyped DEF LedgerInv, GasInv, EtherIsOwed, TypeOK
<1>3. TypeOK'
  BY <1>2 DEF LedgerInv, TypeOK
<1>4. GasInv'
  BY <1>1, <1>2 DEF LedgerInv, GasInv, EtherIsOwed, EscrowIsForPending, Pending
<1>5. NoncesCoverTasks'
  BY DEF LedgerInv, NoncesCoverTasks
<1>6. FundsInv'
  <2>1. /\ \A t \in Tokens : \A S : Deposits(t, S)' = Deposits(t, S)
        /\ \A t \in Tokens : Debits(t)' = Debits(t)
    BY DEF Deposits, Debits
  <2>2. ReserveIsExact'
    BY <2>1 DEF LedgerInv, FundsInv, ReserveIsExact
  <2>3. SettledOnce'
    BY DEF LedgerInv, FundsInv, LiabilitiesAreBacked, SettledOnce
  <2>4. LiabilitiesAreBacked'
    BY <2>1, <2>3 DEF LedgerInv, FundsInv, LiabilitiesAreBacked
  <2>5. QED
    BY <2>2, <2>4 DEF FundsInv
<1>7. QED
  BY <1>3, <1>4, <1>5, <1>6 DEF LedgerInv

-----------------------------------------------------------------------------
(* Funds *)

(* Which requests are settled, and by which nullifier, depends on the two   *)
(* mappings alone.                                                          *)
LEMMA SettledFrame ==
  ASSUME SettledOnce, UNCHANGED spentNullifiers,
         \A task \in TasksOf("withdrawal") :
           status'[task] = "Finalized" <=> status[task] = "Finalized"
  PROVE  SettledOnce'
BY DEF SettledOnce

(* The funds do not notice a step that leaves the deposits, the ledger and  *)
(* the spent nullifiers alone.                                              *)
LEMMA FundsFrame ==
  ASSUME TypeOK, FundsInv,
         UNCHANGED <<privateLiabilities, accountedBalances, accruedFees, spentNullifiers>>,
         \A task \in TasksOf("deposit") : status'[task] = status[task],
         \A task \in TasksOf("withdrawal") :
           status'[task] = "Finalized" <=> status[task] = "Finalized",
         \A t \in Tokens : tokenBalances'[t] \in Nat /\ tokenBalances'[t] >= tokenBalances[t]
  PROVE  FundsInv'
<1>1. \A S : \A t \in Tokens : Total(Deposits(t, S))' = Total(Deposits(t, S))
  BY DepositsKept
<1>2. \A t \in Tokens : Total(Debits(t))' = Total(Debits(t))
  BY DEF Debits
<1>3. ReserveIsExact'
  BY <1>1 DEF FundsInv, ReserveIsExact, TypeOK
<1>4. SettledOnce'
  BY SettledFrame DEF FundsInv, LiabilitiesAreBacked
<1>5. LiabilitiesAreBacked'
  BY <1>1, <1>2, <1>4 DEF FundsInv, LiabilitiesAreBacked
<1>6. QED
  BY <1>3, <1>5 DEF FundsInv

(* Requests of the three kinds that lock no token.                          *)
LEMMA OtherRequestStep ==
  ASSUME LedgerInv, NEW task \in Tasks, NEW gas \in GasValues,
         \/ RequestWithdrawal(task, gas)
         \/ RequestConfidentialTransfer(task, gas)
         \/ RequestBalanceOpening(task, gas)
  PROVE  LedgerInv'
<1> USE DEF RequestWithdrawal, RequestConfidentialTransfer, RequestBalanceOpening,
            adminVars, ledgerVars
<1>1. Request(task, gas) /\ task.kind # "deposit"
  OBVIOUS
<1>2. gas \in Nat
  BY SwapAssumption
<1>3. TypeOK /\ NoncesCoverTasks /\ GasInv /\ FundsInv
  BY DEF LedgerInv
<1>4. /\ GasInv' /\ NoncesCoverTasks' /\ status' \in [Tasks -> Statuses]
      /\ nonceUsed' \subseteq
           {"deposit", "transfer", "withdrawal", "opening"} \X Accounts \X Nat
      /\ taskGasEscrow' \in [Tasks -> Nat] /\ gasRefundCredits' \in [Accounts -> Nat]
      /\ etherBalance' \in Nat
  BY <1>1, <1>2, <1>3, RequestKeepsGas
<1>5. TypeOK'
  BY <1>3, <1>4 DEF TypeOK
<1>6. \A other \in TasksOf("deposit") : status'[other] = status[other]
  BY <1>1, <1>3 DEF Request, TypeOK, TasksOf
<1>7. \A other \in TasksOf("withdrawal") :
        status'[other] = "Finalized" <=> status[other] = "Finalized"
  <2>1. status[task] = "None" /\ status' = [status EXCEPT ![task] = "Pending"]
    BY <1>1, <1>2, <1>3, RequestKeepsGas DEF Request
  <2>2. QED
    BY <1>3, <2>1 DEF TypeOK, TasksOf
<1>8. FundsInv'
  BY <1>3, <1>6, <1>7, FundsFrame DEF TypeOK
<1>9. QED
  BY <1>4, <1>5, <1>8 DEF LedgerInv

(* A deposit adds its amount to the pending total and to the reserve.       *)
LEMMA DepositStep ==
  ASSUME LedgerInv, NEW task \in Tasks, NEW gas \in GasValues, Deposit(task, gas)
  PROVE  LedgerInv'
<1> USE DEF Deposit, adminVars
<1> DEFINE u == task.token
<1>1. Request(task, gas) /\ gas \in Nat /\ task \in TasksOf("deposit")
  BY SwapAssumption DEF TasksOf
<1>2. TypeOK /\ NoncesCoverTasks /\ GasInv /\ FundsInv
  BY DEF LedgerInv
<1>3. /\ GasInv' /\ NoncesCoverTasks' /\ status[task] = "None"
      /\ status' \in [Tasks -> Statuses]
      /\ nonceUsed' \subseteq
           {"deposit", "transfer", "withdrawal", "opening"} \X Accounts \X Nat
      /\ taskGasEscrow' \in [Tasks -> Nat] /\ gasRefundCredits' \in [Accounts -> Nat]
      /\ etherBalance' \in Nat
  BY <1>1, <1>2, RequestKeepsGas
<1>4. /\ u \in Tokens /\ task.amount \in Nat /\ task.account \in Commitments
      /\ task.requester \in Accounts
  BY TaskFacts
<1>5. TypeOK'
  BY <1>2, <1>3, <1>4 DEF TypeOK
<1>6. status' = [status EXCEPT ![task] = "Pending"]
  BY <1>1 DEF Request
<1>7. \A S : \A t \in Tokens : Total(Deposits(t, S))' =
        Total(Deposits(t, S)) - Share(task, t, "None", S) + Share(task, t, "Pending", S)
  <2> SUFFICES ASSUME NEW t \in Tokens, NEW S
               PROVE  Total(Deposits(t, S))' = Total(Deposits(t, S))
                        - Share(task, t, status[task], S) + Share(task, t, "Pending", S)
    BY <1>3
  <2>1. "Pending" \in Statuses
    BY DEF Statuses
  <2>2. QED
    BY <1>1, <1>2, <1>6, <2>1, DepositsChange
<1>8. \A t \in Tokens : Total(Deposits(t, {"Pending"})) \in Nat
  BY <1>2, TotalsTyped
<1>9. ReserveIsExact'
  <2> SUFFICES ASSUME NEW t \in Tokens
               PROVE  /\ tokenBalances'[t] >= accountedBalances'[t]
                      /\ accountedBalances'[t] = Total(Deposits(t, {"Pending"}))'
                           + privateLiabilities'[t] + accruedFees'[t]
    BY DEF ReserveIsExact
  <2> DEFINE mine == IF u = t THEN task.amount ELSE 0
  <2>1. /\ tokenBalances[t] >= accountedBalances[t]
        /\ accountedBalances[t] = Total(Deposits(t, {"Pending"}))
             + privateLiabilities[t] + accruedFees[t]
    BY <1>2 DEF FundsInv, ReserveIsExact
  <2>2. /\ tokenBalances[t] \in Nat /\ accountedBalances[t] \in Nat
        /\ privateLiabilities[t] \in Nat /\ accruedFees[t] \in Nat
        /\ tokenBalances'[t] = tokenBalances[t] + mine
        /\ accountedBalances'[t] = accountedBalances[t] + mine
        /\ privateLiabilities'[t] = privateLiabilities[t]
        /\ accruedFees'[t] = accruedFees[t]
    BY <1>2, <1>4 DEF TypeOK
  <2>3. Total(Deposits(t, {"Pending"}))' = Total(Deposits(t, {"Pending"})) + mine
    <3>1. Share(task, t, "None", {"Pending"}) = 0 /\ Share(task, t, "Pending", {"Pending"}) = mine
      BY DEF Share
    <3>2. QED
      BY <1>4, <1>7, <1>8, <3>1
  <2>4. mine \in Nat
    BY <1>4
  <2> HIDE DEF mine
  <2>5. QED
    BY <1>8, <2>1, <2>2, <2>3, <2>4
<1>10. \A t \in Tokens : Total(Debits(t))' = Total(Debits(t))
  BY DEF Debits
<1>11. \A t \in Tokens :
         Total(Deposits(t, {"Finalized"}))' = Total(Deposits(t, {"Finalized"}))
  <2>1. \A t \in Tokens : /\ Share(task, t, "None", {"Finalized"}) = 0
                          /\ Share(task, t, "Pending", {"Finalized"}) = 0
    BY DEF Share
  <2>2. \A t \in Tokens : Total(Deposits(t, {"Finalized"})) \in Nat
    BY <1>2, TotalsTyped
  <2>3. QED
    BY <1>7, <2>1, <2>2
<1>12. SettledOnce'
  BY <1>1, <1>2, <1>6, SettledFrame DEF FundsInv, LiabilitiesAreBacked, TypeOK, TasksOf
<1>13. LiabilitiesAreBacked'
  BY <1>2, <1>10, <1>11, <1>12 DEF FundsInv, LiabilitiesAreBacked
<1>14. QED
  BY <1>3, <1>5, <1>9, <1>13 DEF LedgerInv, FundsInv

(* Finalizing and cancelling move a deposit out of the pending total.       *)
LEMMA DepositCloses ==
  ASSUME TypeOK, NEW task \in TasksOf("deposit"), Pending(task),
         NEW s \in {"Finalized", "Cancelled"}, status' = [status EXCEPT ![task] = s],
         NEW t \in Tokens
  PROVE  LET mine == IF task.token = t THEN task.amount ELSE 0
         IN  /\ Total(Deposits(t, {"Pending"}))' = Total(Deposits(t, {"Pending"})) - mine
             /\ Total(Deposits(t, {"Finalized"}))' =
                  Total(Deposits(t, {"Finalized"})) + (IF s = "Finalized" THEN mine ELSE 0)
             /\ mine \in Nat /\ mine <= Total(Deposits(t, {"Pending"}))
             /\ Total(Deposits(t, {"Pending"})) \in Nat
             /\ Total(Deposits(t, {"Finalized"})) \in Nat
<1> DEFINE mine == IF task.token = t THEN task.amount ELSE 0
<1>1. s \in Statuses /\ task \in Tasks /\ status[task] = "Pending"
  BY TaskFacts DEF Statuses, Pending
<1>2. mine \in Nat
  BY <1>1, TaskFacts
<1>3. /\ Total(Deposits(t, {"Pending"})) \in Nat
      /\ Total(Deposits(t, {"Finalized"})) \in Nat
      /\ Deposits(t, {"Pending"}) \in [TasksOf("deposit") -> Nat]
  BY TotalsTyped
<1>4. Total(Deposits(t, {"Pending"}))' = Total(Deposits(t, {"Pending"}))
        - Share(task, t, status[task], {"Pending"}) + Share(task, t, s, {"Pending"})
  BY <1>1, DepositsChange
<1>5. Total(Deposits(t, {"Finalized"}))' = Total(Deposits(t, {"Finalized"}))
        - Share(task, t, status[task], {"Finalized"}) + Share(task, t, s, {"Finalized"})
  BY <1>1, DepositsChange
<1>6. mine <= Total(Deposits(t, {"Pending"}))
  <2>1. Deposits(t, {"Pending"})[task] = mine
    BY <1>1 DEF Deposits
  <2>2. QED
    BY <1>3, <2>1, TaskFacts, TotalBounds
<1>7. QED
  BY <1>1, <1>2, <1>3, <1>4, <1>5, <1>6 DEF Share

(* A finalized deposit becomes a liability.                                 *)
LEMMA FinalizeDepositStep ==
  ASSUME LedgerInv, NEW sender \in Accounts, NEW task \in Tasks,
         NEW old \in Roots, NEW new \in Roots, NEW k \in CommitteeIds, NEW signers,
         FinalizeDeposit(sender, task, old, new, k, signers)
  PROVE  LedgerInv'
<1> USE DEF FinalizeDeposit, adminVars
<1>1. TypeOK /\ NoncesCoverTasks /\ GasInv /\ FundsInv
  BY DEF LedgerInv
<1>2. /\ task \in TasksOf("deposit") /\ Pending(task) /\ CreditTaskGas(task, sender)
      /\ status' = [status EXCEPT ![task] = "Finalized"]
  BY DEF TasksOf
<1>3. "Finalized" \in Statuses
  BY DEF Statuses
<1>4. /\ GasInv'
      /\ taskGasEscrow' \in [Tasks -> Nat] /\ gasRefundCredits' \in [Accounts -> Nat]
      /\ etherBalance' \in Nat
  BY <1>1, <1>2, <1>3, CreditKeepsGas
<1>5. task.token \in Tokens /\ task.amount \in Nat
  BY TaskFacts
<1>6. TypeOK'
  BY <1>1, <1>3, <1>4, <1>5 DEF TypeOK, ChainRoots
<1>7. NoncesCoverTasks'
  BY <1>1, <1>2 DEF NoncesCoverTasks, Pending, TypeOK
<1>8. \A t \in Tokens :
        LET mine == IF task.token = t THEN task.amount ELSE 0
        IN  /\ Total(Deposits(t, {"Pending"}))' = Total(Deposits(t, {"Pending"})) - mine
            /\ Total(Deposits(t, {"Finalized"}))' = Total(Deposits(t, {"Finalized"})) + mine
            /\ mine \in Nat
            /\ Total(Deposits(t, {"Pending"})) \in Nat
            /\ Total(Deposits(t, {"Finalized"})) \in Nat
  <2>1. "Finalized" \in {"Finalized", "Cancelled"}
    OBVIOUS
  <2>2. QED
    BY <1>1, <1>2, <2>1, DepositCloses
<1>9. ReserveIsExact'
  BY <1>1, <1>5, <1>8 DEF FundsInv, ReserveIsExact, TypeOK
<1>10. \A t \in Tokens : Total(Debits(t))' = Total(Debits(t))
  BY DEF Debits
<1>11. \A t \in Tokens : Total(Debits(t)) \in Nat
  BY <1>1, TotalsTyped
<1>12. SettledOnce'
  BY <1>1, <1>2, SettledFrame DEF FundsInv, LiabilitiesAreBacked, TypeOK, TasksOf
<1>13. LiabilitiesAreBacked'
  BY <1>1, <1>5, <1>8, <1>10, <1>11, <1>12 DEF FundsInv, LiabilitiesAreBacked, TypeOK
<1>14. QED
  BY <1>4, <1>6, <1>7, <1>9, <1>13 DEF LedgerInv, FundsInv

(* A cancelled deposit leaves the reserve with its tokens.                  *)
LEMMA CancelDepositStep ==
  ASSUME LedgerInv, NEW sender \in Accounts, NEW task \in Tasks, CancelDeposit(sender, task)
  PROVE  LedgerInv'
<1> USE DEF CancelDeposit, adminVars
<1>1. TypeOK /\ NoncesCoverTasks /\ GasInv /\ FundsInv
  BY DEF LedgerInv
<1>2. /\ task \in TasksOf("deposit") /\ Pending(task) /\ CreditTaskGas(task, sender)
      /\ status' = [status EXCEPT ![task] = "Cancelled"]
  BY DEF TasksOf, Refundable
<1>3. "Cancelled" \in Statuses
  BY DEF Statuses
<1>4. /\ GasInv'
      /\ taskGasEscrow' \in [Tasks -> Nat] /\ gasRefundCredits' \in [Accounts -> Nat]
      /\ etherBalance' \in Nat
  BY <1>1, <1>2, <1>3, CreditKeepsGas
<1>5. /\ task.token \in Tokens /\ task.amount \in Nat
      /\ accountedBalances[task.token] - task.amount \in Nat
      /\ tokenBalances[task.token] - task.amount \in Nat
  BY <1>1, TaskFacts DEF TypeOK
<1>6. TypeOK'
  BY <1>1, <1>3, <1>4, <1>5 DEF TypeOK
<1>7. NoncesCoverTasks'
  BY <1>1, <1>2 DEF NoncesCoverTasks, Pending, TypeOK
<1>8. \A t \in Tokens :
        LET mine == IF task.token = t THEN task.amount ELSE 0
        IN  /\ Total(Deposits(t, {"Pending"}))' = Total(Deposits(t, {"Pending"})) - mine
            /\ Total(Deposits(t, {"Finalized"}))' = Total(Deposits(t, {"Finalized"}))
            /\ mine \in Nat
            /\ Total(Deposits(t, {"Pending"})) \in Nat
  <2>1. "Cancelled" \in {"Finalized", "Cancelled"}
    OBVIOUS
  <2>2. ASSUME NEW t \in Tokens
        PROVE  LET mine == IF task.token = t THEN task.amount ELSE 0
               IN  /\ Total(Deposits(t, {"Pending"}))' = Total(Deposits(t, {"Pending"})) - mine
                   /\ Total(Deposits(t, {"Finalized"}))' =
                        Total(Deposits(t, {"Finalized"}))
                        + (IF "Cancelled" = "Finalized" THEN mine ELSE 0)
                   /\ mine \in Nat
                   /\ Total(Deposits(t, {"Pending"})) \in Nat
                   /\ Total(Deposits(t, {"Finalized"})) \in Nat
    BY <1>1, <1>2, <2>1, DepositCloses
  <2>3. QED
    BY <2>2
<1>9. ReserveIsExact'
  BY <1>1, <1>5, <1>8 DEF FundsInv, ReserveIsExact, TypeOK
<1>10. \A t \in Tokens : Total(Debits(t))' = Total(Debits(t))
  BY DEF Debits
<1>11. SettledOnce'
  BY <1>1, <1>2, SettledFrame DEF FundsInv, LiabilitiesAreBacked, TypeOK, TasksOf
<1>12. LiabilitiesAreBacked'
  BY <1>1, <1>8, <1>10, <1>11 DEF FundsInv, LiabilitiesAreBacked
<1>13. QED
  BY <1>4, <1>6, <1>7, <1>9, <1>12 DEF LedgerInv, FundsInv

(* What a payout does to the ledger of one token.                           *)
LEMMA PayoutFacts ==
  ASSUME TypeOK, NEW u \in Tokens, NEW amount \in Nat, Payout(u, amount)
  PROVE  /\ privateLiabilities' \in [Tokens -> Nat] /\ accruedFees' \in [Tokens -> Nat]
         /\ accountedBalances' \in [Tokens -> Nat] /\ tokenBalances' \in [Tokens -> Nat]
         /\ \A t \in Tokens :
              LET mine == IF u = t THEN amount ELSE 0
              IN  /\ privateLiabilities'[t] = privateLiabilities[t] - mine
                  /\ privateLiabilities'[t] + accruedFees'[t] - accountedBalances'[t] =
                       privateLiabilities[t] + accruedFees[t] - accountedBalances[t]
                  /\ tokenBalances'[t] - accountedBalances'[t] =
                       tokenBalances[t] - accountedBalances[t]
<1> DEFINE fee == Fee(u, amount)
           payout == amount - fee
<1>1. fee \in Nat /\ fee <= amount
  BY FeeBound
<1>2. payout \in Nat
  BY <1>1
<1>3. /\ privateLiabilities[u] \in Nat /\ accruedFees[u] \in Nat
      /\ accountedBalances[u] \in Nat /\ tokenBalances[u] \in Nat
  BY DEF TypeOK
<1>4. /\ privateLiabilities[u] >= amount
      /\ accountedBalances[u] >= payout
      /\ tokenBalances[u] >= payout
      /\ privateLiabilities' = [privateLiabilities EXCEPT ![u] = privateLiabilities[u] - amount]
      /\ accruedFees' = [accruedFees EXCEPT ![u] = accruedFees[u] + fee]
      /\ accountedBalances' = [accountedBalances EXCEPT ![u] = accountedBalances[u] - payout]
      /\ tokenBalances' = [tokenBalances EXCEPT ![u] = tokenBalances[u] - payout]
  BY DEF Payout
<1> HIDE DEF fee
<1>5. /\ privateLiabilities[u] - amount \in Nat /\ accruedFees[u] + fee \in Nat
      /\ accountedBalances[u] - payout \in Nat /\ tokenBalances[u] - payout \in Nat
  BY <1>1, <1>2, <1>3, <1>4
<1>6. /\ privateLiabilities' \in [Tokens -> Nat] /\ accruedFees' \in [Tokens -> Nat]
      /\ accountedBalances' \in [Tokens -> Nat] /\ tokenBalances' \in [Tokens -> Nat]
  BY <1>4, <1>5 DEF TypeOK
<1>7. ASSUME NEW t \in Tokens
      PROVE  LET mine == IF u = t THEN amount ELSE 0
             IN  /\ privateLiabilities'[t] = privateLiabilities[t] - mine
                 /\ privateLiabilities'[t] + accruedFees'[t] - accountedBalances'[t] =
                      privateLiabilities[t] + accruedFees[t] - accountedBalances[t]
                 /\ tokenBalances'[t] - accountedBalances'[t] =
                      tokenBalances[t] - accountedBalances[t]
  <2>1. CASE u = t
    BY <1>1, <1>3, <1>4, <2>1 DEF TypeOK
  <2>2. CASE u # t
    BY <1>4, <2>2 DEF TypeOK
  <2>3. QED
    BY <2>1, <2>2
<1>8. QED
  BY <1>6, <1>7

(* A payout keeps the reserve exact while the deposits stay as they are.    *)
LEMMA PayoutKeepsReserve ==
  ASSUME TypeOK, FundsInv, NEW u \in Tokens, NEW amount \in Nat, Payout(u, amount),
         \A task \in TasksOf("deposit") : status'[task] = status[task]
  PROVE  ReserveIsExact'
<1> DEFINE P(t) == Total(Deposits(t, {"Pending"}))
<1>1. \A t \in Tokens : P(t)' = P(t)
  BY DepositsKept
<1>2. \A t \in Tokens : P(t) \in Nat
  BY TotalsTyped
<1>3. \A t \in Tokens : /\ tokenBalances[t] >= accountedBalances[t]
                        /\ accountedBalances[t] = P(t) + privateLiabilities[t] + accruedFees[t]
  BY DEF FundsInv, ReserveIsExact
<1>4. /\ privateLiabilities' \in [Tokens -> Nat] /\ accruedFees' \in [Tokens -> Nat]
      /\ accountedBalances' \in [Tokens -> Nat] /\ tokenBalances' \in [Tokens -> Nat]
      /\ \A t \in Tokens :
           /\ privateLiabilities'[t] + accruedFees'[t] - accountedBalances'[t] =
                privateLiabilities[t] + accruedFees[t] - accountedBalances[t]
           /\ tokenBalances'[t] - accountedBalances'[t] =
                tokenBalances[t] - accountedBalances[t]
  BY PayoutFacts
<1>5. \A t \in Tokens : /\ tokenBalances'[t] >= accountedBalances'[t]
                        /\ accountedBalances'[t] = P(t)' + privateLiabilities'[t] + accruedFees'[t]
  <2> SUFFICES ASSUME NEW t \in Tokens
               PROVE  /\ tokenBalances'[t] >= accountedBalances'[t]
                      /\ accountedBalances'[t] = P(t)' + privateLiabilities'[t] + accruedFees'[t]
    OBVIOUS
  <2>1. /\ privateLiabilities[t] \in Nat /\ accruedFees[t] \in Nat
        /\ accountedBalances[t] \in Nat /\ tokenBalances[t] \in Nat
    BY DEF TypeOK
  <2>2. /\ privateLiabilities'[t] \in Nat /\ accruedFees'[t] \in Nat
        /\ accountedBalances'[t] \in Nat /\ tokenBalances'[t] \in Nat
    BY <1>4
  <2>3. /\ P(t)' = P(t) /\ P(t) \in Nat
        /\ tokenBalances[t] >= accountedBalances[t]
        /\ accountedBalances[t] = P(t) + privateLiabilities[t] + accruedFees[t]
    BY <1>1, <1>2, <1>3
  <2>4. /\ privateLiabilities'[t] + accruedFees'[t] - accountedBalances'[t] =
             privateLiabilities[t] + accruedFees[t] - accountedBalances[t]
        /\ tokenBalances'[t] - accountedBalances'[t] =
             tokenBalances[t] - accountedBalances[t]
    BY <1>4
  <2> HIDE DEF P
  <2>5. QED
    BY <2>1, <2>2, <2>3, <2>4
<1>6. QED
  BY <1>5 DEF ReserveIsExact

(* The debit of an unspent nullifier adds its amount to the debits.         *)
LEMMA DebitIsCounted ==
  ASSUME TypeOK, NEW n \in Nullifiers, Unspent(n),
         NEW debit \in Tasks \cup Vouchers, debit.amount \in Nat,
         spentNullifiers' = [spentNullifiers EXCEPT ![n] = debit],
         NEW t \in Tokens
  PROVE  /\ Total(Debits(t))' =
              Total(Debits(t)) + (IF debit.token = t THEN debit.amount ELSE 0)
         /\ Total(Debits(t)) \in Nat /\ Total(Debits(t))' \in Nat
<1> DEFINE f == Debits(t)
           v == IF debit.token = t THEN debit.amount ELSE 0
<1>1. f \in [Nullifiers -> Nat] /\ Total(f) \in Nat
  BY TotalsTyped
<1>2. v \in Nat
  OBVIOUS
<1>3. f[n] = 0
  BY DEF Debits, Unspent
<1>4. Debits(t)' = [f EXCEPT ![n] = v]
  <2>1. debit # None
    BY SpenderFacts
  <2>2. QED
    BY <2>1 DEF Debits, TypeOK
<1>5. Total([f EXCEPT ![n] = v]) = Total(f) - f[n] + v
  <2>1. IsFiniteSet(Nullifiers)
    BY TaskFacts
  <2> HIDE DEF f, v
  <2> QED BY <1>1, <1>2, <2>1, TotalUpdate
<1>6. QED
  BY <1>1, <1>2, <1>3, <1>4, <1>5

(* Burning an amount and recording it once keeps the liabilities backed.    *)
LEMMA BurnKeepsBacking ==
  ASSUME TypeOK, FundsInv, SettledOnce', NEW u \in Tokens, NEW amount \in Nat,
         privateLiabilities' \in [Tokens -> Nat],
         \A t \in Tokens :
           /\ Total(Deposits(t, {"Finalized"}))' = Total(Deposits(t, {"Finalized"}))
           /\ privateLiabilities'[t] =
                privateLiabilities[t] - (IF u = t THEN amount ELSE 0)
           /\ Total(Debits(t))' = Total(Debits(t)) + (IF u = t THEN amount ELSE 0)
           /\ Total(Debits(t))' \in Nat
  PROVE  LiabilitiesAreBacked'
<1> SUFFICES ASSUME NEW t \in Tokens
             PROVE  Total(Deposits(t, {"Finalized"}))' =
                      privateLiabilities'[t] + Total(Debits(t))'
  BY DEF LiabilitiesAreBacked
<1>1. Total(Deposits(t, {"Finalized"})) = privateLiabilities[t] + Total(Debits(t))
  BY DEF FundsInv, LiabilitiesAreBacked
<1>2. /\ Total(Debits(t)) \in Nat
      /\ privateLiabilities[t] \in Nat /\ privateLiabilities'[t] \in Nat
  BY TotalsTyped DEF TypeOK
<1>3. QED
  BY <1>1, <1>2

(* A withdrawal burns its amount once.                                      *)
LEMMA FinalizeWithdrawalStep ==
  ASSUME LedgerInv, NEW sender \in Accounts, NEW task \in Tasks,
         NEW nullifier \in Nullifiers,
         NEW old \in Roots, NEW new \in Roots, NEW k \in CommitteeIds, NEW signers,
         FinalizeWithdrawal(sender, task, nullifier, old, new, k, signers)
  PROVE  LedgerInv'
<1> USE DEF FinalizeWithdrawal, adminVars
<1> DEFINE u == task.token
<1>1. TypeOK /\ NoncesCoverTasks /\ GasInv /\ FundsInv
  BY DEF LedgerInv
<1>2. /\ task \in TasksOf("withdrawal") /\ Pending(task) /\ CreditTaskGas(task, sender)
      /\ status' = [status EXCEPT ![task] = "Finalized"]
      /\ Payout(u, task.amount)
  BY DEF TasksOf
<1>3. "Finalized" \in Statuses
  BY DEF Statuses
<1>4. /\ GasInv'
      /\ taskGasEscrow' \in [Tasks -> Nat] /\ gasRefundCredits' \in [Accounts -> Nat]
      /\ etherBalance' \in Nat
  BY <1>1, <1>2, <1>3, CreditKeepsGas
<1>5. u \in Tokens /\ task.amount \in Nat
  BY TaskFacts
<1>6. /\ privateLiabilities' \in [Tokens -> Nat] /\ accruedFees' \in [Tokens -> Nat]
      /\ accountedBalances' \in [Tokens -> Nat] /\ tokenBalances' \in [Tokens -> Nat]
      /\ \A t \in Tokens : privateLiabilities'[t] =
           privateLiabilities[t] - (IF u = t THEN task.amount ELSE 0)
  BY <1>1, <1>2, <1>5, PayoutFacts
<1>7. TypeOK'
  <2>1. privateStateRoots' \in [Tokens -> Roots]
    BY <1>1 DEF TypeOK, ChainRoots
  <2>2. /\ spentNullifiers' \in [Nullifiers -> Tasks \cup Vouchers \cup {None}]
        /\ status' \in [Tasks -> Statuses]
    BY <1>1, <1>3 DEF TypeOK
  <2>3. QED
    BY <1>1, <1>4, <1>6, <2>1, <2>2 DEF TypeOK
<1>8. NoncesCoverTasks'
  BY <1>1, <1>2 DEF NoncesCoverTasks, Pending, TypeOK
<1>9. \A other \in TasksOf("deposit") : status'[other] = status[other]
  BY <1>1 DEF TypeOK, TasksOf
<1>10. ReserveIsExact'
  BY <1>1, <1>2, <1>5, <1>9, PayoutKeepsReserve
<1>11. \A t \in Tokens :
         Total(Deposits(t, {"Finalized"}))' = Total(Deposits(t, {"Finalized"}))
  BY <1>9, DepositsKept
<1>12. SettledOnce'
  <2> SUFFICES ASSUME NEW other \in TasksOf("withdrawal")
               PROVE  /\ status'[other] = "Finalized" <=>
                           \E n \in Nullifiers : spentNullifiers'[n] = other
                      /\ \A m, n \in Nullifiers :
                           spentNullifiers'[m] = other /\ spentNullifiers'[n] = other => m = n
    BY DEF SettledOnce
  <2>1. /\ status[other] = "Finalized" <=>
             \E n \in Nullifiers : spentNullifiers[n] = other
        /\ \A m, n \in Nullifiers :
             spentNullifiers[m] = other /\ spentNullifiers[n] = other => m = n
    BY <1>1 DEF FundsInv, LiabilitiesAreBacked, SettledOnce
  <2>2. other \in Tasks /\ other # None
    BY TaskFacts, SpenderFacts
  <2>3. /\ spentNullifiers'[nullifier] = task /\ spentNullifiers[nullifier] = None
        /\ \A n \in Nullifiers \ {nullifier} : spentNullifiers'[n] = spentNullifiers[n]
    BY <1>1 DEF Unspent, TypeOK
  <2>4. CASE other = task
    <3>1. status[other] = "Pending" /\ status'[other] = "Finalized"
      BY <1>1, <1>2, <2>2, <2>4 DEF Pending, TypeOK
    <3>2. \A n \in Nullifiers : spentNullifiers[n] # other
      BY <2>1, <3>1
    <3>3. QED
      BY <2>3, <2>4, <3>1, <3>2
  <2>5. CASE other # task
    <3>1. status'[other] = status[other]
      BY <1>1, <1>2, <2>2, <2>5 DEF TypeOK
    <3>2. \A n \in Nullifiers : spentNullifiers'[n] = other <=> spentNullifiers[n] = other
      BY <2>2, <2>3, <2>5
    <3>3. QED
      BY <2>1, <3>1, <3>2
  <2>6. QED
    BY <2>4, <2>5
<1>13. LiabilitiesAreBacked'
  <2>1. /\ task \in Tasks \cup Vouchers /\ Unspent(nullifier)
        /\ spentNullifiers' = [spentNullifiers EXCEPT ![nullifier] = task]
    OBVIOUS
  <2>2. \A t \in Tokens :
          /\ Total(Debits(t))' = Total(Debits(t)) + (IF u = t THEN task.amount ELSE 0)
          /\ Total(Debits(t))' \in Nat
    BY <1>1, <1>5, <2>1, DebitIsCounted
  <2> HIDE DEF FinalizeWithdrawal, adminVars, u
  <2>3. QED
    BY <1>1, <1>5, <1>6, <1>11, <1>12, <2>2, BurnKeepsBacking
<1>14. QED
  BY <1>4, <1>7, <1>8, <1>10, <1>13 DEF LedgerInv, FundsInv

(* A voucher burns the amount of its nullifier once.                        *)
LEMMA WithdrawStep ==
  ASSUME LedgerInv, NEW voucher \in Vouchers,
         NEW old \in Roots, NEW new \in Roots, NEW k \in CommitteeIds, NEW signers,
         Withdraw(voucher, old, new, k, signers)
  PROVE  LedgerInv'
<1> USE DEF Withdraw, adminVars, requestVars, gasVars
<1> DEFINE u == voucher.token
           n == voucher.nullifier
<1>1. TypeOK /\ NoncesCoverTasks /\ GasInv /\ FundsInv
  BY DEF LedgerInv
<1>2. u \in Tokens /\ voucher.amount \in Nat /\ n \in Nullifiers
  BY VouchersAssumption DEF Voucher
<1>3. /\ Payout(u, voucher.amount) /\ Unspent(n)
      /\ spentNullifiers' = [spentNullifiers EXCEPT ![n] = voucher]
  OBVIOUS
<1>4. /\ privateLiabilities' \in [Tokens -> Nat] /\ accruedFees' \in [Tokens -> Nat]
      /\ accountedBalances' \in [Tokens -> Nat] /\ tokenBalances' \in [Tokens -> Nat]
      /\ \A t \in Tokens : privateLiabilities'[t] =
           privateLiabilities[t] - (IF u = t THEN voucher.amount ELSE 0)
  BY <1>1, <1>2, <1>3, PayoutFacts
<1>5. TypeOK'
  <2>1. privateStateRoots' \in [Tokens -> Roots]
    BY <1>1 DEF TypeOK, ChainRoots
  <2>2. spentNullifiers' \in [Nullifiers -> Tasks \cup Vouchers \cup {None}]
    BY <1>1, <1>2, <1>3 DEF TypeOK
  <2>3. QED
    BY <1>1, <1>4, <2>1, <2>2 DEF TypeOK
<1>6. NoncesCoverTasks' /\ GasInv'
  BY <1>1 DEF NoncesCoverTasks, GasInv, EscrowIsForPending, EtherIsOwed, Pending
<1>7. \A other \in TasksOf("deposit") : status'[other] = status[other]
  OBVIOUS
<1>8. ReserveIsExact'
  BY <1>1, <1>2, <1>3, <1>7, PayoutKeepsReserve
<1>9. \A t \in Tokens :
        Total(Deposits(t, {"Finalized"}))' = Total(Deposits(t, {"Finalized"}))
  BY <1>7, DepositsKept
<1>10. SettledOnce'
  <2>1. \A task \in TasksOf("withdrawal") : task # voucher /\ task # None
    BY TaskFacts, SpenderFacts
  <2>2. \A task \in TasksOf("withdrawal") : \A m \in Nullifiers :
          spentNullifiers'[m] = task <=> spentNullifiers[m] = task
    BY <1>1, <1>2, <1>3, <2>1 DEF Unspent, TypeOK
  <2>3. SettledOnce
    BY <1>1 DEF FundsInv, LiabilitiesAreBacked
  <2>4. status' = status
    OBVIOUS
  <2> HIDE DEF Withdraw, u, n
  <2>5. QED
    BY <2>2, <2>3, <2>4 DEF SettledOnce
<1>11. LiabilitiesAreBacked'
  <2>1. \A t \in Tokens :
          /\ Total(Debits(t))' = Total(Debits(t)) + (IF u = t THEN voucher.amount ELSE 0)
          /\ Total(Debits(t))' \in Nat
    BY <1>1, <1>2, <1>3, DebitIsCounted
  <2> HIDE DEF u, n, Withdraw
  <2>2. QED
    BY <1>1, <1>2, <1>4, <1>9, <1>10, <2>1, BurnKeepsBacking
<1>12. QED
  BY <1>5, <1>6, <1>8, <1>11 DEF LedgerInv, FundsInv

(* Transfers and openings settle, and withdrawal requests expire, without   *)
(* moving a token.                                                          *)
LEMMA QuietCloseStep ==
  ASSUME LedgerInv, NEW sender \in Accounts, NEW task \in Tasks,
         NEW old \in Roots, NEW new \in Roots, NEW k \in CommitteeIds, NEW signers,
         \/ FinalizeConfidentialTransfer(sender, task, old, new, k, signers)
         \/ FulfillBalanceOpening(sender, task, k, signers)
         \/ CancelWithdrawal(sender, task)
  PROVE  LedgerInv'
<1> USE DEF FinalizeConfidentialTransfer, FulfillBalanceOpening, CancelWithdrawal,
            adminVars, ledgerVars
<1>1. TypeOK /\ NoncesCoverTasks /\ GasInv /\ FundsInv
  BY DEF LedgerInv
<1>2. PICK s \in {"Finalized", "Cancelled"} :
        /\ status' = [status EXCEPT ![task] = s]
        /\ CreditTaskGas(task, sender)
        /\ Pending(task) /\ task.kind # "deposit"
  OBVIOUS
<1>3. s \in Statuses
  BY DEF Statuses
<1>4. /\ GasInv'
      /\ taskGasEscrow' \in [Tasks -> Nat] /\ gasRefundCredits' \in [Accounts -> Nat]
      /\ etherBalance' \in Nat
  BY <1>1, <1>2, <1>3, CreditKeepsGas
<1>5. privateStateRoots' \in [Tokens -> Roots]
  BY <1>1 DEF TypeOK, ChainRoots
<1>6. UNCHANGED <<now, registered, adminVars, privateLiabilities, accountedBalances,
                  accruedFees, nonceUsed, createdAt, spentNullifiers, controllers,
                  tokenBalances>>
  OBVIOUS
<1>7. TypeOK'
  BY <1>1, <1>2, <1>3, <1>4, <1>5, <1>6 DEF TypeOK
<1>8. NoncesCoverTasks'
  BY <1>1, <1>2, <1>6 DEF NoncesCoverTasks, Pending, TypeOK
<1>9. \A other \in TasksOf("deposit") : status'[other] = status[other]
  BY <1>1, <1>2 DEF TypeOK, TasksOf
<1>10. \A other \in TasksOf("withdrawal") :
         status'[other] = "Finalized" <=> status[other] = "Finalized"
  <2>1. task.kind = "withdrawal" => status' = [status EXCEPT ![task] = "Cancelled"]
    OBVIOUS
  <2>2. QED
    BY <1>1, <1>2, <2>1 DEF Pending, TypeOK, TasksOf
<1>11. FundsInv'
  BY <1>1, <1>6, <1>9, <1>10, FundsFrame DEF TypeOK
<1>12. QED
  BY <1>4, <1>7, <1>8, <1>11 DEF LedgerInv

(* Collected fees leave the reserve and the account of fees together.       *)
LEMMA CollectFeesStep ==
  ASSUME LedgerInv, NEW sender \in Accounts, NEW u \in Tokens,
         NEW amount \in 1..accruedFees[u], CollectFees(sender, u, amount)
  PROVE  LedgerInv'
<1> USE DEF CollectFees, adminVars, requestVars, gasVars
<1>1. TypeOK /\ NoncesCoverTasks /\ GasInv /\ FundsInv
  BY DEF LedgerInv
<1>2. /\ accruedFees[u] \in Nat /\ accountedBalances[u] \in Nat /\ tokenBalances[u] \in Nat
      /\ amount \in Nat
      /\ accruedFees[u] - amount \in Nat /\ accountedBalances[u] - amount \in Nat
      /\ tokenBalances[u] - amount \in Nat
  BY <1>1 DEF TypeOK
<1>3. TypeOK'
  BY <1>1, <1>2 DEF TypeOK
<1>4. NoncesCoverTasks' /\ GasInv'
  BY <1>1 DEF NoncesCoverTasks, GasInv, EscrowIsForPending, EtherIsOwed, Pending
<1>5. \A S : \A t \in Tokens : Total(Deposits(t, S))' = Total(Deposits(t, S))
  BY DepositsKept
<1>6. \A t \in Tokens : Total(Deposits(t, {"Pending"})) \in Nat
  BY <1>1, TotalsTyped
<1>7. ReserveIsExact'
  BY <1>1, <1>2, <1>5, <1>6 DEF FundsInv, ReserveIsExact, TypeOK
<1>8. \A t \in Tokens : Total(Debits(t))' = Total(Debits(t))
  BY DEF Debits
<1>9. LiabilitiesAreBacked'
  BY <1>1, <1>5, <1>8 DEF FundsInv, LiabilitiesAreBacked, SettledOnce
<1>10. QED
  BY <1>3, <1>4, <1>7, <1>9 DEF LedgerInv, FundsInv

-----------------------------------------------------------------------------
(* The administrator, the registrations, the clock and direct transfers     *)
(* leave the ledger alone.                                                  *)
LEMMA QuietStep ==
  ASSUME LedgerInv, TypeOK',
         UNCHANGED <<privateLiabilities, accountedBalances, accruedFees, requestVars,
                     spentNullifiers, gasVars>>,
         \A t \in Tokens : tokenBalances'[t] >= tokenBalances[t]
  PROVE  LedgerInv'
<1> USE DEF requestVars, gasVars
<1>1. NoncesCoverTasks' /\ GasInv'
  BY DEF LedgerInv, NoncesCoverTasks, GasInv, EscrowIsForPending, EtherIsOwed, Pending
<1>2. FundsInv'
  BY FundsFrame DEF LedgerInv, TypeOK
<1>3. QED
  BY <1>1, <1>2 DEF LedgerInv

LEMMA AdminStep ==
  ASSUME LedgerInv, NEW sender \in Accounts,
         \/ \E t \in Tokens, config \in Configs : ConfigureToken(sender, t, config)
         \/ \E k \in CommitteeIds : SetActiveCommittee(sender, k)
         \/ \E k \in CommitteeIds : BeginCommitteeHandoff(sender, k)
         \/ \E nextPaused \in BOOLEAN : SetPaused(sender, nextPaused)
         \/ \E oldSigners, newSigners \in SUBSET Nodes :
              FinalizeCommitteeHandoff(oldSigners, newSigners)
  PROVE  LedgerInv'
<1> USE DEF ConfigureToken, SetActiveCommittee, BeginCommitteeHandoff, SetPaused,
            FinalizeCommitteeHandoff, ledgerVars, requestVars, gasVars
<1>1. TypeOK'
  BY SwapAssumption DEF LedgerInv, TypeOK
<1>2. /\ UNCHANGED <<privateLiabilities, accountedBalances, accruedFees, requestVars,
                     spentNullifiers, gasVars, tokenBalances>>
  OBVIOUS
<1>3. \A t \in Tokens : tokenBalances'[t] >= tokenBalances[t]
  BY <1>2 DEF LedgerInv, TypeOK
<1>4. QED
  BY <1>1, <1>2, <1>3, QuietStep

LEMMA OutsideStep ==
  ASSUME LedgerInv,
         \/ ChainNext
         \/ UNCHANGED vars
         \/ \E sender \in Accounts, account \in Commitments :
              RegisterConfidentialAccount(sender, account)
  PROVE  LedgerInv'
<1> USE DEF ChainNext, RegisterCommittee, Donate, Tick, RegisterConfidentialAccount, vars,
            adminVars, ledgerVars, requestVars, gasVars
<1>1. TypeOK'
  BY SwapAssumption DEF LedgerInv, TypeOK
<1>2. /\ UNCHANGED <<privateLiabilities, accountedBalances, accruedFees, requestVars,
                     spentNullifiers, gasVars>>
  OBVIOUS
<1>3. \A t \in Tokens : tokenBalances'[t] >= tokenBalances[t]
  BY DEF LedgerInv, TypeOK
<1>4. QED
  BY <1>1, <1>2, <1>3, QuietStep

(* The constructor's state.                                                 *)
LEMMA LedgerInit == Init => LedgerInv
<1> SUFFICES ASSUME Init PROVE LedgerInv
  OBVIOUS
<1> USE DEF Init
<1>1. TypeOK
  <2>1. [enabled |-> FALSE, minimumDeposit |-> 0, withdrawalFeeBps |-> 0] \in TokenConfig
    BY DEF TokenConfig, MaxFeeBps
  <2>2. tokenConfigs \in [Tokens -> TokenConfig]
    BY <2>1
  <2>3. /\ now \in 0..MaxTime
        /\ registered \subseteq CommitteeIds
        /\ pendingCommitteeId \in CommitteeIds \cup {None}
        /\ privateStateRoots \in [Tokens -> Roots]
    BY SwapAssumption
  <2>4. /\ privateLiabilities \in [Tokens -> Nat]
        /\ accountedBalances \in [Tokens -> Nat]
        /\ accruedFees \in [Tokens -> Nat]
        /\ tokenBalances \in [Tokens -> Nat]
        /\ createdAt \in [Tasks -> Nat]
        /\ taskGasEscrow \in [Tasks -> Nat]
        /\ gasRefundCredits \in [Accounts -> Nat]
    OBVIOUS
  <2>5. /\ status \in [Tasks -> Statuses]
        /\ controllers \in [Commitments -> Accounts \cup {None}]
    BY DEF Statuses
  <2>6. QED
    BY <2>2, <2>3, <2>4, <2>5 DEF TypeOK
<1>2. NoncesCoverTasks
  BY DEF NoncesCoverTasks
<1>3. Total(taskGasEscrow) = 0 /\ Total(gasRefundCredits) = 0
  <2>1. taskGasEscrow \in [Tasks -> Nat] /\ \A x \in Tasks : taskGasEscrow[x] = 0
    OBVIOUS
  <2>2. gasRefundCredits \in [Accounts -> Nat] /\ \A x \in Accounts : gasRefundCredits[x] = 0
    OBVIOUS
  <2> HIDE DEF Init
  <2>3. QED
    BY <2>1, <2>2, TaskFacts, TotalBounds
<1>4. GasInv
  BY <1>3 DEF GasInv, EscrowIsForPending, EtherIsOwed
<1>5. ASSUME NEW t \in Tokens
      PROVE  /\ Total(Deposits(t, {"Pending"})) = 0 /\ Total(Deposits(t, {"Finalized"})) = 0
             /\ Total(Debits(t)) = 0
  <2>1. \A task \in TasksOf("deposit") : /\ Deposits(t, {"Pending"})[task] = 0
                                         /\ Deposits(t, {"Finalized"})[task] = 0
    BY TaskFacts DEF Deposits
  <2>3. \A n \in Nullifiers : Debits(t)[n] = 0
    BY DEF Debits
  <2>4. /\ Deposits(t, {"Pending"}) \in [TasksOf("deposit") -> Nat]
        /\ Deposits(t, {"Finalized"}) \in [TasksOf("deposit") -> Nat]
        /\ Debits(t) \in [Nullifiers -> Nat]
    BY <1>1, TotalsTyped
  <2>5. IsFiniteSet(TasksOf("deposit")) /\ IsFiniteSet(Nullifiers)
    BY TaskFacts
  <2> HIDE DEF Init
  <2>6. QED
    BY <2>1, <2>3, <2>4, <2>5, TotalBounds
<1>6. SettledOnce
  BY TaskFacts, SpenderFacts DEF SettledOnce
<1>7. FundsInv
  BY <1>5, <1>6 DEF FundsInv, ReserveIsExact, LiabilitiesAreBacked
<1>8. QED
  BY <1>1, <1>2, <1>4, <1>7 DEF LedgerInv

LEMMA LedgerStep == LedgerInv /\ [Next]_vars => LedgerInv'
<1> SUFFICES ASSUME LedgerInv, [Next]_vars PROVE LedgerInv'
  OBVIOUS
<1>1. ASSUME NEW sender \in Accounts, AdminNext(sender)
      PROVE  LedgerInv'
  BY <1>1, AdminStep, CollectFeesStep DEF AdminNext
<1>2. ASSUME NEW sender \in Accounts, AccountNext(sender)
      PROVE  LedgerInv'
  <2>1. ASSUME NEW task \in Tasks, CancelWithdrawal(sender, task)
        PROVE  LedgerInv'
    <3>1. PICK k \in CommitteeIds : TRUE
      BY SwapAssumption
    <3>2. ZeroRoot \in Roots
      BY SwapAssumption
    <3>3. QED
      BY <2>1, <3>1, <3>2, QuietCloseStep
  <2>2. QED
    BY <1>2, <2>1, OutsideStep, CancelDepositStep, ClaimGasRefundStep DEF AccountNext
<1>3. ASSUME RequestNext PROVE LedgerInv'
  BY <1>3, DepositStep, OtherRequestStep DEF RequestNext
<1>4. ASSUME NEW sender \in Accounts, NEW k \in CommitteeIds, NEW signers \in SUBSET Nodes,
             SettleNext(sender, k, signers)
      PROVE  LedgerInv'
  <2>1. ASSUME NEW task \in Tasks, FulfillBalanceOpening(sender, task, k, signers)
        PROVE  LedgerInv'
    <3>1. ZeroRoot \in Roots
      BY SwapAssumption
    <3>2. QED
      BY <2>1, <3>1, QuietCloseStep
  <2>2. QED
    BY <1>4, <2>1, FinalizeDepositStep, FinalizeWithdrawalStep, QuietCloseStep,
       WithdrawStep DEF SettleNext
<1>5. ASSUME NEW oldSigners \in SUBSET Nodes, NEW newSigners \in SUBSET Nodes,
             FinalizeCommitteeHandoff(oldSigners, newSigners)
      PROVE  LedgerInv'
  <2>1. PICK sender \in Accounts : TRUE
    BY SwapAssumption
  <2>2. QED
    BY <1>5, <2>1, AdminStep
<1>6. CASE ChainNext
  BY <1>6, OutsideStep
<1>7. CASE UNCHANGED vars
  BY <1>7, OutsideStep
<1>8. QED
  BY <1>1, <1>2, <1>3, <1>4, <1>5, <1>6, <1>7 DEF Next

LEMMA LedgerAlways == Spec => []LedgerInv
BY LedgerInit, LedgerStep, PTL DEF Spec

(* The reserve is exact in every reachable state: for any tasks, amounts,   *)
(* fees and order of settlements, cancellations and payments.               *)
THEOREM ReserveAlwaysExact == Spec => []ReserveIsExact
<1>1. LedgerInv => ReserveIsExact
  BY DEF LedgerInv, FundsInv
<1>2. QED
  BY <1>1, LedgerAlways, PTL

(* Liabilities are backed by finalized deposits in every reachable state.   *)
THEOREM LiabilitiesAlwaysBacked == Spec => []LiabilitiesAreBacked
<1>1. LedgerInv => LiabilitiesAreBacked
  BY DEF LedgerInv, FundsInv
<1>2. QED
  BY <1>1, LedgerAlways, PTL

(* The ether of the contract is owed in every reachable state, so no claim  *)
(* of a credit can fail for lack of it.                                     *)
THEOREM EtherAlwaysOwed == Spec => []EtherIsOwed
<1>1. LedgerInv => EtherIsOwed
  BY DEF LedgerInv, GasInv
<1>2. QED
  BY <1>1, LedgerAlways, PTL

(* Escrowed gas belongs to a pending task in every reachable state: it is   *)
(* paid out or credited in the step that settles or cancels the task.       *)
THEOREM EscrowAlwaysPending == Spec => []EscrowIsForPending
<1>1. LedgerInv => EscrowIsForPending
  BY DEF LedgerInv, GasInv
<1>2. QED
  BY <1>1, LedgerAlways, PTL

(* Every reachable state has its type: no balance, liability or fee account *)
(* is driven below zero by a settlement.                                    *)
THEOREM TypeCorrect == Spec => []TypeOK
<1>1. LedgerInv => TypeOK
  BY DEF LedgerInv
<1>2. QED
  BY <1>1, LedgerAlways, PTL

-----------------------------------------------------------------------------
(* Deposits and registrations are the only steps that write a controller,   *)
(* and both ask MayControl first.                                           *)
LEMMA ControllersStep ==
  ASSUME TypeOK, [Next]_vars, NEW account \in Commitments, controllers[account] # None
  PROVE  controllers'[account] = controllers[account]
<1>1. ASSUME NEW sender \in Accounts, AdminNext(sender) PROVE controllers' = controllers
  BY <1>1 DEF AdminNext, ConfigureToken, SetActiveCommittee, BeginCommitteeHandoff,
     SetPaused, CollectFees
<1>2. ASSUME NEW sender \in Accounts, AccountNext(sender)
      PROVE  controllers'[account] = controllers[account]
  <2>1. CASE \E other \in Commitments : RegisterConfidentialAccount(sender, other)
    BY <2>1 DEF RegisterConfidentialAccount, MayControl, TypeOK
  <2>2. CASE \E task \in Tasks : CancelDeposit(sender, task) \/ CancelWithdrawal(sender, task)
    BY <2>2 DEF CancelDeposit, CancelWithdrawal
  <2>3. CASE ClaimGasRefund(sender)
    BY <2>3 DEF ClaimGasRefund
  <2>4. QED
    BY <1>2, <2>1, <2>2, <2>3 DEF AccountNext
<1>3. ASSUME NEW task \in Tasks, NEW gas \in GasValues,
             \/ Deposit(task, gas) \/ RequestWithdrawal(task, gas)
             \/ RequestConfidentialTransfer(task, gas) \/ RequestBalanceOpening(task, gas)
      PROVE  controllers'[account] = controllers[account]
  <2>1. CASE Deposit(task, gas)
    BY <2>1, TaskFacts DEF Deposit, MayControl, TypeOK
  <2>2. CASE ~Deposit(task, gas)
    BY <1>3, <2>2 DEF RequestWithdrawal, RequestConfidentialTransfer, RequestBalanceOpening
  <2>3. QED
    BY <2>1, <2>2
<1>4. ASSUME NEW sender \in Accounts, NEW k \in CommitteeIds, NEW signers \in SUBSET Nodes,
             SettleNext(sender, k, signers)
      PROVE  controllers' = controllers
  BY <1>4 DEF SettleNext, FinalizeDeposit, FinalizeConfidentialTransfer, FinalizeWithdrawal,
     Withdraw, FulfillBalanceOpening
<1>5. ASSUME NEW oldSigners \in SUBSET Nodes, NEW newSigners \in SUBSET Nodes,
             FinalizeCommitteeHandoff(oldSigners, newSigners)
      PROVE  controllers' = controllers
  BY <1>5 DEF FinalizeCommitteeHandoff
<1>6. CASE ChainNext
  BY <1>6 DEF ChainNext, RegisterCommittee, Donate, Tick
<1>7. CASE UNCHANGED vars
  BY <1>7 DEF vars
<1>8. QED
  BY <1>1, <1>2, <1>3, <1>4, <1>5, <1>6, <1>7 DEF Next, RequestNext

(* Control of an account never moves to another address, in any behaviour:  *)
(* no deposit or registration takes an account that another address holds.  *)
THEOREM ControllersNeverMove == Spec => ControllersAreKept
<1> DEFINE Kept == \A account \in Commitments :
             controllers[account] # None => controllers'[account] = controllers[account]
<1>1. LedgerInv /\ [Next]_vars => [Kept]_vars
  BY ControllersStep DEF LedgerInv
<1>2. QED
  BY <1>1, LedgerAlways, PTL DEF Spec, ControllersAreKept
=============================================================================
