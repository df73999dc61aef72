---------------------------- MODULE BalanceLedger ----------------------------
(***************************************************************************)
(* The off-chain ledger of confidential balances of one asset, kept by     *)
(* runtime/src/postgres.rs in a database and by runtime/src/lib.rs in      *)
(* memory.  Both make the same checks in the same order and apply an       *)
(* operation in one transaction, so an operation is a condition under      *)
(* which it is accepted and the ledger it leaves; a refused operation      *)
(* changes nothing.                                                        *)
(*                                                                         *)
(* A state root commits to the root before it and to the balance record    *)
(* written; the commitment is taken to be injective, so a root is the      *)
(* sequence of the records written since the empty ledger.  The plaintext  *)
(* backend stands for any backend: a ciphertext is the amount it encrypts. *)
(***************************************************************************)
EXTENDS Integers, Sequences

CONSTANTS
  Holders,      \* private accounts
  MaxAmount     \* u128::MAX

EmptyRoot == <<>>

\* version 0: no record of the account
NoRecord == [amount |-> 0, version |-> 0]

EmptyLedger ==
  [root |-> EmptyRoot,
   balances |-> [a \in Holders |-> NoRecord],
   applied |-> {}]   \* processed_deposits, spent_nullifiers, processed_transfers

\* A query, or an opening, of an account without a record fails.
HasRecord(l, a) == l.balances[a].version > 0

\* derive_transition and the upsert of the record
Write(l, a, amount) ==
  LET record == [amount |-> amount, version |-> l.balances[a].version + 1] IN
  [l EXCEPT !.root = Append(@, [account |-> a, amount |-> amount, version |-> record.version]),
            !.balances[a] = record]

\* Slip: the root the caller saw is not compared.
AdmissibleAnyRoot(l, id, amount, expected) == amount \in 1..MaxAmount /\ id \notin l.applied

\* What every operation checks: the amount, the root the caller saw, the marker.
Admissible(l, id, amount, expected) ==
  /\ amount \in 1..MaxAmount
  /\ l.root = expected
  /\ id \notin l.applied

Mark(l, id) == [l EXCEPT !.applied = @ \cup {id}]

\* Slip: the sender keeps the amount.
TransferMinting(l, id, a, b, amount) ==
  Mark(Write(Write(l, a, l.balances[a].amount), b, l.balances[b].amount + amount), id)

\* credit_deposit
MayCredit(l, id, a, amount, expected) ==
  /\ Admissible(l, id, amount, expected)
  /\ l.balances[a].amount + amount <= MaxAmount
Credit(l, id, a, amount) == Mark(Write(l, a, l.balances[a].amount + amount), id)

\* debit_withdrawal
MayDebit(l, id, a, amount, expected) ==
  /\ Admissible(l, id, amount, expected)
  /\ HasRecord(l, a)
  /\ l.balances[a].amount >= amount
Debit(l, id, a, amount) == Mark(Write(l, a, l.balances[a].amount - amount), id)

\* transfer: the sender's record is written first
MayTransfer(l, id, a, b, amount, expected) ==
  /\ a # b
  /\ Admissible(l, id, amount, expected)
  /\ HasRecord(l, a)
  /\ l.balances[a].amount >= amount
  /\ l.balances[b].amount + amount <= MaxAmount
Transfer(l, id, a, b, amount) ==
  Mark(Write(Write(l, a, l.balances[a].amount - amount), b, l.balances[b].amount + amount), id)
=============================================================================
