---------------------------- MODULE StateLineage ----------------------------
(***************************************************************************)
(* What the control plane promises about a confidential contract's state.  *)
(*                                                                         *)
(* A contract has one head root.  A request reads the head and keeps it as *)
(* its base; a commit is accepted only while the base is still the head,   *)
(* and then leaves the head alone (a call that writes nothing) or moves it *)
(* to a root of its own.  The writes of a contract are therefore a chain:  *)
(* no two of them start from the same root.  ControlPlane implements this  *)
(* module.                                                                 *)
(***************************************************************************)
CONSTANTS
  ContractIds,
  ExecutionIds,
  Contract,      \* the contract each execution is a call of
  InitialRoots,  \* the roots a publisher may start from
  None

\* What a module that is implemented over these constants has to show.
LineageAssumption ==
  /\ Contract \in [ExecutionIds -> ContractIds]
  /\ InitialRoots \cap ExecutionIds = {}
  /\ None \notin InitialRoots \cup ExecutionIds

VARIABLES
  head,    \* contract -> its state root, None before publication
  base,    \* execution -> the root it was requested on, None before
  result   \* execution -> the root it committed, None before

vars == <<head, base, result>>

\* The root that execution e writes is e: the hash of its own commitment.
Roots == InitialRoots \cup ExecutionIds

TypeOK ==
  /\ head \in [ContractIds -> Roots \cup {None}]
  /\ base \in [ExecutionIds -> Roots \cup {None}]
  /\ result \in [ExecutionIds -> Roots \cup {None}]

Init ==
  /\ head = [c \in ContractIds |-> None]
  /\ base = [e \in ExecutionIds |-> None]
  /\ result = [e \in ExecutionIds |-> None]

Publish(c, root) ==
  /\ head[c] = None
  /\ head' = [head EXCEPT ![c] = root]
  /\ UNCHANGED <<base, result>>

Request(e) ==
  /\ base[e] = None
  /\ head[Contract[e]] # None
  /\ base' = [base EXCEPT ![e] = head[Contract[e]]]
  /\ UNCHANGED <<head, result>>

Commit(e, root) ==
  /\ base[e] # None
  /\ result[e] = None
  /\ head[Contract[e]] = base[e]
  /\ root \in {base[e], e}
  /\ head' = [head EXCEPT ![Contract[e]] = root]
  /\ result' = [result EXCEPT ![e] = root]
  /\ UNCHANGED base

Next ==
  \/ \E c \in ContractIds, root \in InitialRoots : Publish(c, root)
  \/ \E e \in ExecutionIds : Request(e)
  \/ \E e \in ExecutionIds, root \in Roots : Commit(e, root)

Spec == Init /\ [][Next]_vars

-----------------------------------------------------------------------------
\* The executions of c that have written.
Writers(c) == {e \in ExecutionIds : Contract[e] = c /\ result[e] = e}

(* No two writes of a contract start from the same root: the second of two  *)
(* concurrent executions cannot overwrite the state the first has written   *)
(* (the compare-and-set of submitResult).                                   *)
NoLostUpdate ==
  \A c \in ContractIds : \A e, f \in Writers(c) : base[e] = base[f] => e = f

(* The head of a contract is the root it was published with or the root of  *)
(* a write that was accepted for this contract, and no write starts from it. *)
HeadIsLastWrite ==
  \A c \in ContractIds :
    /\ head[c] \in InitialRoots \cup Writers(c) \cup {None}
    /\ \A e \in Writers(c) : base[e] # head[c]
=============================================================================
