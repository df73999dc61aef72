------------------------- MODULE StateLineageProofs -------------------------
(***************************************************************************)
(* Proofs about StateLineage, for every set of contracts and executions.   *)
(* NoLostUpdate is not inductive: a commit keeps it only because the head  *)
(* it starts from is not the base of an earlier write, and that because a  *)
(* root is only ever written by the execution it names.                    *)
(***************************************************************************)
EXTENDS StateLineage, TLAPS

\* A base is the initial root or a write that had been committed by then.
BasesAreWritten ==
  \A e \in ExecutionIds :
    base[e] \in InitialRoots \cup Writers(Contract[e]) \cup {None}

\* Requests are made on published contracts.
RequestsHaveHead ==
  \A e \in ExecutionIds : base[e] # None => head[Contract[e]] # None

\* Nothing is committed before it is requested, or to another root.
ResultsAreRequested ==
  \A e \in ExecutionIds :
    result[e] # None => base[e] # None /\ result[e] \in {base[e], e}

LineageInv ==
  /\ TypeOK
  /\ BasesAreWritten
  /\ RequestsHaveHead
  /\ ResultsAreRequested
  /\ HeadIsLastWrite
  /\ NoLostUpdate

(* The initial states satisfy the inductive invariant (Init).               *)
LEMMA LineageInit ==
  ASSUME LineageAssumption
  PROVE  Init => LineageInv
BY DEF LineageAssumption, Init, LineageInv, TypeOK, BasesAreWritten, RequestsHaveHead, ResultsAreRequested,
       HeadIsLastWrite, NoLostUpdate, Writers, Roots

(* Publishing a contract gives it a head no execution has used yet.         *)
LEMMA PublishStep ==
  ASSUME LineageAssumption, NEW c \in ContractIds, NEW root \in InitialRoots,
         LineageInv, Publish(c, root)
  PROVE  LineageInv'
<1> USE DEF LineageAssumption
<1>1. TypeOK'
  BY DEF LineageInv, TypeOK, Publish, Roots
<1>2. \A d \in ContractIds : Writers(d)' = Writers(d)
  BY DEF Publish, Writers
<1>3. BasesAreWritten' /\ ResultsAreRequested' /\ NoLostUpdate'
  BY <1>2 DEF LineageInv, TypeOK, Publish, BasesAreWritten, ResultsAreRequested,
              NoLostUpdate
<1>4. RequestsHaveHead'
  BY DEF LineageInv, TypeOK, Publish, RequestsHaveHead
<1>5. HeadIsLastWrite'
  <2>1. \A e \in Writers(c) : FALSE
    BY DEF LineageInv, Publish, Writers, RequestsHaveHead, ResultsAreRequested
  <2>2. QED
    BY <1>2, <2>1 DEF LineageInv, TypeOK, Publish, HeadIsLastWrite
<1>6. QED
  BY <1>1, <1>3, <1>4, <1>5 DEF LineageInv

(* A request keeps a base that is the current head, written or initial.     *)
LEMMA RequestStep ==
  ASSUME LineageAssumption, NEW e \in ExecutionIds, LineageInv, Request(e)
  PROVE  LineageInv'
<1> USE DEF LineageAssumption
<1>1. Contract[e] \in ContractIds
  OBVIOUS
<1>2. TypeOK'
  BY <1>1 DEF LineageInv, TypeOK, Request, Roots
<1>3. \A d \in ContractIds : Writers(d)' = Writers(d)
  BY DEF Request, Writers
<1>4. result[e] = None
  BY DEF LineageInv, Request, ResultsAreRequested
<1>5. \A c \in ContractIds : e \notin Writers(c)
  BY <1>4 DEF Writers
<1>6. BasesAreWritten'
  BY <1>1, <1>3 DEF LineageInv, TypeOK, Request, BasesAreWritten, HeadIsLastWrite
<1>7. RequestsHaveHead'
  BY <1>1 DEF LineageInv, TypeOK, Request, RequestsHaveHead
<1>8. ResultsAreRequested'
  BY <1>4 DEF LineageInv, TypeOK, Request, ResultsAreRequested
<1>9. \A c \in ContractIds : \A f \in Writers(c) : base'[f] = base[f]
  BY <1>5 DEF LineageInv, TypeOK, Request, Writers
<1>10. HeadIsLastWrite' /\ NoLostUpdate'
  BY <1>3, <1>9 DEF LineageInv, Request, HeadIsLastWrite, NoLostUpdate
<1>11. QED
  BY <1>2, <1>6, <1>7, <1>8, <1>10 DEF LineageInv

(* A commit is accepted on the current head only; a write then moves the    *)
(* head to a root on which nothing has been based.                          *)
LEMMA CommitStep ==
  ASSUME LineageAssumption, NEW e \in ExecutionIds, NEW root \in Roots, LineageInv, Commit(e, root)
  PROVE  LineageInv'
<1> USE DEF LineageAssumption
<1> DEFINE c == Contract[e]
<1>1. c \in ContractIds
  OBVIOUS
<1>2. TypeOK'
  BY <1>1 DEF LineageInv, TypeOK, Commit, Roots
<1>3. \A d \in ContractIds : e \notin Writers(d)
  BY DEF Commit, Writers
<1>4. \A d \in ContractIds : d # c => Writers(d)' = Writers(d)
  BY DEF LineageInv, TypeOK, Commit, Writers
<1>5. base[e] # e
  BY <1>1, <1>3 DEF LineageInv, BasesAreWritten, Commit
<1>6. CASE root = base[e]
  <2>1. Writers(c)' = Writers(c)
    BY <1>5, <1>6 DEF LineageInv, TypeOK, Commit, Writers
  <2>2. head' = head
    BY <1>1, <1>6 DEF LineageInv, TypeOK, Commit
  <2>3. BasesAreWritten' /\ RequestsHaveHead' /\ HeadIsLastWrite' /\ NoLostUpdate'
    BY <1>4, <2>1, <2>2 DEF LineageInv, Commit, BasesAreWritten, RequestsHaveHead,
                            HeadIsLastWrite, NoLostUpdate
  <2>4. ResultsAreRequested'
    BY <1>6 DEF LineageInv, TypeOK, Commit, ResultsAreRequested
  <2>5. QED
    BY <1>2, <2>3, <2>4 DEF LineageInv
<1>7. CASE root = e /\ root # base[e]
  <2>1. Writers(c)' = Writers(c) \cup {e}
    BY <1>7 DEF LineageInv, TypeOK, Commit, Writers
  <2>2. head' = [head EXCEPT ![c] = e] /\ base' = base
    BY <1>7 DEF Commit
  <2>3. BasesAreWritten'
    BY <1>4, <2>1, <2>2 DEF LineageInv, BasesAreWritten
  <2>4. RequestsHaveHead'
    BY <2>2 DEF LineageInv, TypeOK, RequestsHaveHead
  <2>5. ResultsAreRequested'
    BY <1>7 DEF LineageInv, TypeOK, Commit, ResultsAreRequested
  <2>6. \A f \in ExecutionIds : base[f] # e
    BY <1>3 DEF LineageInv, BasesAreWritten
  <2>7. HeadIsLastWrite'
    BY <1>1, <1>4, <2>1, <2>2, <2>6 DEF LineageInv, TypeOK, HeadIsLastWrite, Writers
  <2>8. \A f \in Writers(c) : base[f] # base[e]
    BY <1>1 DEF LineageInv, Commit, HeadIsLastWrite
  <2>9. NoLostUpdate'
    BY <1>4, <2>1, <2>2, <2>8 DEF LineageInv, NoLostUpdate
  <2>10. QED
    BY <1>2, <2>3, <2>4, <2>5, <2>7, <2>9 DEF LineageInv
<1>8. QED
  BY <1>6, <1>7 DEF Commit

(* The invariant holds in every state: by induction over the three actions. *)
THEOREM LineageCorrect ==
  ASSUME LineageAssumption
  PROVE  Spec => []LineageInv
<1>1. LineageInv /\ [Next]_vars => LineageInv'
  <2> SUFFICES ASSUME LineageInv, [Next]_vars PROVE LineageInv'
    OBVIOUS
  <2>1. ASSUME NEW c \in ContractIds, NEW root \in InitialRoots, Publish(c, root)
        PROVE  LineageInv'
    BY <2>1, PublishStep
  <2>2. ASSUME NEW e \in ExecutionIds, Request(e)
        PROVE  LineageInv'
    BY <2>2, RequestStep
  <2>3. ASSUME NEW e \in ExecutionIds, NEW root \in Roots, Commit(e, root)
        PROVE  LineageInv'
    BY <2>3, CommitStep
  <2>4. CASE UNCHANGED vars
    BY <2>4 DEF vars, LineageInv, TypeOK, BasesAreWritten, RequestsHaveHead,
                ResultsAreRequested, HeadIsLastWrite, NoLostUpdate, Writers
  <2>5. QED
    BY <2>1, <2>2, <2>3, <2>4 DEF Next
<1>2. QED
  BY LineageInit, <1>1, PTL DEF Spec

(* No two writes of a contract start from the same root, and none starts    *)
(* from the head, in any behaviour (the compare-and-set of submitResult).   *)
THEOREM NoLostUpdateHolds ==
  ASSUME LineageAssumption
  PROVE  Spec => [](NoLostUpdate /\ HeadIsLastWrite)
<1>1. LineageInv => NoLostUpdate /\ HeadIsLastWrite
  BY DEF LineageInv
<1>2. QED
  BY LineageCorrect, <1>1, PTL
=============================================================================
