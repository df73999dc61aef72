-------------------------- MODULE MCSecureMachine --------------------------
(* Two committees of one threshold, in the field of 23 elements and in that *)
(* of 16: a value the full comparison is asked about is at most 23 - 2^4.   *)
(* A behaviour is one of the machine, or one question about an algorithm.   *)
EXTENDS SecureMachine
LOCAL INSTANCE TLC

CONSTANTS Seats, Draws
VARIABLE question

Algebra == INSTANCE ShareAlgebra

MCCommittees == << [threshold |-> 1, members |-> <<"a1", "a2", "a3">>],
                   [threshold |-> 1, members |-> <<"b1", "b2", "b3", "b4">>] >>

\* The shares of the key are 8, 9, 10 and 11: the third change fits the first
\* member's, the last fits the key.
MCChanges == {<<1, 0>>, <<0, 1>>, <<1, 8>>, <<1, 7>>}

\* On both sides of zero, below half the scale
MCNoises == {-1, 1}

MCSymmetry == Permutations(Names)

MCInit == Init /\ Algebra!Init

Ask == Init /\ Algebra!Next /\ UNCHANGED vars
Operate == Algebra!Init /\ Next /\ UNCHANGED question

MCNext == Ask \/ Operate
MCSpec == MCInit /\ [][MCNext]_<<vars, question>>

(* What the machine is built from gives the right answers.                  *)
AnswersAreRight == Algebra!AnswersAreRight
=============================================================================
