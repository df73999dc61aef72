--------------------------- MODULE MCDataWorkflow ---------------------------
(* A small instance of DataWorkflow for TLC. *)
EXTENDS DataWorkflow

CONSTANT a

\* The id that the sum of <<a, a>> gets when the value of a is 1.
Result == <<"e", 2, "SecretSharing">>
WithResult == {a, Result}

\* The second list is out of order: it is stored and cannot be announced.
Lists == {<<1>>, <<2, 1>>}
Inputs == {<<a, a>>, <<Result, a>>}
Everyone == {Nodes}
Digests == <<<<3, 1, 2>>, <<2, 3, 1>>>>   \* one for each seed
=============================================================================
