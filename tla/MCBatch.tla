------------------------------- MODULE MCBatch ------------------------------
(* Instances of Batch for TLC. *)
EXTENDS Batch, TLC

CONSTANTS j1, j2, j3, r1, r2

OneRequest == [j \in Jobs |-> r1]

TwoRequests == [j \in Jobs |-> IF j = j3 THEN r2 ELSE r1]

\* Failed writes alone, hanging functions alone, the timer and an abort against
\* functions that hang, and the timer beside every other fault.
Worlds ==
  {{"writeError"}, {"hang"}, {"timeout", "abort", "hang"},
   {"timeout", "writeError", "delete"}, {"timeout", "selfCancel", "swallow"}}
=============================================================================
