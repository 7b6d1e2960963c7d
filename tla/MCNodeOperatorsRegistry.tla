-------------------------- MODULE MCNodeOperatorsRegistry -------------------------
(***************************************************************************)
(* Instances of NodeOperatorsRegistry for TLC.                             *)
(***************************************************************************)
EXTENDS NodeOperatorsRegistry

\* The nonce only counts: no guard and no other variable depends on it, so
\* states that differ in it alone are explored once.
WithoutNonce == <<now, op, summary, activeCount, stuckPenaltyDelay>>

TwoAndOne == <<2, 1>>
TwoKeys == <<2>>
===================================================================================
