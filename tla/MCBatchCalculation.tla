---------------------------- MODULE MCBatchCalculation ----------------------------
(***************************************************************************)
(* Instances of BatchCalculation for TLC.                                  *)
(***************************************************************************)
EXTENDS BatchCalculation

ThreePools == {[ether |-> 4, shares |-> 5], [ether |-> 5, shares |-> 4],
               [ether |-> 3, shares |-> 2]}
===================================================================================
