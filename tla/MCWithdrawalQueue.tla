----------------------------- MODULE MCWithdrawalQueue ----------------------------
(***************************************************************************)
(* Instances of WithdrawalQueue for TLC.                                   *)
(***************************************************************************)
EXTENDS WithdrawalQueue, TLC

\* Nothing depends on when bunker mode began nor, once it is over, on when a
\* pause ended: states that differ in these alone are explored once.
WithoutBunkerMode ==
  <<now, IsPaused, IF IsPaused THEN resumeSince ELSE 0, requestVars, finalVars,
    pool, lastReportTimestamp, lockedEtherAmount, sent>>

Pool(e, s) == [ether |-> e, shares |-> s]

TwoPools == {Pool(1, 1), Pool(4, 5)}

AnyOwner == Permutations(Owners)
===================================================================================
