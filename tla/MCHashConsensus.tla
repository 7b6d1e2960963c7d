------------------------------ MODULE MCHashConsensus -----------------------------
(***************************************************************************)
(* Instances of HashConsensus for TLC.                                     *)
(***************************************************************************)
EXTENDS HashConsensus, TLC

CONSTANTS h1, h2

\* Every hash commits to data of consensus version 1.
AllVersion1 == [h \in Hashes |-> 1]

\* h1 commits to version 1, any other hash to version 2.
FirstIsVersion1 == [h \in Hashes |-> IF h = h1 THEN 1 ELSE 2]

MemberSymmetry == Permutations(Addresses)

AllSymmetry ==
  Permutations(Addresses) \cup Permutations(Processors) \cup Permutations(Hashes)

MemberAndHashSymmetry == Permutations(Addresses) \cup Permutations(Hashes)
===================================================================================
