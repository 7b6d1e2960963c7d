---------------------------- MODULE MCValidatorsExitBus ---------------------------
(***************************************************************************)
(* Instances of ValidatorsExitBus for TLC.                                 *)
(***************************************************************************)
EXTENDS ValidatorsExitBus

OneEpoch == [initialEpoch |-> 1, epochsPerFrame |-> 1, fastLaneLengthSlots |-> 0]

Request(m, o, i) == [module |-> m, nodeOp |-> o, index |-> i]

\* Every list of at most three requests for two validators of two operators, sorted
\* or not; all four validators, which is one too many; and a module that is none.
Lists ==
  UNION {[1..n -> {Request(1, o, i) : o \in 0..1, i \in 0..1}] : n \in 0..3}
    \cup {<<Request(1, 0, 0), Request(1, 0, 1), Request(1, 1, 0), Request(1, 1, 1)>>,
          <<Request(0, 1, 0)>>}

AllVersion1 == [list \in Lists |-> 1]
===================================================================================
