-------------------------------- MODULE BaseOracle --------------------------------
(***************************************************************************)
(* BaseOracle.sol: the report processor side of the oracle.  A processor   *)
(* stores at most one consensus report, pushed or discarded by its         *)
(* HashConsensus, until it starts processing it.                           *)
(*                                                                         *)
(* oracle[p] is the storage of the processor p:                            *)
(*   version        CONSENSUS_VERSION_POSITION                             *)
(*   lastProcessing LAST_PROCESSING_REF_SLOT_POSITION                      *)
(*   hash, refSlot, deadline   the ConsensusReport; ZeroHash is bytes32(0) *)
(***************************************************************************)
EXTENDS Integers

CONSTANTS Processors,      \* addresses of report processors
          Hashes,          \* report hashes other than bytes32(0)
          ZeroHash,
          Versions,        \* consensus versions
          DataVersion      \* the consensusVersion field of the data a hash commits to

ASSUME HashAssumption == /\ ZeroHash \notin Hashes
                         /\ DataVersion \in [Hashes -> Versions]

VARIABLE oracle

OracleState == [version        : Versions,
                lastProcessing : Nat,
                hash           : Hashes \cup {ZeroHash},
                refSlot        : Nat,
                deadline       : Nat]

\* _initialize
InitialOracle(version, lastProcessing) ==
  [version |-> version, lastProcessing |-> lastProcessing,
   hash |-> ZeroHash, refSlot |-> lastProcessing, deadline |-> 0]

\* The checks of submitConsensusReport.
SubmitAccepted(p, refSlot, deadline, now) ==
  /\ refSlot >= oracle[p].refSlot
  /\ refSlot > oracle[p].lastProcessing
  /\ now <= deadline

SubmitConsensusReport(p, hash, refSlot, deadline, now) ==
  /\ SubmitAccepted(p, refSlot, deadline, now)
  /\ hash # ZeroHash
  /\ oracle' = [oracle EXCEPT ![p].hash = hash,
                              ![p].refSlot = refSlot,
                              ![p].deadline = deadline]

\* The two reverts of discardConsensusReport.
DiscardAccepted(p, refSlot) ==
  /\ refSlot >= oracle[p].refSlot
  /\ refSlot = oracle[p].refSlot => refSlot > oracle[p].lastProcessing

DiscardConsensusReport(p, refSlot) ==
  /\ DiscardAccepted(p, refSlot)
  /\ oracle' = IF refSlot > oracle[p].refSlot
               THEN oracle
               ELSE [oracle EXCEPT ![p].hash = ZeroHash]

\* _checkConsensusData for data whose hash is h and whose refSlot field is
\* the one of the stored report.
DataMatchesReport(p, h) ==
  /\ h = oracle[p].hash
  /\ DataVersion[h] = oracle[p].version

\* Fault: no deadline.
StartProcessing_Late(p, h, now) ==
  /\ oracle[p].hash # ZeroHash
  /\ DataMatchesReport(p, h)
  /\ oracle[p].lastProcessing # oracle[p].refSlot
  /\ oracle' = [oracle EXCEPT ![p].lastProcessing = oracle[p].refSlot]

\* _checkConsensusData followed by _startProcessing
StartProcessing(p, h, now) ==
  /\ oracle[p].hash # ZeroHash
  /\ DataMatchesReport(p, h)
  /\ now <= oracle[p].deadline
  /\ oracle[p].lastProcessing # oracle[p].refSlot
  /\ oracle' = [oracle EXCEPT ![p].lastProcessing = oracle[p].refSlot]

SetConsensusVersion(p, v) ==
  /\ v # oracle[p].version
  /\ oracle' = [oracle EXCEPT ![p].version = v]
===================================================================================
