---------------------------------- MODULE Frames ----------------------------------
(***************************************************************************)
(* Reporting frames of the oracle committee (HashConsensus.sol, section    *)
(* "Implementation: time").                                                *)
(*                                                                         *)
(* Time is counted in consensus-layer slots: block timestamps are slot     *)
(* start times, so GENESIS_TIME and SECONDS_PER_SLOT only rescale it.      *)
(* A frame configuration c is the record                                   *)
(*   [initialEpoch, epochsPerFrame, fastLaneLengthSlots].                  *)
(***************************************************************************)
EXTENDS Integers

CONSTANT SLOTS_PER_EPOCH

ASSUME SlotsAssumption == SLOTS_PER_EPOCH \in Nat \ {0}

FrameConfig == [initialEpoch        : Nat \ {0},
                epochsPerFrame      : Nat \ {0},
                fastLaneLengthSlots : Nat]

EpochAt(slot) == slot \div SLOTS_PER_EPOCH

\* The computation of a frame reverts before the initial epoch.
FrameStarted(slot, c) == EpochAt(slot) >= c.initialEpoch

FrameIndex(slot, c) == (EpochAt(slot) - c.initialEpoch) \div c.epochsPerFrame

StartEpochOfFrame(i, c) == c.initialEpoch + i * c.epochsPerFrame

FrameAtIndex(i, c) ==
  LET start == StartEpochOfFrame(i, c) * SLOTS_PER_EPOCH
  IN [index        |-> i,
      refSlot      |-> start - 1,
      deadlineSlot |-> start + c.epochsPerFrame * SLOTS_PER_EPOCH - 1]

FrameAt(slot, c) == FrameAtIndex(FrameIndex(slot, c), c)

InitialFrame(c) == FrameAtIndex(0, c)

RefSlotAt(slot, c) == FrameAt(slot, c).refSlot

\* The checks of _setFrameConfig.
ValidConfig(c) == /\ c.epochsPerFrame > 0
                  /\ c.fastLaneLengthSlots <= c.epochsPerFrame * SLOTS_PER_EPOCH

\* Fault: frames of the new length are counted from the current epoch.
Reconfigured_FromNow(slot, c, epochsPerFrame, fastLane) ==
  [initialEpoch |-> EpochAt(slot), epochsPerFrame |-> epochsPerFrame,
   fastLaneLengthSlots |-> fastLane]

\* Fault: they are counted from the old initial epoch.
Reconfigured_FromInitial(slot, c, epochsPerFrame, fastLane) ==
  [c EXCEPT !.epochsPerFrame = epochsPerFrame, !.fastLaneLengthSlots = fastLane]

\* setFrameConfig: frames of the new length are counted from the start of
\* the frame that is current under the old configuration.
Reconfigured(slot, c, epochsPerFrame, fastLane) ==
  [initialEpoch        |-> StartEpochOfFrame(FrameIndex(slot, c), c),
   epochsPerFrame      |-> epochsPerFrame,
   fastLaneLengthSlots |-> fastLane]

-------------------------------------------------------------------------------
\* The fast lane: `quorum` consecutive member indices (mod the number of
\* members), a window that moves by one with every frame.

FastLaneSubset(frameIndex, quorum, total) ==
  IF quorum >= total
  THEN [left |-> 0, pastRight |-> total]
  ELSE [left |-> frameIndex % total, pastRight |-> (frameIndex % total) + quorum]

PointInClosedIntervalModN(x, a, b, n) == (x + n - a) % n <= (b - a) % n

IsFastLaneIndex(i, frameIndex, quorum, total) ==
  LET lane == FastLaneSubset(frameIndex, quorum, total)
  IN /\ lane.pastRight # 0
     /\ PointInClosedIntervalModN(i, lane.left, lane.pastRight - 1, total)
===================================================================================
