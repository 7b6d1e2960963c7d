---------------------------- MODULE MCAccountingOracle ----------------------------
(***************************************************************************)
(* Instances of AccountingOracle for TLC.                                  *)
(***************************************************************************)
EXTENDS AccountingOracle, Sequences

Frame(epochs) == [initialEpoch |-> 1, epochsPerFrame |-> epochs, fastLaneLengthSlots |-> 0]

OneEpoch == Frame(1)

\* Hashes are reference slots: an honest report is determined by its slot.
Slots == 0..MaxSlot

AllVersion1 == [s \in Slots |-> 1]

ThreeOperators == <<1, 1, 2>>
OneEach        == <<1, 1, 1>>
===================================================================================
