------------------------------- MODULE HashConsensus ------------------------------
(***************************************************************************)
(* HashConsensus.sol, together with the report processors it drives        *)
(* (BaseOracle): a committee whose members vote for report hashes, frame   *)
(* by frame, and a processor that holds the hash a quorum agrees on.       *)
(*                                                                         *)
(* One action per external function.  A call that reverts changes nothing, *)
(* so its condition is a guard; roles are granted to whoever calls.        *)
(*                                                                         *)
(* State                         Storage of the contract                   *)
(*   now                           block.timestamp, in slots               *)
(*   frameConfig                   _frameConfig                            *)
(*   members                       _memberAddresses, _memberIndices1b      *)
(*   memberState                   _memberStates, by address               *)
(*   quorum                        _quorum                                 *)
(*   variants                      _reportVariants, _reportVariantsLength  *)
(*   reporting                     _reportingState                         *)
(*   processor                     _reportProcessor                        *)
(* Variant indices count from 1 here, from 0 in the code.                  *)
(***************************************************************************)
EXTENDS Frames, BaseOracle, Sequences, FiniteSets

CONSTANTS Addresses,           \* addresses that may become members
          Quorums,             \* quorum values the admins choose from
          UNREACHABLE_QUORUM,
          InitialEpochs,       \* arguments of updateInitialEpoch
          FAR_FUTURE_EPOCH,    \* initial epoch set by the constructor
          FrameLengths,        \* values of epochsPerFrame
          FastLanes,           \* values of fastLaneLengthSlots
          MaxSlot,             \* bound: the clock stops here
          MaxSwitches          \* bound: how often the report processor is replaced

ASSUME ParameterAssumption ==
  /\ Quorums \subseteq Nat
  /\ UNREACHABLE_QUORUM \in Nat
  /\ InitialEpochs \subseteq Nat \ {0}
  /\ FAR_FUTURE_EPOCH \in Nat \ {0}
  /\ FrameLengths \subseteq Nat
  /\ FastLanes \subseteq Nat
  /\ MaxSlot \in Nat
  /\ MaxSwitches \in Nat

VARIABLES now, frameConfig, members, memberState, quorum, variants,
          reporting, processor,
          switches             \* replacements of the processor so far, for the bound only

committeeVars == <<members, memberState, quorum>>
votingVars    == <<variants, reporting>>
processorVars == <<processor, switches>>
vars == <<now, frameConfig, committeeVars, votingVars, processorVars, oracle>>

-------------------------------------------------------------------------------
\* Helpers

MemberState    == [lastReportRefSlot : Nat, lastReportVariantIndex : Nat \ {0}]
ReportVariant  == [hash : Hashes, support : Nat]
ReportingState == [lastReportRefSlot : Nat, lastConsensusRefSlot : Nat,
                   lastConsensusVariantIndex : Nat \ {0}]

NoReport == [lastReportRefSlot |-> 0, lastReportVariantIndex |-> 1]

MemberSet == {members[i] : i \in 1..Len(members)}

MemberIndex(a) == CHOOSE i \in 1..Len(members) : members[i] = a

Started == FrameStarted(now, frameConfig)

CurrentFrame == FrameAt(now, frameConfig)

GetLastProcessingRefSlot == oracle[processor].lastProcessing

InFastLaneOf(frameIndex, a) ==
  IsFastLaneIndex(MemberIndex(a) - 1, frameIndex, quorum, Len(members))

IsFastLaneMember(a) == InFastLaneOf(CurrentFrame.index, a)

\* i is the index of hash h among the variants vs, or the one after the last.
IsVariantIndex(vs, h, i) ==
  /\ i \in 1..Len(vs) + 1
  /\ i <= Len(vs) => vs[i].hash = h
  /\ \A j \in 1..i - 1 : vs[j].hash # h

\* The variants a report for refSlot is counted against: those of an earlier
\* slot are dropped by the first report for a new one.
VariantsFor_Fault(refSlot) == variants      \* fault: earlier slots' variants stay
VariantsFor(refSlot) == IF reporting.lastReportRefSlot = refSlot THEN variants ELSE <<>>

\* The variants of _getConsensusReport that have a quorum q.
WithQuorum(vs, q) == {i \in 1..Len(vs) : vs[i].support >= q}

\* The array without its element i: the last element takes its place.
SwapRemove_Fault(s, i) == [s EXCEPT ![i] = s[Len(s)]]      \* fault: no pop
SwapRemove(s, i) == [j \in 1..Len(s) - 1 |-> IF j = i THEN s[Len(s)] ELSE s[j]]

-------------------------------------------------------------------------------
\* Consensus reached, lost and checked.  rs is the reporting state and vs the
\* variants the caller has stored so far; f is the current frame.

ConsensusReached(rs, f, h, i) ==
  IF rs.lastConsensusRefSlot = f.refSlot /\ rs.lastConsensusVariantIndex = i
  THEN reporting' = rs /\ UNCHANGED oracle
  ELSE /\ reporting' = [rs EXCEPT !.lastConsensusRefSlot = f.refSlot,
                                  !.lastConsensusVariantIndex = i]
       /\ SubmitConsensusReport(processor, h, f.refSlot, f.deadlineSlot, now)

ConsensusNotReached(rs, f) ==
  IF rs.lastConsensusRefSlot # f.refSlot
  THEN reporting' = rs /\ UNCHANGED oracle
  ELSE /\ reporting' = [rs EXCEPT !.lastConsensusRefSlot = 0]
       /\ DiscardConsensusReport(processor, f.refSlot)

\* Fault: the check is also made once the report is processing.
CheckConsensus_Fault(q, vs) ==
  LET f   == CurrentFrame
      won == IF reporting.lastReportRefSlot = f.refSlot THEN WithQuorum(vs, q) ELSE {}
  IN IF won = {}
     THEN ConsensusNotReached(reporting, f)
     ELSE \E i \in won : ConsensusReached(reporting, f, vs[i].hash, i)

CheckConsensus(q, vs) ==
  LET f   == CurrentFrame
      won == IF reporting.lastReportRefSlot = f.refSlot THEN WithQuorum(vs, q) ELSE {}
  IN IF now > f.deadlineSlot \/ GetLastProcessingRefSlot >= f.refSlot
     THEN UNCHANGED <<reporting, oracle>>
     ELSE IF won = {}
     THEN ConsensusNotReached(reporting, f)
     ELSE \E i \in won : /\ \A j \in won : i <= j
                         /\ ConsensusReached(reporting, f, vs[i].hash, i)

SetQuorumAndCheckConsensus(q, total, vs) ==
  /\ q > total \div 2
  /\ quorum' = q
  /\ IF Started THEN CheckConsensus(q, vs) ELSE UNCHANGED <<reporting, oracle>>

-------------------------------------------------------------------------------
\* Initial state: the constructors of HashConsensus and of the processors

Init ==
  /\ now = 0
  /\ \E n \in FrameLengths, f \in FastLanes :
       frameConfig = [initialEpoch |-> FAR_FUTURE_EPOCH, epochsPerFrame |-> n,
                      fastLaneLengthSlots |-> f]
  /\ ValidConfig(frameConfig)
  /\ members = <<>>
  /\ memberState = [a \in Addresses |-> NoReport]
  /\ quorum = 0
  /\ variants = <<>>
  /\ reporting = [lastReportRefSlot |-> 0, lastConsensusRefSlot |-> 0,
                  lastConsensusVariantIndex |-> 1]
  /\ processor \in Processors
  /\ switches = 0
  /\ \E v \in Versions : oracle = [p \in Processors |-> InitialOracle(v, 0)]

-------------------------------------------------------------------------------
\* Time and frames

\* Bounded by MaxSlot.
Tick ==
  /\ now < MaxSlot
  /\ now' = now + 1
  /\ UNCHANGED <<frameConfig, committeeVars, votingVars, processorVars, oracle>>

UpdateInitialEpoch(epoch) ==
  /\ ~Started
  /\ frameConfig' = [frameConfig EXCEPT !.initialEpoch = epoch]
  /\ InitialFrame(frameConfig').refSlot >= GetLastProcessingRefSlot
  /\ UNCHANGED <<now, committeeVars, votingVars, processorVars, oracle>>

SetFrameConfig(epochsPerFrame, fastLane) ==
  /\ Started
  /\ frameConfig' = Reconfigured(now, frameConfig, epochsPerFrame, fastLane)
  /\ ValidConfig(frameConfig')
  /\ UNCHANGED <<now, committeeVars, votingVars, processorVars, oracle>>

SetFastLaneLengthSlots(fastLane) ==
  /\ frameConfig' = [frameConfig EXCEPT !.fastLaneLengthSlots = fastLane]
  /\ ValidConfig(frameConfig')
  /\ UNCHANGED <<now, committeeVars, votingVars, processorVars, oracle>>

-------------------------------------------------------------------------------
\* Committee

AddMember(a, q) ==
  /\ a \notin MemberSet
  /\ members' = Append(members, a)
  /\ memberState' = [memberState EXCEPT ![a] = NoReport]
  /\ SetQuorumAndCheckConsensus(q, Len(members) + 1, variants)
  /\ UNCHANGED <<now, frameConfig, variants, processorVars>>

\* Fault: a removed member's vote is never taken back.
VoteIsOpen_Never(a) == FALSE

\* The removed member's vote is still to be taken back: it was cast in the
\* current frame and the processor has not started on this frame.
VoteIsOpen(a) ==
  /\ memberState[a].lastReportRefSlot > 0
  /\ memberState[a].lastReportRefSlot = CurrentFrame.refSlot
  /\ GetLastProcessingRefSlot < CurrentFrame.refSlot

RemoveMember(a, q) ==
  LET i  == memberState[a].lastReportVariantIndex
      vs == IF VoteIsOpen(a) THEN [variants EXCEPT ![i].support = @ - 1] ELSE variants
  IN /\ a \in MemberSet
     /\ memberState[a].lastReportRefSlot > 0 => Started
     /\ VoteIsOpen(a) => variants[i].support > 0
     /\ members' = SwapRemove(members, MemberIndex(a))
     /\ memberState' = [memberState EXCEPT ![a] = NoReport]
     /\ variants' = vs
     /\ SetQuorumAndCheckConsensus(q, Len(members) - 1, vs)
     /\ UNCHANGED <<now, frameConfig, processorVars>>

SetQuorum(q) ==
  /\ SetQuorumAndCheckConsensus(q, Len(members), variants)
  /\ UNCHANGED <<now, frameConfig, members, memberState, variants, processorVars>>

DisableConsensus == SetQuorum(UNREACHABLE_QUORUM)

\* Bounded by MaxSwitches.
SetReportProcessor(p) ==
  LET f == CurrentFrame
  IN /\ p # processor
     /\ Started
     /\ switches < MaxSwitches
     /\ switches' = switches + 1
     /\ processor' = p
     /\ IF /\ oracle[processor].lastProcessing < f.refSlot
           /\ oracle[p].lastProcessing < f.refSlot
           /\ reporting.lastConsensusRefSlot = f.refSlot
        THEN SubmitConsensusReport(p, variants[reporting.lastConsensusVariantIndex].hash,
                                   f.refSlot, f.deadlineSlot, now)
        ELSE UNCHANGED oracle
     /\ UNCHANGED <<now, frameConfig, committeeVars, votingVars>>

-------------------------------------------------------------------------------
\* Votes

\* The checks submitReport makes before it touches the votes, for a report on
\* the current reference slot with the processor's consensus version.  Once
\* the processor has started on the slot the call reverts or does nothing.
VoteAccepted(a, h) ==
  LET f == CurrentFrame
  IN /\ a \in MemberSet
     /\ Started
     /\ f.refSlot # 0
     /\ now <= f.deadlineSlot
     /\ now <= f.refSlot + frameConfig.fastLaneLengthSlots => IsFastLaneMember(a)
     /\ f.refSlot > GetLastProcessingRefSlot
     /\ ~ /\ memberState[a].lastReportRefSlot = f.refSlot
          /\ IsVariantIndex(VariantsFor(f.refSlot), h, memberState[a].lastReportVariantIndex)

SubmitReport(a, h) ==
  LET f       == CurrentFrame
      old     == VariantsFor(f.refSlot)
      prev    == memberState[a].lastReportVariantIndex
      again   == memberState[a].lastReportRefSlot = f.refSlot
      lowered == IF again THEN [old EXCEPT ![prev].support = @ - 1] ELSE old
      lost    == again /\ lowered[prev].support = quorum - 1
      rs      == [reporting EXCEPT !.lastReportRefSlot = f.refSlot]
  IN /\ VoteAccepted(a, h)
     /\ again => prev <= Len(old) /\ old[prev].support > 0
     /\ \E i \in 1..Len(old) + 1 :
          /\ IsVariantIndex(old, h, i)
          /\ variants' = IF i <= Len(old)
                         THEN [lowered EXCEPT ![i].support = @ + 1]
                         ELSE Append(lowered, [hash |-> h, support |-> 1])
          /\ memberState' = [memberState EXCEPT ![a] =
                 [lastReportRefSlot |-> f.refSlot, lastReportVariantIndex |-> i]]
          /\ IF variants'[i].support >= quorum THEN ConsensusReached(rs, f, h, i)
             ELSE IF lost THEN ConsensusNotReached(rs, f)
             ELSE reporting' = rs /\ UNCHANGED oracle
     /\ UNCHANGED <<now, frameConfig, members, quorum, processorVars>>

-------------------------------------------------------------------------------
\* Processors (BaseOracle)

ProcessReport(p, h) ==
  /\ StartProcessing(p, h, now)
  /\ UNCHANGED <<now, frameConfig, committeeVars, votingVars, processorVars>>

ChangeConsensusVersion(p, v) ==
  /\ SetConsensusVersion(p, v)
  /\ UNCHANGED <<now, frameConfig, committeeVars, votingVars, processorVars>>

-------------------------------------------------------------------------------
Next ==
  \/ Tick
  \/ \E e \in InitialEpochs : UpdateInitialEpoch(e)
  \/ \E n \in FrameLengths, f \in FastLanes : SetFrameConfig(n, f)
  \/ \E f \in FastLanes : SetFastLaneLengthSlots(f)
  \/ \E a \in Addresses, q \in Quorums : AddMember(a, q)
  \/ \E a \in Addresses, q \in Quorums : RemoveMember(a, q)
  \/ \E q \in Quorums : SetQuorum(q)
  \/ DisableConsensus
  \/ \E p \in Processors : SetReportProcessor(p)
  \/ \E a \in Addresses, h \in Hashes : SubmitReport(a, h)
  \/ \E p \in Processors, h \in Hashes : ProcessReport(p, h)
  \/ \E p \in Processors, v \in Versions : ChangeConsensusVersion(p, v)

Spec == Init /\ [][Next]_vars
-------------------------------------------------------------------------------
\* Properties

\* Type invariant; the members are distinct (storage of HashConsensus.sol:195-232).
TypeOK ==
  /\ now \in Nat
  /\ frameConfig \in FrameConfig
  /\ members \in Seq(Addresses)
  /\ \A i, j \in 1..Len(members) : members[i] = members[j] => i = j
  /\ memberState \in [Addresses -> MemberState]
  /\ quorum \in Nat
  /\ variants \in Seq(ReportVariant)
  /\ reporting \in ReportingState
  /\ processor \in Processors
  /\ switches \in Nat
  /\ oracle \in [Processors -> OracleState]

VotingOpen == Started /\ GetLastProcessingRefSlot < CurrentFrame.refSlot

VotesCast == reporting.lastReportRefSlot = CurrentFrame.refSlot

Voters(i) == {a \in MemberSet : /\ memberState[a].lastReportRefSlot = CurrentFrame.refSlot
                                /\ memberState[a].lastReportVariantIndex = i}

\* Until the processor starts on the slot, the support counter of a variant
\* (adjusted by votes, re-votes and removals) is the number of members of the
\* current set whose last report in this frame is that variant.
SupportIsCount ==
  VotingOpen /\ VotesCast =>
    \A i \in 1..Len(variants) : variants[i].support = Cardinality(Voters(i))

AgreedHashes ==
  IF VotesCast
  THEN {variants[i].hash : i \in {j \in 1..Len(variants) : Cardinality(Voters(j)) >= quorum}}
  ELSE {}

HeldHashes ==
  IF oracle[processor].refSlot = CurrentFrame.refSlot
  THEN {oracle[processor].hash} \ {ZeroHash}
  ELSE {}

\* Until processing starts, the processor holds a report for the current slot
\* exactly when a quorum of the current members votes for one hash, and it
\* holds that hash: no consensus is missed, left behind or overtaken.
HeldIsAgreed == VotingOpen => HeldHashes = AgreedHashes

\* A report the processor can start on has the quorum of current members.
ConsensusHasQuorum == VotingOpen => HeldHashes \subseteq AgreedHashes

\* The fast lane of this frame, and with this committee that of each of the frames to come
\* until the window has gone around, has min(quorum, members) members.
FastLaneIsQuorum ==
  Started => \A f \in CurrentFrame.index..CurrentFrame.index + Len(members) :
               Cardinality({a \in MemberSet : InFastLaneOf(f, a)})
                 = IF quorum < Len(members) THEN quorum ELSE Len(members)

\* The votes, as the members last cast them, are what is counted, what the
\* processor holds and what the fast lane is sized for.
VotesCounted == SupportIsCount /\ HeldIsAgreed /\ FastLaneIsQuorum

\* A processor never holds or processes a report for a slot after the current
\* reference slot, and never one before the last it processed.
OraclesNotAhead ==
  \A p \in Processors :
    /\ oracle[p].lastProcessing <= oracle[p].refSlot
    /\ Started => oracle[p].refSlot <= CurrentFrame.refSlot

\* What a vote or a change of the committee still relies on once it is accepted, call by
\* call: nobody has a vote while there is no frame to look it up in; a vote cast in this
\* frame refers to a variant in the table that counts it, so that taking it back neither
\* fails the assertion (HashConsensus.sol:875) nor makes a counter underflow; and until the
\* processor starts on the slot it takes a report, and a discard, for it.
CommitteeChecksHold ==
  LET f == CurrentFrame
  IN /\ \A a \in MemberSet : LET vote == memberState[a]
                            IN IF ~Started THEN vote.lastReportRefSlot = 0
                               ELSE vote.lastReportRefSlot = f.refSlot /\ f.refSlot # 0 =>
                                      /\ VotesCast /\ quorum > 0
                                      /\ vote.lastReportVariantIndex \in 1..Len(variants)
                                      /\ variants[vote.lastReportVariantIndex].support > 0
     /\ VotingOpen => /\ SubmitAccepted(processor, f.refSlot, f.deadlineSlot, now)
                      /\ DiscardAccepted(processor, f.refSlot)

\* A vote, a removal or a quorum change that HashConsensus itself accepts is
\* never reverted by the processor's own checks, by an underflow of a support
\* counter or by an assertion.
CommitteeNeverBlocked ==
  /\ CommitteeChecksHold
  /\ \A a \in Addresses, h \in Hashes : VoteAccepted(a, h) => ENABLED SubmitReport(a, h)
  /\ \A q \in Quorums :
       /\ q > Len(members) \div 2 => ENABLED SetQuorum(q)
       /\ q > (Len(members) - 1) \div 2 =>
            \A a \in MemberSet : ENABLED RemoveMember(a, q)
       /\ q > (Len(members) + 1) \div 2 =>
            \A a \in Addresses \ MemberSet : ENABLED AddMember(a, q)

\* The reference slot never goes back; when it changes, by the passing of time
\* or by setFrameConfig, it grows by at least the smaller of the old and the
\* new frame length (comment at HashConsensus.sol:344-345).
RefSlotGrowsByFrames ==
  [][Started =>
       LET grown == CurrentFrame'.refSlot - CurrentFrame.refSlot
       IN grown # 0 =>
            /\ Started'
            /\ \/ grown >= frameConfig.epochsPerFrame * SLOTS_PER_EPOCH
               \/ grown >= frameConfig'.epochsPerFrame * SLOTS_PER_EPOCH]_vars

\* The report a processor has started on stays what it was until a report for
\* a later slot replaces it, and a processor only starts on later slots.
FrozenOnceProcessing ==
  [][\A p \in Processors :
       /\ oracle'[p].lastProcessing >= oracle[p].lastProcessing
       /\ oracle[p].lastProcessing = oracle[p].refSlot
            => \/ oracle'[p].refSlot > oracle[p].refSlot
               \/ /\ oracle'[p].hash = oracle[p].hash
                  /\ oracle'[p].deadline = oracle[p].deadline]_vars

\* Time, reconfigurations and replaced processors move slots in one direction
\* only: the committee's frames and the reports that were started on.
SlotsOnlyAdvance == RefSlotGrowsByFrames /\ FrozenOnceProcessing

-------------------------------------------------------------------------------
\* Refinement: while neither the frame configuration nor the processor is
\* replaced, the committee and its processor implement CommitteeVoting.

VoteOf(a) ==
  IF /\ a \in MemberSet
     /\ Started
     /\ VotesCast
     /\ memberState[a].lastReportRefSlot # 0
     /\ memberState[a].lastReportRefSlot = CurrentFrame.refSlot
  THEN variants[memberState[a].lastReportVariantIndex].hash
  ELSE ZeroHash

Voting == INSTANCE CommitteeVoting
            WITH refSlot   <- IF Started THEN CurrentFrame.refSlot ELSE 0,
                 committee <- MemberSet,
                 vote      <- [a \in Addresses |-> VoteOf(a)],
                 processed <- GetLastProcessingRefSlot,
                 NoVote    <- ZeroHash

\* Every step of the contracts is a step of CommitteeVoting or changes nothing
\* it knows of; above all, what is processed is what a quorum of the members
\* votes for at that very moment, in the current frame, once.
ImplementsVoting == Voting!Spec
===================================================================================
