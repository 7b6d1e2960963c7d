----------------------------- MODULE HashConsensus_proofs -------------------------
(***************************************************************************)
(* Theorems about HashConsensus and the processors it drives, for every    *)
(* committee, set of hashes, clock bound and frame configuration.          *)
(***************************************************************************)
EXTENDS HashConsensus, Foundations

OraclesTyped == oracle \in [Processors -> OracleState]

ConfigOK == now \in Nat /\ frameConfig \in FrameConfig

-------------------------------------------------------------------------------
\* Type correctness

\* The current frame has slots once the initial epoch has come.
LEMMA CurrentFrameTyped ==
  ASSUME ConfigOK, Started
  PROVE  /\ CurrentFrame.refSlot \in Nat
         /\ CurrentFrame.deadlineSlot \in Nat
         /\ CurrentFrame.refSlot = RefSlotAt(now, frameConfig)
<1>1. FrameStarted(now, frameConfig)
  BY DEF Started
<1>2. CurrentFrame.refSlot = RefSlotAt(now, frameConfig) /\ RefSlotAt(now, frameConfig) \in Nat
  BY <1>1, RefSlotFromStart DEF CurrentFrame, RefSlotAt, ConfigOK
<1>3. CurrentFrame.deadlineSlot \in Nat
  <2> DEFINE st == StartEpochOfFrame(FrameIndex(now, frameConfig), frameConfig)
             n  == frameConfig.epochsPerFrame
  <2>1. st \in Nat \ {0} /\ n \in Nat \ {0}
    BY <1>1, FrameFacts DEF ConfigOK, FrameConfig
  <2>2. CurrentFrame.deadlineSlot = st * SLOTS_PER_EPOCH + n * SLOTS_PER_EPOCH - 1
    BY DEF CurrentFrame, FrameAt, FrameAtIndex
  <2> HIDE DEF st, n
  <2>3. st * SLOTS_PER_EPOCH \in Nat /\ n * SLOTS_PER_EPOCH \in Nat \ {0}
    BY <2>1, SlotsAssumption
  <2> QED
    BY <2>2, <2>3
<1> QED
  BY <1>2, <1>3

\* A submitted report keeps the processors typed.
LEMMA SubmitTyped ==
  ASSUME OraclesTyped, NEW p \in Processors, NEW h \in Hashes, NEW r \in Nat, NEW d \in Nat,
         SubmitConsensusReport(p, h, r, d, now)
  PROVE  OraclesTyped'
BY DEF OraclesTyped, SubmitConsensusReport, OracleState

\* A discarded report keeps the processors typed.
LEMMA DiscardTyped ==
  ASSUME OraclesTyped, NEW p \in Processors, NEW r \in Nat, DiscardConsensusReport(p, r)
  PROVE  OraclesTyped'
<1>1. CASE oracle' = oracle
  BY <1>1 DEF OraclesTyped
<1>2. CASE oracle' = [oracle EXCEPT ![p].hash = ZeroHash]
  BY <1>2 DEF OraclesTyped, OracleState
<1> QED
  BY <1>1, <1>2 DEF DiscardConsensusReport

\* Reaching a consensus keeps the reporting state and the processors typed.
LEMMA ReachedTyped ==
  ASSUME ConfigOK, OraclesTyped, processor \in Processors, Started,
         NEW rs \in ReportingState, NEW h \in Hashes, NEW i \in Nat \ {0},
         ConsensusReached(rs, CurrentFrame, h, i)
  PROVE  reporting' \in ReportingState /\ OraclesTyped'
<1>1. CurrentFrame.refSlot \in Nat /\ CurrentFrame.deadlineSlot \in Nat
  BY CurrentFrameTyped
<1>2. CASE reporting' = rs /\ UNCHANGED oracle
  BY <1>2 DEF OraclesTyped
<1>3. CASE /\ reporting' = [rs EXCEPT !.lastConsensusRefSlot = CurrentFrame.refSlot,
                                      !.lastConsensusVariantIndex = i]
           /\ SubmitConsensusReport(processor, h, CurrentFrame.refSlot,
                                    CurrentFrame.deadlineSlot, now)
  <2>1. reporting' \in ReportingState
    BY <1>1, <1>3 DEF ReportingState
  <2> QED
    BY <1>1, <1>3, <2>1, SubmitTyped
<1> QED
  BY <1>2, <1>3 DEF ConsensusReached

\* Losing it does too.
LEMMA NotReachedTyped ==
  ASSUME ConfigOK, OraclesTyped, processor \in Processors, Started,
         NEW rs \in ReportingState, ConsensusNotReached(rs, CurrentFrame)
  PROVE  reporting' \in ReportingState /\ OraclesTyped'
<1>1. CurrentFrame.refSlot \in Nat
  BY CurrentFrameTyped
<1>2. CASE reporting' = rs /\ UNCHANGED oracle
  BY <1>2 DEF OraclesTyped
<1>3. CASE /\ reporting' = [rs EXCEPT !.lastConsensusRefSlot = 0]
           /\ DiscardConsensusReport(processor, CurrentFrame.refSlot)
  BY <1>1, <1>3, DiscardTyped DEF ReportingState
<1> QED
  BY <1>2, <1>3 DEF ConsensusNotReached

\* A change of the quorum keeps everything typed.
LEMMA QuorumChangeTyped ==
  ASSUME ConfigOK, OraclesTyped, processor \in Processors, reporting \in ReportingState,
         NEW q \in Nat, NEW n, NEW vs \in Seq(ReportVariant),
         SetQuorumAndCheckConsensus(q, n, vs)
  PROVE  quorum' \in Nat /\ reporting' \in ReportingState /\ OraclesTyped'
<1>1. quorum' \in Nat
  BY DEF SetQuorumAndCheckConsensus
<1>2. CASE UNCHANGED <<reporting, oracle>>
  BY <1>1, <1>2 DEF OraclesTyped
<1>3. CASE Started /\ CheckConsensus(q, vs)
  <2> DEFINE won == IF reporting.lastReportRefSlot = CurrentFrame.refSlot
                    THEN WithQuorum(vs, q) ELSE {}
  <2>1. CASE ConsensusNotReached(reporting, CurrentFrame)
    BY <1>1, <1>3, <2>1, NotReachedTyped
  <2>2. CASE \E i \in won : /\ \A j \in won : i <= j
                            /\ ConsensusReached(reporting, CurrentFrame, vs[i].hash, i)
    <3>1. PICK i \in won : ConsensusReached(reporting, CurrentFrame, vs[i].hash, i)
      BY <2>2
    <3>2. i \in 1..Len(vs)
      BY DEF WithQuorum
    <3>3. vs[i] \in ReportVariant
      BY <3>2, ElementOfSeq
    <3>4. i \in Nat \ {0} /\ vs[i].hash \in Hashes
      BY <3>2, <3>3, LenProperties DEF ReportVariant
    <3> QED
      BY <1>1, <1>3, <3>1, <3>4, ReachedTyped
  <2>3. CASE UNCHANGED <<reporting, oracle>>
    BY <1>1, <2>3 DEF OraclesTyped
  <2>4. CASE now > CurrentFrame.deadlineSlot \/ GetLastProcessingRefSlot >= CurrentFrame.refSlot
    BY <1>3, <2>3, <2>4 DEF CheckConsensus
  <2>5. CASE /\ ~(\/ now > CurrentFrame.deadlineSlot
                \/ GetLastProcessingRefSlot >= CurrentFrame.refSlot)
             /\ won = {}
    BY <1>3, <2>1, <2>5 DEF CheckConsensus
  <2>6. CASE /\ ~(\/ now > CurrentFrame.deadlineSlot
                \/ GetLastProcessingRefSlot >= CurrentFrame.refSlot)
             /\ won # {}
    BY <1>3, <2>2, <2>6, Zenon DEF CheckConsensus
  <2> QED
    BY <2>4, <2>5, <2>6
<1> QED
  BY <1>2, <1>3 DEF SetQuorumAndCheckConsensus

\* The array after a swap-removal is a sequence of the same elements.
LEMMA SwapRemoveSeq ==
  ASSUME NEW S, NEW s \in Seq(S), NEW i \in 1..Len(s)
  PROVE  /\ SwapRemove(s, i) \in Seq(S)
         /\ Len(SwapRemove(s, i)) = Len(s) - 1
         /\ \A j \in 1..Len(s) - 1 :
              SwapRemove(s, i)[j] = IF j = i THEN s[Len(s)] ELSE s[j]
<1>1. Len(s) \in Nat /\ Len(s) - 1 \in Nat /\ \A j \in 1..Len(s) : s[j] \in S
  BY ElementOfSeq, LenProperties
<1>2. SwapRemove(s, i) \in [1..Len(s) - 1 -> S]
  BY <1>1 DEF SwapRemove
<1>3. SwapRemove(s, i) \in Seq(S)
  BY <1>1, <1>2, SeqDef
<1>4. Len(SwapRemove(s, i)) = Len(s) - 1
  BY <1>1, <1>2, <1>3, LenProperties
<1> QED
  BY <1>3, <1>4 DEF SwapRemove

\* A member has an index among the members.
LEMMA MemberIndexInRange ==
  ASSUME NEW a \in MemberSet
  PROVE  MemberIndex(a) \in 1..Len(members) /\ members[MemberIndex(a)] = a
<1>1. \E i \in 1..Len(members) : members[i] = a
  BY DEF MemberSet
<1> QED
  BY <1>1 DEF MemberIndex

\* The initial state is typed.
LEMMA InitTyped == Init => TypeOK
<1> SUFFICES ASSUME Init PROVE TypeOK
  OBVIOUS
<1>1. now \in Nat /\ quorum \in Nat /\ switches \in Nat /\ processor \in Processors
  BY DEF Init
<1>2. frameConfig \in FrameConfig
  BY ParameterAssumption DEF Init, FrameConfig, ValidConfig
<1>3. members \in Seq(Addresses) /\ variants \in Seq(ReportVariant)
  BY EmptySeq DEF Init
<1>4. \A i, j \in 1..Len(members) : members[i] = members[j] => i = j
  BY EmptySeq DEF Init
<1>5. memberState \in [Addresses -> MemberState]
  BY DEF Init, MemberState, NoReport
<1>6. reporting \in ReportingState
  BY DEF Init, ReportingState
<1>7. oracle \in [Processors -> OracleState]
  BY DEF Init, InitialOracle, OracleState
<1> QED
  BY <1>1, <1>2, <1>3, <1>4, <1>5, <1>6, <1>7 DEF TypeOK

\* The facts of TypeOK that the lemmas above assume.
LEMMA TypeOKFacts ==
  ASSUME TypeOK
  PROVE  /\ ConfigOK /\ OraclesTyped
         /\ processor \in Processors
         /\ reporting \in ReportingState
BY DEF TypeOK, ConfigOK, OraclesTyped

\* Every vote counted against the slot's variants is one of them.
LEMMA VariantsForTyped ==
  ASSUME TypeOK, NEW r
  PROVE  VariantsFor(r) \in Seq(ReportVariant)
BY EmptySeq DEF TypeOK, VariantsFor

\* A sequence of variants in which the support of one is changed.
LEMMA ResupportTyped ==
  ASSUME NEW vs \in Seq(ReportVariant), NEW i \in 1..Len(vs), NEW n \in Nat
  PROVE  /\ [vs EXCEPT ![i].support = n] \in Seq(ReportVariant)
         /\ Len([vs EXCEPT ![i].support = n]) = Len(vs)
<1>1. vs[i] \in ReportVariant
  BY ElementOfSeq
<1>2. [vs[i] EXCEPT !.support = n] \in ReportVariant
  BY <1>1 DEF ReportVariant
<1> QED
  BY <1>2, ExceptSeq

\* The strengthening of TypeOK.  No report, held or counted, is for a slot after
\* the current one, and the last consensus, when it is on the slot being voted
\* on, is on one of the variants: setReportProcessor reads the hash of that
\* variant without looking at the number of variants.
SlotsInv ==
  /\ reporting.lastConsensusRefSlot <= reporting.lastReportRefSlot
  /\ /\ reporting.lastConsensusRefSlot # 0
     /\ reporting.lastConsensusRefSlot = reporting.lastReportRefSlot
     => reporting.lastConsensusVariantIndex \in 1..Len(variants)
  /\ Started  => reporting.lastReportRefSlot <= CurrentFrame.refSlot
  /\ ~Started => /\ reporting.lastReportRefSlot = 0
                 /\ \A p \in Processors : oracle[p].refSlot = 0
  /\ OraclesNotAhead

\* The parts of SubmitReport that concern the votes, typed.
LEMMA VoteTyped ==
  ASSUME TypeOK, NEW a \in Addresses, NEW h \in Hashes, SubmitReport(a, h)
  PROVE  LET old == VariantsFor(CurrentFrame.refSlot)
         IN /\ Started /\ CurrentFrame.refSlot \in Nat
            /\ CurrentFrame.refSlot > GetLastProcessingRefSlot
            /\ UNCHANGED <<now, frameConfig, members, quorum, processor, switches>>
            /\ \E i \in 1..Len(old) + 1 :
                 /\ variants' \in Seq(ReportVariant)
                 /\ i \in 1..Len(variants')
                 /\ Len(old) <= Len(variants')
                 /\ memberState' = [memberState EXCEPT ![a] =
                       [lastReportRefSlot |-> CurrentFrame.refSlot,
                        lastReportVariantIndex |-> i]]
                 /\ LET rs == [reporting EXCEPT !.lastReportRefSlot = CurrentFrame.refSlot]
                    IN \/ ConsensusReached(rs, CurrentFrame, h, i)
                       \/ ConsensusNotReached(rs, CurrentFrame)
                       \/ reporting' = rs /\ UNCHANGED oracle
<1> DEFINE f       == CurrentFrame
           old     == VariantsFor(f.refSlot)
           prev    == memberState[a].lastReportVariantIndex
           again   == memberState[a].lastReportRefSlot = f.refSlot
           lowered == IF again THEN [old EXCEPT ![prev].support = @ - 1] ELSE old
           rs      == [reporting EXCEPT !.lastReportRefSlot = f.refSlot]
<1>1. Started /\ f.refSlot \in Nat /\ f.refSlot > GetLastProcessingRefSlot
  BY TypeOKFacts, CurrentFrameTyped DEF SubmitReport, VoteAccepted
<1>2. old \in Seq(ReportVariant) /\ Len(old) \in Nat
  BY VariantsForTyped, LenProperties
<1>3. lowered \in Seq(ReportVariant) /\ Len(lowered) = Len(old)
  <2>1. CASE ~again
    BY <1>2, <2>1
  <2>2. CASE again
    <3>1. prev \in Nat \ {0}
      BY DEF TypeOK, MemberState
    <3>2. prev <= Len(old) /\ old[prev].support > 0
      BY <2>2 DEF SubmitReport
    <3>3. prev \in 1..Len(old)
      BY <1>2, <3>1, <3>2
    <3>4. old[prev] \in ReportVariant
      BY <1>2, <3>3, ElementOfSeq
    <3>5. old[prev].support - 1 \in Nat
      BY <3>2, <3>4 DEF ReportVariant
    <3>6. lowered = [old EXCEPT ![prev].support = old[prev].support - 1]
      BY <2>2
    <3> HIDE DEF lowered, old, prev
    <3> QED
      BY <1>2, <3>3, <3>5, <3>6, ResupportTyped
  <2> QED
    BY <2>1, <2>2
<1>4. PICK i \in 1..Len(old) + 1 :
        /\ variants' = IF i <= Len(old)
                       THEN [lowered EXCEPT ![i].support = @ + 1]
                       ELSE Append(lowered, [hash |-> h, support |-> 1])
        /\ memberState' = [memberState EXCEPT ![a] =
               [lastReportRefSlot |-> f.refSlot, lastReportVariantIndex |-> i]]
        /\ \/ ConsensusReached(rs, f, h, i)
           \/ ConsensusNotReached(rs, f)
           \/ reporting' = rs /\ UNCHANGED oracle
  BY DEF SubmitReport
<1>5. /\ variants' \in Seq(ReportVariant)
      /\ i \in 1..Len(variants')
      /\ Len(old) <= Len(variants')
  <2> HIDE DEF lowered, old
  <2>1. CASE i <= Len(old)
    <3>1. i \in 1..Len(lowered)
      BY <1>2, <1>3, <2>1
    <3>2. lowered[i] \in ReportVariant
      BY <1>3, <3>1, ElementOfSeq
    <3>3. lowered[i].support + 1 \in Nat
      BY <3>2 DEF ReportVariant
    <3>4. variants' = [lowered EXCEPT ![i].support = lowered[i].support + 1]
      BY <1>4, <2>1
    <3> QED
      BY <1>2, <1>3, <3>1, <3>3, <3>4, ResupportTyped
  <2>2. CASE ~(i <= Len(old))
    <3>1. [hash |-> h, support |-> 1] \in ReportVariant
      BY DEF ReportVariant
    <3>2. variants' = Append(lowered, [hash |-> h, support |-> 1])
      BY <1>4, <2>2
    <3> QED
      BY <1>2, <1>3, <3>1, <3>2, AppendProperties
  <2> QED
    BY <2>1, <2>2
<1> QED
  BY <1>1, <1>4, <1>5 DEF SubmitReport, processorVars

\* Every action keeps the state typed: one step per action.
LEMMA NextTyped == TypeOK /\ SlotsInv /\ [Next]_vars => TypeOK'
<1> SUFFICES ASSUME TypeOK, SlotsInv, [Next]_vars PROVE TypeOK'
  OBVIOUS
<1> USE TypeOKFacts
<1>1. CASE Tick
  BY <1>1 DEF Tick, TypeOK, committeeVars, votingVars, processorVars
<1>2. CASE \E e \in InitialEpochs : UpdateInitialEpoch(e)
  BY <1>2, ParameterAssumption
     DEF UpdateInitialEpoch, TypeOK, FrameConfig, committeeVars, votingVars, processorVars
<1>3. CASE \E n \in FrameLengths, f \in FastLanes : SetFrameConfig(n, f)
  <2>1. PICK n \in FrameLengths, f \in FastLanes : SetFrameConfig(n, f)
    BY <1>3
  <2>2. n \in Nat \ {0} /\ f \in Nat
    BY <2>1, ParameterAssumption DEF SetFrameConfig, ValidConfig, Reconfigured
  <2>3. frameConfig' \in FrameConfig
    BY <2>1, <2>2, SetFrameConfigKeepsOrGrows DEF SetFrameConfig, Started, ConfigOK
  <2> QED
    BY <2>1, <2>3 DEF SetFrameConfig, TypeOK, committeeVars, votingVars, processorVars
<1>4. CASE \E f \in FastLanes : SetFastLaneLengthSlots(f)
  BY <1>4, ParameterAssumption
     DEF SetFastLaneLengthSlots, TypeOK, FrameConfig, committeeVars, votingVars, processorVars
<1>5. CASE \E a \in Addresses, q \in Quorums : AddMember(a, q)
  <2>1. PICK a \in Addresses, q \in Quorums : AddMember(a, q)
    BY <1>5
  <2>2. q \in Nat /\ variants \in Seq(ReportVariant)
    BY ParameterAssumption DEF TypeOK
  <2>3. quorum' \in Nat /\ reporting' \in ReportingState /\ OraclesTyped'
    BY <2>1, <2>2, QuorumChangeTyped DEF AddMember
  <2>4. members' \in Seq(Addresses) /\ Len(members') = Len(members) + 1
    BY <2>1, AppendProperties DEF AddMember, TypeOK
  <2>5. \A i, j \in 1..Len(members') : members'[i] = members'[j] => i = j
    <3>1. /\ \A i \in 1..Len(members) : members'[i] = members[i]
          /\ members'[Len(members) + 1] = a
      BY <2>1, AppendProperties DEF AddMember, TypeOK
    <3>2. \A i \in 1..Len(members) : members[i] # a
      BY <2>1 DEF AddMember, MemberSet
    <3>3. Len(members) \in Nat
      BY LenProperties DEF TypeOK
    <3> QED
      BY <2>4, <3>1, <3>2, <3>3 DEF TypeOK
  <2>6. memberState' \in [Addresses -> MemberState]
    BY <2>1 DEF AddMember, TypeOK, MemberState, NoReport
  <2>7. UNCHANGED <<now, frameConfig, variants, processor, switches>>
    BY <2>1 DEF AddMember, processorVars
  <2> QED
    BY <2>3, <2>4, <2>5, <2>6, <2>7 DEF TypeOK, OraclesTyped
<1>6. CASE \E a \in Addresses, q \in Quorums : RemoveMember(a, q)
  <2>1. PICK a \in Addresses, q \in Quorums : RemoveMember(a, q)
    BY <1>6
  <2>2. q \in Nat
    BY ParameterAssumption
  <2>3. a \in MemberSet /\ MemberIndex(a) \in 1..Len(members)
    BY <2>1, MemberIndexInRange DEF RemoveMember
  <2>4. variants' \in Seq(ReportVariant)
    <3> DEFINE i == memberState[a].lastReportVariantIndex
    <3>1. CASE VoteIsOpen(a) /\ i \in 1..Len(variants)
      <4>1. variants[i] \in ReportVariant
        BY <3>1, ElementOfSeq DEF TypeOK
      <4>2. variants[i].support > 0
        BY <2>1, <3>1 DEF RemoveMember
      <4>3. variants[i].support - 1 \in Nat
        BY <4>1, <4>2 DEF ReportVariant
      <4>4. variants' = [variants EXCEPT ![i].support = variants[i].support - 1]
        BY <2>1, <3>1 DEF RemoveMember
      <4> QED
        BY <3>1, <4>3, <4>4, ResupportTyped DEF TypeOK
    <3>2. CASE VoteIsOpen(a) /\ i \notin 1..Len(variants)
      <4>1. variants' = [variants EXCEPT ![i].support = @ - 1]
        BY <2>1, <3>2 DEF RemoveMember
      <4>2. DOMAIN variants = 1..Len(variants) /\ variants = [j \in DOMAIN variants |-> variants[j]]
        BY LenProperties, SeqDef DEF TypeOK
      <4>3. variants' = variants
        BY <3>2, <4>1, <4>2
      <4> QED
        BY <4>3 DEF TypeOK
    <3>3. CASE ~VoteIsOpen(a)
      BY <2>1, <3>3 DEF RemoveMember, TypeOK
    <3> QED
      BY <3>1, <3>2, <3>3
  <2>5. quorum' \in Nat /\ reporting' \in ReportingState /\ OraclesTyped'
    <3>1. SetQuorumAndCheckConsensus(q, Len(members) - 1, variants')
      BY <2>1 DEF RemoveMember
    <3> QED
      BY <2>2, <2>4, <3>1, QuorumChangeTyped
  <2>6. /\ members' \in Seq(Addresses)
        /\ \A i, j \in 1..Len(members') : members'[i] = members'[j] => i = j
    <3>1. members' = SwapRemove(members, MemberIndex(a))
      BY <2>1 DEF RemoveMember
    <3>2. /\ members' \in Seq(Addresses)
          /\ Len(members') = Len(members) - 1
          /\ \A j \in 1..Len(members) - 1 :
                members'[j] = IF j = MemberIndex(a) THEN members[Len(members)] ELSE members[j]
      BY <2>3, <3>1, SwapRemoveSeq DEF TypeOK
    <3>3. Len(members) \in Nat
      BY LenProperties DEF TypeOK
    <3> QED
      BY <2>3, <3>2, <3>3 DEF TypeOK
  <2>7. memberState' \in [Addresses -> MemberState]
    BY <2>1 DEF RemoveMember, TypeOK, MemberState, NoReport
  <2>8. UNCHANGED <<now, frameConfig, processor, switches>>
    BY <2>1 DEF RemoveMember, processorVars
  <2> QED
    BY <2>4, <2>5, <2>6, <2>7, <2>8 DEF TypeOK, OraclesTyped
<1>7. CASE (\E q \in Quorums : SetQuorum(q)) \/ DisableConsensus
  <2>1. PICK q \in Nat : SetQuorum(q)
    BY <1>7, ParameterAssumption DEF DisableConsensus
  <2>2. quorum' \in Nat /\ reporting' \in ReportingState /\ OraclesTyped'
    BY <2>1, QuorumChangeTyped DEF SetQuorum, TypeOK
  <2> QED
    BY <2>1, <2>2 DEF SetQuorum, TypeOK, OraclesTyped, processorVars
<1>8. CASE \E p \in Processors : SetReportProcessor(p)
  <2>1. PICK p \in Processors : SetReportProcessor(p)
    BY <1>8
  <2> DEFINE f == CurrentFrame
             k == reporting.lastConsensusVariantIndex
  <2>2. Started /\ f.refSlot \in Nat /\ f.deadlineSlot \in Nat
    BY <2>1, CurrentFrameTyped DEF SetReportProcessor
  <2>3. OraclesTyped'
    <3> HIDE DEF k
    <3>1. CASE UNCHANGED oracle
      BY <3>1 DEF OraclesTyped
    <3>2. CASE /\ oracle[processor].lastProcessing < f.refSlot
               /\ reporting.lastConsensusRefSlot = f.refSlot
               /\ SubmitConsensusReport(p, variants[k].hash, f.refSlot, f.deadlineSlot, now)
      <4>1. oracle[processor].lastProcessing \in Nat
        BY DEF TypeOK, OracleState
      <4>2. reporting.lastConsensusRefSlot # 0
        BY <2>2, <3>2, <4>1
      <4>3. reporting.lastReportRefSlot \in Nat /\ reporting.lastConsensusRefSlot \in Nat
        BY DEF ReportingState
      <4>4. reporting.lastConsensusRefSlot = reporting.lastReportRefSlot
        BY <2>2, <3>2, <4>3 DEF SlotsInv
      <4>5. k \in 1..Len(variants)
        BY <4>2, <4>4 DEF SlotsInv, k
      <4>6. variants[k] \in ReportVariant
        BY <4>5, ElementOfSeq DEF TypeOK
      <4>7. variants[k].hash \in Hashes
        BY <4>6 DEF ReportVariant
      <4> QED
        BY <2>2, <3>2, <4>7, SubmitTyped
    <3> QED
      BY <2>1, <3>1, <3>2, Zenon DEF SetReportProcessor, k
  <2>4. /\ processor' = p /\ switches' = switches + 1
        /\ UNCHANGED <<now, frameConfig, members, memberState, quorum, variants, reporting>>
    BY <2>1 DEF SetReportProcessor, committeeVars, votingVars
  <2> QED
    BY <2>3, <2>4 DEF TypeOK, OraclesTyped
<1>9. CASE \E a \in Addresses, h \in Hashes : SubmitReport(a, h)
  <2>1. PICK a \in Addresses, h \in Hashes : SubmitReport(a, h)
    BY <1>9
  <2> DEFINE rs == [reporting EXCEPT !.lastReportRefSlot = CurrentFrame.refSlot]
  <2>2. PICK i \in 1..Len(VariantsFor(CurrentFrame.refSlot)) + 1 :
          /\ variants' \in Seq(ReportVariant)
          /\ memberState' = [memberState EXCEPT ![a] =
                [lastReportRefSlot |-> CurrentFrame.refSlot, lastReportVariantIndex |-> i]]
          /\ \/ ConsensusReached(rs, CurrentFrame, h, i)
             \/ ConsensusNotReached(rs, CurrentFrame)
             \/ reporting' = rs /\ UNCHANGED oracle
    BY <2>1, VoteTyped
  <2>3. /\ Started /\ CurrentFrame.refSlot \in Nat
        /\ UNCHANGED <<now, frameConfig, members, quorum, processor, switches>>
    BY <2>1, VoteTyped
  <2>4. rs \in ReportingState /\ i \in Nat \ {0}
    <3>1. Len(VariantsFor(CurrentFrame.refSlot)) \in Nat
      BY VariantsForTyped, LenProperties
    <3> QED
      BY <2>3, <3>1 DEF ReportingState
  <2>5. memberState' \in [Addresses -> MemberState]
    BY <2>2, <2>3, <2>4 DEF TypeOK, MemberState
  <2>6. reporting' \in ReportingState /\ OraclesTyped'
    <3> HIDE DEF rs
    <3>1. CASE reporting' = rs /\ UNCHANGED oracle
      BY <2>4, <3>1 DEF OraclesTyped
    <3> QED
      BY <2>2, <2>3, <2>4, <3>1, ReachedTyped, NotReachedTyped
  <2> QED
    BY <2>2, <2>3, <2>5, <2>6 DEF TypeOK, OraclesTyped
<1>10. CASE \E p \in Processors, h \in Hashes : ProcessReport(p, h)
  BY ZenonT(60), <1>10 DEF ProcessReport, StartProcessing, TypeOK, OracleState, committeeVars,
               votingVars, processorVars
<1>11. CASE \E p \in Processors, v \in Versions : ChangeConsensusVersion(p, v)
  BY ZenonT(60), <1>11 DEF ChangeConsensusVersion, SetConsensusVersion, TypeOK, OracleState,
               committeeVars, votingVars, processorVars
<1>12. CASE UNCHANGED vars
  BY <1>12 DEF vars, TypeOK, committeeVars, votingVars, processorVars
<1> QED
  BY <1>1, <1>2, <1>3, <1>4, <1>5, <1>6, <1>7, <1>8, <1>9, <1>10, <1>11, <1>12 DEF Next

-------------------------------------------------------------------------------
\* The reference slot across a step

\* Started and CurrentFrame depend on the clock and the configuration only.
LEMMA FrameUnchanged ==
  ASSUME UNCHANGED <<now, frameConfig>>
  PROVE  Started' = Started /\ CurrentFrame' = CurrentFrame
BY DEF Started, CurrentFrame

\* No step takes the reference slot back, and one that moves it moves it by at
\* least the old or the new frame length.
LEMMA FrameStep ==
  ASSUME TypeOK, [Next]_vars, Started
  PROVE  /\ Started'
         /\ \/ CurrentFrame'.refSlot = CurrentFrame.refSlot
            \/ CurrentFrame'.refSlot >= CurrentFrame.refSlot
                                        + frameConfig.epochsPerFrame * SLOTS_PER_EPOCH
            \/ CurrentFrame'.refSlot >= CurrentFrame.refSlot
                                        + frameConfig'.epochsPerFrame * SLOTS_PER_EPOCH
<1> USE DEF TypeOK
<1>1. CASE UNCHANGED <<now, frameConfig>>
  BY <1>1, FrameUnchanged
<1>2. CASE Tick
  <2>1. now' \in Nat /\ now <= now' /\ frameConfig' = frameConfig
    BY <1>2 DEF Tick
  <2>2. /\ FrameStarted(now', frameConfig)
        /\ \/ RefSlotAt(now', frameConfig) = RefSlotAt(now, frameConfig)
           \/ RefSlotAt(now', frameConfig) >= RefSlotAt(now, frameConfig)
                                              + frameConfig.epochsPerFrame * SLOTS_PER_EPOCH
    BY <2>1, RefSlotGrowsWithTime DEF Started
  <2> QED
    BY <2>1, <2>2 DEF Started, CurrentFrame, RefSlotAt
<1>3. CASE \E n \in FrameLengths, f \in FastLanes : SetFrameConfig(n, f)
  <2>1. PICK n \in FrameLengths, f \in FastLanes : SetFrameConfig(n, f)
    BY <1>3
  <2>2. n \in Nat \ {0} /\ f \in Nat
    BY <2>1, ParameterAssumption DEF SetFrameConfig, ValidConfig, Reconfigured
  <2>3. now' = now /\ frameConfig' = Reconfigured(now, frameConfig, n, f)
    BY <2>1 DEF SetFrameConfig
  <2>4. frameConfig'.epochsPerFrame = n
    BY <2>3 DEF Reconfigured
  <2>5. /\ FrameStarted(now, frameConfig')
        /\ \/ RefSlotAt(now, frameConfig') = RefSlotAt(now, frameConfig)
           \/ RefSlotAt(now, frameConfig') >= RefSlotAt(now, frameConfig) + n * SLOTS_PER_EPOCH
    BY <2>2, <2>3, SetFrameConfigKeepsOrGrows DEF Started
  <2> QED
    BY <2>3, <2>4, <2>5 DEF Started, CurrentFrame, RefSlotAt
<1>4. CASE \E f \in FastLanes : SetFastLaneLengthSlots(f)
  <2>1. PICK f \in FastLanes : SetFastLaneLengthSlots(f)
    BY <1>4
  <2>2. /\ now' = now
        /\ frameConfig'.initialEpoch = frameConfig.initialEpoch
        /\ frameConfig'.epochsPerFrame = frameConfig.epochsPerFrame
    BY <2>1 DEF SetFastLaneLengthSlots, FrameConfig
  <2> QED
    BY <2>2 DEF Started, FrameStarted, CurrentFrame, FrameAt, FrameAtIndex, FrameIndex,
                StartEpochOfFrame
<1>5. CASE \E e \in InitialEpochs : UpdateInitialEpoch(e)
  BY <1>5 DEF UpdateInitialEpoch
<1> QED
  BY <1>1, <1>2, <1>3, <1>4, <1>5
     DEF Next, vars, AddMember, RemoveMember, SetQuorum, DisableConsensus,
         SetReportProcessor, SubmitReport, ProcessReport, ChangeConsensusVersion

-------------------------------------------------------------------------------
\* Slots of reports

\* What a call made for slot r may do to the processors.
ReportPushed(r) ==
  \A p \in Processors :
    /\ oracle'[p].lastProcessing = oracle[p].lastProcessing
    /\ \/ oracle'[p].refSlot = oracle[p].refSlot
       \/ oracle'[p].refSlot = r /\ r >= oracle[p].refSlot

\* The reporting state r agrees with a table of n variants.
ReportingFits(r, n) ==
  /\ r.lastConsensusRefSlot <= r.lastReportRefSlot
  /\ /\ r.lastConsensusRefSlot # 0
     /\ r.lastConsensusRefSlot = r.lastReportRefSlot
     => r.lastConsensusVariantIndex \in 1..n

\* submitConsensusReport moves the slot of one processor up to r.
LEMMA SubmitPushes ==
  ASSUME OraclesTyped, NEW p \in Processors, NEW h, NEW r \in Nat, NEW d,
         SubmitConsensusReport(p, h, r, d, now)
  PROVE  ReportPushed(r)
BY DEF OraclesTyped, OracleState, SubmitConsensusReport, SubmitAccepted, ReportPushed

\* discardConsensusReport leaves the slots alone.
LEMMA DiscardPushes ==
  ASSUME OraclesTyped, NEW p \in Processors, NEW r \in Nat, DiscardConsensusReport(p, r)
  PROVE  ReportPushed(r)
<1>1. CASE oracle' = oracle
  BY <1>1 DEF ReportPushed
<1>2. CASE oracle' = [oracle EXCEPT ![p].hash = ZeroHash]
  BY <1>2 DEF OraclesTyped, OracleState, ReportPushed
<1> QED
  BY <1>1, <1>2 DEF DiscardConsensusReport

\* A consensus on variant i of the current slot's n variants.
LEMMA ReachedSlots ==
  ASSUME ConfigOK, OraclesTyped, processor \in Processors, Started,
         NEW rs \in ReportingState, NEW n \in Nat, ReportingFits(rs, n),
         rs.lastReportRefSlot = CurrentFrame.refSlot,
         NEW h, NEW i \in 1..n, ConsensusReached(rs, CurrentFrame, h, i)
  PROVE  /\ ReportingFits(reporting', n)
         /\ reporting'.lastReportRefSlot = rs.lastReportRefSlot
         /\ ReportPushed(CurrentFrame.refSlot)
<1>1. CurrentFrame.refSlot \in Nat
  BY CurrentFrameTyped
<1>2. CASE reporting' = rs /\ UNCHANGED oracle
  BY <1>2 DEF ReportPushed
<1>3. CASE /\ reporting' = [rs EXCEPT !.lastConsensusRefSlot = CurrentFrame.refSlot,
                                      !.lastConsensusVariantIndex = i]
           /\ SubmitConsensusReport(processor, h, CurrentFrame.refSlot,
                                    CurrentFrame.deadlineSlot, now)
  <2>1. ReportPushed(CurrentFrame.refSlot)
    BY <1>1, <1>3, SubmitPushes
  <2> QED
    BY <1>1, <1>3, <2>1 DEF ReportingFits, ReportingState
<1> QED
  BY <1>2, <1>3 DEF ConsensusReached

\* A lost consensus.
LEMMA NotReachedSlots ==
  ASSUME ConfigOK, OraclesTyped, processor \in Processors, Started,
         NEW rs \in ReportingState, NEW n \in Nat, ReportingFits(rs, n),
         ConsensusNotReached(rs, CurrentFrame)
  PROVE  /\ ReportingFits(reporting', n)
         /\ reporting'.lastReportRefSlot = rs.lastReportRefSlot
         /\ ReportPushed(CurrentFrame.refSlot)
<1>1. CurrentFrame.refSlot \in Nat
  BY CurrentFrameTyped
<1>2. CASE reporting' = rs /\ UNCHANGED oracle
  BY <1>2 DEF ReportPushed
<1>3. CASE /\ reporting' = [rs EXCEPT !.lastConsensusRefSlot = 0]
           /\ DiscardConsensusReport(processor, CurrentFrame.refSlot)
  <2>1. ReportPushed(CurrentFrame.refSlot)
    BY <1>1, <1>3, DiscardPushes
  <2> QED
    BY <1>3, <2>1 DEF ReportingFits, ReportingState
<1> QED
  BY <1>2, <1>3 DEF ConsensusNotReached

\* A change of the quorum, with as many variants as are stored.
LEMMA QuorumChangeSlots ==
  ASSUME TypeOK, ReportingFits(reporting, Len(variants)),
         NEW q \in Nat, NEW t, NEW vs \in Seq(ReportVariant), Len(vs) = Len(variants),
         SetQuorumAndCheckConsensus(q, t, vs)
  PROVE  \/ UNCHANGED <<reporting, oracle>>
         \/ /\ Started
            /\ ReportingFits(reporting', Len(variants))
            /\ reporting'.lastReportRefSlot = reporting.lastReportRefSlot
            /\ ReportPushed(CurrentFrame.refSlot)
<1> DEFINE won == IF reporting.lastReportRefSlot = CurrentFrame.refSlot
                  THEN WithQuorum(vs, q) ELSE {}
<1>1. Len(variants) \in Nat
  BY LenProperties DEF TypeOK
<1>2. CASE Started /\ ConsensusNotReached(reporting, CurrentFrame)
  BY <1>1, <1>2, TypeOKFacts, NotReachedSlots
<1>3. ASSUME Started, NEW i \in won,
             ConsensusReached(reporting, CurrentFrame, vs[i].hash, i)
      PROVE  /\ ReportingFits(reporting', Len(variants))
             /\ reporting'.lastReportRefSlot = reporting.lastReportRefSlot
             /\ ReportPushed(CurrentFrame.refSlot)
  <2>1. i \in 1..Len(variants) /\ reporting.lastReportRefSlot = CurrentFrame.refSlot
    BY <1>3 DEF WithQuorum
  <2> QED
    BY <1>1, <1>3, <2>1, TypeOKFacts, ReachedSlots
<1>4. CASE Started /\ CheckConsensus(q, vs)
  <2>1. \/ UNCHANGED <<reporting, oracle>>
        \/ ConsensusNotReached(reporting, CurrentFrame)
        \/ \E i \in won : ConsensusReached(reporting, CurrentFrame, vs[i].hash, i)
    BY <1>4, Zenon DEF CheckConsensus
  <2> HIDE DEF won
  <2> QED
    BY <1>2, <1>3, <1>4, <2>1
<1> QED
  BY <1>4 DEF SetQuorumAndCheckConsensus

\* The strengthening holds initially.
LEMMA InitSlots == Init => SlotsInv
<1> SUFFICES ASSUME Init PROVE SlotsInv
  OBVIOUS
<1>1. TypeOK
  BY InitTyped
<1>2. /\ reporting.lastReportRefSlot = 0 /\ reporting.lastConsensusRefSlot = 0
      /\ \A p \in Processors : oracle[p].refSlot = 0 /\ oracle[p].lastProcessing = 0
  BY DEF Init, InitialOracle
<1>3. Started => CurrentFrame.refSlot \in Nat
  BY <1>1, TypeOKFacts, CurrentFrameTyped
<1> QED
  BY <1>2, <1>3 DEF SlotsInv, OraclesNotAhead

\* Time and configuration steps: reports stay, the reference slot grows.
LEMMA FrameMovesKeepSlots ==
  ASSUME TypeOK, SlotsInv, [Next]_vars, TypeOK', UNCHANGED <<variants, reporting>>,
         \A p \in Processors : oracle'[p].refSlot = oracle[p].refSlot
                              /\ oracle'[p].lastProcessing \in {oracle[p].lastProcessing,
                                                                oracle[p].refSlot}
  PROVE  SlotsInv'
<1>1. Started' => CurrentFrame'.refSlot \in Nat
  <2> SUFFICES ASSUME Started' PROVE RefSlotAt(now', frameConfig') \in Nat
    BY DEF CurrentFrame, RefSlotAt
  <2> QED
    BY RefSlotFromStart DEF Started, TypeOK
<1>2. Started => CurrentFrame.refSlot \in Nat
  BY TypeOKFacts, CurrentFrameTyped
<1>3. Started => Started' /\ CurrentFrame'.refSlot >= CurrentFrame.refSlot
  <2> SUFFICES ASSUME Started PROVE Started' /\ CurrentFrame'.refSlot >= CurrentFrame.refSlot
    OBVIOUS
  <2> DEFINE k == frameConfig.epochsPerFrame * SLOTS_PER_EPOCH
             l == frameConfig'.epochsPerFrame * SLOTS_PER_EPOCH
  <2>1. k \in Nat /\ l \in Nat
    BY SlotsAssumption DEF TypeOK, FrameConfig
  <2>2. Started' /\ \/ CurrentFrame'.refSlot = CurrentFrame.refSlot
                    \/ CurrentFrame'.refSlot >= CurrentFrame.refSlot + k
                    \/ CurrentFrame'.refSlot >= CurrentFrame.refSlot + l
    BY FrameStep
  <2> HIDE DEF k, l
  <2> QED
    BY <1>1, <1>2, <2>1, <2>2
<1>4. /\ reporting.lastReportRefSlot \in Nat
      /\ \A p \in Processors : oracle[p].refSlot \in Nat /\ oracle[p].lastProcessing \in Nat
  BY DEF TypeOK, ReportingState, OracleState
<1>5. (Started => reporting.lastReportRefSlot <= CurrentFrame.refSlot)'
  BY <1>1, <1>2, <1>3, <1>4 DEF SlotsInv
<1>6. (~Started => /\ reporting.lastReportRefSlot = 0
                   /\ \A p \in Processors : oracle[p].refSlot = 0)'
  BY <1>3 DEF SlotsInv
<1>7. OraclesNotAhead'
  <2> SUFFICES ASSUME NEW p \in Processors
               PROVE  /\ oracle'[p].lastProcessing <= oracle'[p].refSlot
                      /\ Started' => oracle'[p].refSlot <= CurrentFrame'.refSlot
    BY DEF OraclesNotAhead
  <2>1. oracle'[p].lastProcessing <= oracle'[p].refSlot
    BY <1>4 DEF SlotsInv, OraclesNotAhead
  <2>2. Started' => oracle'[p].refSlot <= CurrentFrame'.refSlot
    BY <1>1, <1>2, <1>3, <1>4 DEF SlotsInv, OraclesNotAhead
  <2> QED
    BY <2>1, <2>2
<1> QED
  BY <1>5, <1>6, <1>7 DEF SlotsInv

\* Votes and committee changes: reports are pushed for the current slot.
LEMMA PushesKeepSlots ==
  ASSUME TypeOK, SlotsInv, UNCHANGED <<now, frameConfig>>,
         Started, ReportPushed(CurrentFrame.refSlot),
         ReportingFits(reporting', Len(variants')),
         reporting'.lastReportRefSlot <= CurrentFrame.refSlot
  PROVE  SlotsInv'
<1>1. Started' /\ CurrentFrame' = CurrentFrame
  BY FrameUnchanged
<1>2. CurrentFrame.refSlot \in Nat
  BY TypeOKFacts, CurrentFrameTyped
<1>3. \A p \in Processors : oracle[p].refSlot \in Nat /\ oracle[p].lastProcessing \in Nat
  BY DEF TypeOK, OracleState
<1>4. OraclesNotAhead'
  BY <1>1, <1>2, <1>3 DEF ReportPushed, SlotsInv, OraclesNotAhead
<1> QED
  BY <1>1, <1>4 DEF SlotsInv, ReportingFits

\* Every action keeps the strengthening.
LEMMA NextSlots == TypeOK /\ SlotsInv /\ [Next]_vars => SlotsInv'
<1> SUFFICES ASSUME TypeOK, SlotsInv, [Next]_vars PROVE SlotsInv'
  OBVIOUS
<1>0. TypeOK' /\ ReportingFits(reporting, Len(variants))
  BY NextTyped DEF SlotsInv, ReportingFits
<1>1. ASSUME NEW q \in Nat, NEW t, NEW vs \in Seq(ReportVariant), Len(vs) = Len(variants),
             SetQuorumAndCheckConsensus(q, t, vs), Len(variants') = Len(variants),
             UNCHANGED <<now, frameConfig>>
      PROVE  SlotsInv'
  <2>1. CASE UNCHANGED <<reporting, oracle>>
    BY <1>1, <2>1, FrameUnchanged DEF SlotsInv, OraclesNotAhead
  <2>2. CASE ~ UNCHANGED <<reporting, oracle>>
    <3>1. /\ Started
          /\ ReportingFits(reporting', Len(variants))
          /\ reporting'.lastReportRefSlot = reporting.lastReportRefSlot
          /\ ReportPushed(CurrentFrame.refSlot)
      BY <1>0, <1>1, <2>2, QuorumChangeSlots
    <3>2. reporting'.lastReportRefSlot <= CurrentFrame.refSlot
      BY <3>1 DEF SlotsInv
    <3> QED
      BY <1>1, <3>1, <3>2, PushesKeepSlots
  <2> QED
    BY <2>1, <2>2
<1>2. CASE Tick
  BY <1>0, <1>2, FrameMovesKeepSlots DEF Tick, votingVars
<1>3. CASE \E e \in InitialEpochs : UpdateInitialEpoch(e)
  BY <1>0, <1>3, FrameMovesKeepSlots DEF UpdateInitialEpoch, votingVars
<1>4. CASE \E n \in FrameLengths, f \in FastLanes : SetFrameConfig(n, f)
  BY <1>0, <1>4, FrameMovesKeepSlots DEF SetFrameConfig, votingVars
<1>5. CASE \E f \in FastLanes : SetFastLaneLengthSlots(f)
  BY <1>0, <1>5, FrameMovesKeepSlots DEF SetFastLaneLengthSlots, votingVars
<1>6. CASE \E a \in Addresses, q \in Quorums : AddMember(a, q)
  <2>1. PICK a \in Addresses, q \in Quorums : AddMember(a, q)
    BY <1>6
  <2> QED
    BY <2>1, <1>1, ParameterAssumption DEF AddMember, TypeOK
<1>7. CASE \E a \in Addresses, q \in Quorums : RemoveMember(a, q)
  <2>1. PICK a \in Addresses, q \in Quorums : RemoveMember(a, q)
    BY <1>7
  <2>2. SetQuorumAndCheckConsensus(q, Len(members) - 1, variants')
    BY <2>1 DEF RemoveMember
  <2>3. Len(variants') = Len(variants) /\ variants' \in Seq(ReportVariant)
    <3>1. \/ variants' = variants
          \/ variants' = [variants EXCEPT ![memberState[a].lastReportVariantIndex].support = @ - 1]
      BY <2>1 DEF RemoveMember
    <3>2. DOMAIN variants' = DOMAIN variants
      BY <3>1
    <3> QED
      BY <1>0, <3>2, LenProperties DEF TypeOK
  <2> QED
    BY <2>1, <2>2, <2>3, <1>1, ParameterAssumption DEF RemoveMember
<1>8. CASE (\E q \in Quorums : SetQuorum(q)) \/ DisableConsensus
  <2>1. PICK q \in Nat : SetQuorum(q)
    BY <1>8, ParameterAssumption DEF DisableConsensus
  <2> QED
    BY <2>1, <1>1 DEF SetQuorum, TypeOK
<1>9. CASE \E p \in Processors : SetReportProcessor(p)
  <2>1. PICK p \in Processors : SetReportProcessor(p)
    BY <1>9
  <2>2. /\ Started
        /\ UNCHANGED <<now, frameConfig, variants, reporting>>
        /\ \/ UNCHANGED oracle
           \/ SubmitConsensusReport(p, variants[reporting.lastConsensusVariantIndex].hash,
                                   CurrentFrame.refSlot, CurrentFrame.deadlineSlot, now)
    BY <2>1, Zenon DEF SetReportProcessor, votingVars
  <2>3. ReportPushed(CurrentFrame.refSlot)
    <3>1. CASE UNCHANGED oracle
      BY <3>1 DEF ReportPushed
    <3> QED
      BY <2>2, <3>1, TypeOKFacts, CurrentFrameTyped, SubmitPushes
  <2> QED
    BY <1>0, <2>2, <2>3, PushesKeepSlots DEF SlotsInv
<1>10. CASE \E a \in Addresses, h \in Hashes : SubmitReport(a, h)
  <2>1. PICK a \in Addresses, h \in Hashes : SubmitReport(a, h)
    BY <1>10
  <2> DEFINE f   == CurrentFrame
             old == VariantsFor(f.refSlot)
             rs  == [reporting EXCEPT !.lastReportRefSlot = f.refSlot]
  <2>2. PICK i \in 1..Len(old) + 1 :
          /\ variants' \in Seq(ReportVariant)
          /\ i \in 1..Len(variants')
          /\ Len(old) <= Len(variants')
          /\ \/ ConsensusReached(rs, f, h, i)
             \/ ConsensusNotReached(rs, f)
             \/ reporting' = rs /\ UNCHANGED oracle
    BY <2>1, VoteTyped
  <2>3. Started /\ f.refSlot \in Nat /\ UNCHANGED <<now, frameConfig>>
    BY <2>1, VoteTyped
  <2>4. rs \in ReportingState /\ rs.lastReportRefSlot = f.refSlot
    BY <2>3, TypeOKFacts DEF ReportingState
  <2>5. Len(variants') \in Nat /\ Len(old) \in Nat
    BY <2>2, LenProperties, VariantsForTyped
  <2>6. ReportingFits(rs, Len(variants'))
    <3>1. /\ reporting.lastReportRefSlot \in Nat /\ reporting.lastConsensusRefSlot \in Nat
          /\ reporting.lastConsensusVariantIndex \in Nat
      BY TypeOKFacts DEF ReportingState
    <3>2. /\ rs.lastConsensusRefSlot = reporting.lastConsensusRefSlot
          /\ rs.lastConsensusVariantIndex = reporting.lastConsensusVariantIndex
      BY TypeOKFacts DEF ReportingState
    <3>3. /\ reporting.lastConsensusRefSlot <= reporting.lastReportRefSlot
          /\ reporting.lastReportRefSlot <= f.refSlot
      BY <2>3 DEF SlotsInv
    <3>4. CASE reporting.lastReportRefSlot = f.refSlot
      <4>1. old = variants
        BY <3>4 DEF VariantsFor
      <4> HIDE DEF rs, old, f
      <4> QED
        BY <1>0, <2>2, <2>4, <2>5, <3>1, <3>2, <3>3, <3>4, <4>1 DEF ReportingFits
    <3>5. CASE reporting.lastReportRefSlot # f.refSlot
      <4> HIDE DEF rs, old, f
      <4> QED
        BY <2>3, <2>4, <3>1, <3>2, <3>3, <3>5 DEF ReportingFits
    <3> QED
      BY <3>4, <3>5
  <2>7. /\ ReportingFits(reporting', Len(variants'))
        /\ reporting'.lastReportRefSlot = f.refSlot
        /\ ReportPushed(f.refSlot)
    <3> HIDE DEF rs
    <3>1. CASE ConsensusReached(rs, f, h, i)
      BY <2>2, <2>3, <2>4, <2>5, <2>6, <3>1, TypeOKFacts, ReachedSlots
    <3>2. CASE ConsensusNotReached(rs, f)
      BY <2>3, <2>4, <2>5, <2>6, <3>2, TypeOKFacts, NotReachedSlots
    <3>3. CASE reporting' = rs /\ UNCHANGED oracle
      BY <2>4, <2>6, <3>3 DEF ReportPushed
    <3> QED
      BY <2>2, <3>1, <3>2, <3>3
  <2> QED
    BY <2>3, <2>7, PushesKeepSlots
<1>11. CASE \E p \in Processors, h \in Hashes : ProcessReport(p, h)
  <2>1. PICK p \in Processors, h \in Hashes : ProcessReport(p, h)
    BY <1>11
  <2>2. /\ UNCHANGED <<variants, reporting>>
        /\ oracle' = [oracle EXCEPT ![p].lastProcessing = oracle[p].refSlot]
    BY <2>1 DEF ProcessReport, StartProcessing, votingVars
  <2> QED
    BY <1>0, <2>2, FrameMovesKeepSlots DEF TypeOK, OracleState
<1>12. CASE \E p \in Processors, v \in Versions : ChangeConsensusVersion(p, v)
  <2>1. PICK p \in Processors, v \in Versions : ChangeConsensusVersion(p, v)
    BY <1>12
  <2>2. /\ UNCHANGED <<variants, reporting>>
        /\ oracle' = [oracle EXCEPT ![p].version = v]
    BY <2>1 DEF ChangeConsensusVersion, SetConsensusVersion, votingVars
  <2> QED
    BY <1>0, <2>2, FrameMovesKeepSlots DEF TypeOK, OracleState
<1>13. CASE UNCHANGED vars
  BY <1>0, <1>13, FrameMovesKeepSlots DEF vars, votingVars
<1> QED
  BY <1>2, <1>3, <1>4, <1>5, <1>6, <1>7, <1>8, <1>9, <1>10, <1>11, <1>12, <1>13 DEF Next

-------------------------------------------------------------------------------
\* Theorems

\* The inductive invariant: types, and slots of reports.
Inv == TypeOK /\ SlotsInv

THEOREM Invariant == Spec => []Inv
<1>1. Init => Inv
  BY InitTyped, InitSlots DEF Inv
<1>2. Inv /\ [Next]_vars => Inv'
  BY NextTyped, NextSlots DEF Inv
<1> QED
  BY <1>1, <1>2, PTL DEF Spec

\* The state is typed and the members are distinct, always.
THEOREM TypeCorrect == Spec => []TypeOK
BY Invariant, PTL DEF Inv

\* No processor ever holds or processes a report for a slot after the current
\* reference slot, or holds one for a slot before the last it processed.
THEOREM OraclesStayBehind == Spec => []OraclesNotAhead
<1>1. Inv => OraclesNotAhead
  BY DEF Inv, SlotsInv
<1> QED
  BY <1>1, Invariant, PTL

\* The reference slot only moves forward, by at least a frame.
THEOREM RefSlotGrows == Spec => RefSlotGrowsByFrames
<1>1. ASSUME Inv, [Next]_vars, Started
      PROVE  LET grown == CurrentFrame'.refSlot - CurrentFrame.refSlot
             IN grown # 0 =>
                  /\ Started'
                  /\ \/ grown >= frameConfig.epochsPerFrame * SLOTS_PER_EPOCH
                     \/ grown >= frameConfig'.epochsPerFrame * SLOTS_PER_EPOCH
  <2> DEFINE k == frameConfig.epochsPerFrame * SLOTS_PER_EPOCH
             l == frameConfig'.epochsPerFrame * SLOTS_PER_EPOCH
  <2>1. TypeOK /\ TypeOK'
    BY <1>1, NextTyped DEF Inv
  <2>2. k \in Nat /\ l \in Nat
    BY <2>1, SlotsAssumption DEF TypeOK, FrameConfig
  <2>3. /\ Started'
        /\ \/ CurrentFrame'.refSlot = CurrentFrame.refSlot
           \/ CurrentFrame'.refSlot >= CurrentFrame.refSlot + k
           \/ CurrentFrame'.refSlot >= CurrentFrame.refSlot + l
    BY <1>1, <2>1, FrameStep
  <2>4. CurrentFrame.refSlot \in Nat /\ CurrentFrame'.refSlot \in Nat
    <3>1. RefSlotAt(now', frameConfig') \in Nat
      BY <2>1, <2>3, RefSlotFromStart DEF Started, TypeOK
    <3> QED
      BY <1>1, <2>1, <3>1, TypeOKFacts, CurrentFrameTyped DEF CurrentFrame, RefSlotAt
  <2> HIDE DEF k, l
  <2>5. LET grown == CurrentFrame'.refSlot - CurrentFrame.refSlot
        IN grown # 0 => Started' /\ (grown >= k \/ grown >= l)
    BY <2>2, <2>3, <2>4
  <2> QED
    BY <2>5 DEF k, l
<1> QED
  BY <1>1, Invariant, PTL DEF Spec, RefSlotGrowsByFrames

\* The calls by which a step changes a processor's storage.
OracleCall ==
  \/ \E p \in Processors, h \in Hashes, r \in Nat, d \in Nat :
       SubmitConsensusReport(p, h, r, d, now)
  \/ \E p \in Processors, r \in Nat : DiscardConsensusReport(p, r)
  \/ \E p \in Processors, h \in Hashes : StartProcessing(p, h, now)
  \/ \E p \in Processors, v \in Versions : SetConsensusVersion(p, v)

\* A consensus that is reached or lost makes at most one such call.
LEMMA ConsensusCalls ==
  ASSUME ConfigOK, Started, processor \in Processors, NEW rs, NEW h \in Hashes, NEW i,
         \/ ConsensusReached(rs, CurrentFrame, h, i)
         \/ ConsensusNotReached(rs, CurrentFrame)
  PROVE  UNCHANGED oracle \/ OracleCall
<1>1. CurrentFrame.refSlot \in Nat /\ CurrentFrame.deadlineSlot \in Nat
  BY CurrentFrameTyped
<1> QED
  BY <1>1 DEF ConsensusReached, ConsensusNotReached, OracleCall

\* So does a change of the quorum.
LEMMA QuorumCalls ==
  ASSUME TypeOK, NEW q, NEW t, NEW vs \in Seq(ReportVariant), SetQuorumAndCheckConsensus(q, t, vs)
  PROVE  UNCHANGED oracle \/ OracleCall
<1> DEFINE won == IF reporting.lastReportRefSlot = CurrentFrame.refSlot
                  THEN WithQuorum(vs, q) ELSE {}
<1>1. CASE Started /\ CheckConsensus(q, vs)
  <2>1. \/ UNCHANGED oracle
        \/ ConsensusNotReached(reporting, CurrentFrame)
        \/ \E i \in won : ConsensusReached(reporting, CurrentFrame, vs[i].hash, i)
    BY <1>1, Zenon DEF CheckConsensus
  <2>2. ASSUME NEW i \in won, ConsensusReached(reporting, CurrentFrame, vs[i].hash, i)
        PROVE  UNCHANGED oracle \/ OracleCall
    <3>1. i \in 1..Len(vs)
      BY DEF WithQuorum
    <3>2. vs[i] \in ReportVariant
      BY <3>1, ElementOfSeq
    <3>3. vs[i].hash \in Hashes
      BY <3>2 DEF ReportVariant
    <3> QED
      BY <1>1, <2>2, <3>3, TypeOKFacts, ConsensusCalls
  <2>3. CASE ConsensusNotReached(reporting, CurrentFrame)
    BY <1>1, <2>3, TypeOKFacts, CurrentFrameTyped DEF ConsensusNotReached, OracleCall
  <2> HIDE DEF won
  <2> QED
    BY <2>1, <2>2, <2>3
<1> QED
  BY <1>1 DEF SetQuorumAndCheckConsensus

\* Every step of the system makes at most one call that changes a processor.
LEMMA StepCalls == TypeOK /\ SlotsInv /\ [Next]_vars => UNCHANGED oracle \/ OracleCall
<1> SUFFICES ASSUME TypeOK, SlotsInv, [Next]_vars PROVE UNCHANGED oracle \/ OracleCall
  OBVIOUS
<1>1. CASE \E a \in Addresses, q \in Quorums : AddMember(a, q)
  BY <1>1, QuorumCalls DEF AddMember, TypeOK
<1>2. CASE \E a \in Addresses, q \in Quorums : RemoveMember(a, q)
  <2>1. PICK a \in Addresses, q \in Quorums : RemoveMember(a, q)
    BY <1>2
  <2>2. SetQuorumAndCheckConsensus(q, Len(members) - 1, variants')
    BY <2>1 DEF RemoveMember
  <2>3. variants' \in Seq(ReportVariant)
    BY NextTyped DEF TypeOK
  <2> QED
    BY <2>2, <2>3, QuorumCalls
<1>3. CASE (\E q \in Quorums : SetQuorum(q)) \/ DisableConsensus
  BY <1>3, QuorumCalls DEF SetQuorum, DisableConsensus, TypeOK
<1>4. CASE \E p \in Processors : SetReportProcessor(p)
  <2>1. PICK p \in Processors : SetReportProcessor(p)
    BY <1>4
  <2>2. CASE UNCHANGED oracle
    BY <2>2
  <2>3. CASE SubmitConsensusReport(p, variants[reporting.lastConsensusVariantIndex].hash,
                                   CurrentFrame.refSlot, CurrentFrame.deadlineSlot, now)
    <3> DEFINE h == variants[reporting.lastConsensusVariantIndex].hash
    <3>1. CurrentFrame.refSlot \in Nat /\ CurrentFrame.deadlineSlot \in Nat
      BY <2>1, TypeOKFacts, CurrentFrameTyped DEF SetReportProcessor
    <3>2. oracle' = [oracle EXCEPT ![p].hash = h, ![p].refSlot = CurrentFrame.refSlot,
                                   ![p].deadline = CurrentFrame.deadlineSlot]
      BY <2>3 DEF SubmitConsensusReport
    <3>3. oracle'[p].hash \in Hashes \cup {ZeroHash}
      BY NextTyped DEF TypeOK, OracleState
    <3>4. oracle'[p].hash = h
      BY <3>2 DEF TypeOK, OracleState
    <3>5. h \in Hashes
      BY <2>3, <3>3, <3>4 DEF SubmitConsensusReport
    <3> QED
      BY <2>3, <3>1, <3>5 DEF OracleCall
  <2> QED
    BY <2>1, <2>2, <2>3, Zenon DEF SetReportProcessor
<1>5. CASE \E a \in Addresses, h \in Hashes : SubmitReport(a, h)
  <2>1. PICK a \in Addresses, h \in Hashes : SubmitReport(a, h)
    BY <1>5
  <2>2. Started
    BY <2>1, VoteTyped
  <2> DEFINE rs == [reporting EXCEPT !.lastReportRefSlot = CurrentFrame.refSlot]
  <2>3. PICK i \in 1..Len(VariantsFor(CurrentFrame.refSlot)) + 1 :
          \/ ConsensusReached(rs, CurrentFrame, h, i)
          \/ ConsensusNotReached(rs, CurrentFrame)
          \/ reporting' = rs /\ UNCHANGED oracle
    BY <2>1, VoteTyped
  <2> QED
    BY <2>2, <2>3, TypeOKFacts, ConsensusCalls
<1>6. CASE \E p \in Processors, h \in Hashes : ProcessReport(p, h)
  BY <1>6 DEF ProcessReport, OracleCall
<1>7. CASE \E p \in Processors, v \in Versions : ChangeConsensusVersion(p, v)
  BY <1>7 DEF ChangeConsensusVersion, OracleCall
<1> QED
  BY <1>1, <1>2, <1>3, <1>4, <1>5, <1>6, <1>7
     DEF Next, vars, Tick, UpdateInitialEpoch, SetFrameConfig, SetFastLaneLengthSlots

\* Once a processor has started on a report, the report stays the same until one
\* for a later slot replaces it, and the slots it starts on only grow (comment
\* at BaseOracle.sol:318-320).
THEOREM ReportsFrozen == Spec => FrozenOnceProcessing
<1> DEFINE Kept(p) ==
             /\ oracle'[p].lastProcessing >= oracle[p].lastProcessing
             /\ oracle[p].lastProcessing = oracle[p].refSlot
                  => \/ oracle'[p].refSlot > oracle[p].refSlot
                     \/ /\ oracle'[p].hash = oracle[p].hash
                        /\ oracle'[p].deadline = oracle[p].deadline
<1>1. ASSUME Inv, [Next]_vars, NEW p \in Processors
      PROVE  Kept(p)
  <2> USE DEF OracleState
  <2>0. /\ OraclesTyped
        /\ oracle[p].lastProcessing \in Nat /\ oracle[p].refSlot \in Nat
        /\ oracle[p].lastProcessing <= oracle[p].refSlot
    BY <1>1 DEF Inv, TypeOK, OraclesTyped, SlotsInv, OraclesNotAhead
  <2>1. CASE UNCHANGED oracle
    BY <2>0, <2>1
  <2>2. ASSUME NEW r \in Processors, NEW h \in Hashes, NEW s \in Nat, NEW d \in Nat,
               SubmitConsensusReport(r, h, s, d, now)
        PROVE  Kept(p)
    BY <2>0, <2>2 DEF SubmitConsensusReport, SubmitAccepted, OraclesTyped
  <2>3. ASSUME NEW r \in Processors, NEW s \in Nat, DiscardConsensusReport(r, s)
        PROVE  Kept(p)
    <3>1. CASE oracle' = [oracle EXCEPT ![r].hash = ZeroHash] /\ s = oracle[r].refSlot
      <4>1. s > oracle[r].lastProcessing
        BY <2>3, <3>1 DEF DiscardConsensusReport, DiscardAccepted
      <4>2. oracle[r].lastProcessing \in Nat
        BY <2>0 DEF OraclesTyped
      <4> QED
        BY <2>0, <3>1, <4>1, <4>2 DEF OraclesTyped
    <3>2. CASE oracle' = oracle
      BY <2>0, <3>2
    <3>3. oracle[r].refSlot \in Nat
      BY <2>0 DEF OraclesTyped
    <3>4. \/ oracle' = oracle
          \/ oracle' = [oracle EXCEPT ![r].hash = ZeroHash] /\ s = oracle[r].refSlot
      BY <2>3, <3>3 DEF DiscardConsensusReport, DiscardAccepted
    <3> QED
      BY <3>1, <3>2, <3>4
  <2>4. ASSUME NEW r \in Processors, NEW h \in Hashes, StartProcessing(r, h, now)
        PROVE  Kept(p)
    BY <2>0, <2>4 DEF StartProcessing, OraclesTyped
  <2>5. ASSUME NEW r \in Processors, NEW v \in Versions, SetConsensusVersion(r, v)
        PROVE  Kept(p)
    BY <2>0, <2>5 DEF SetConsensusVersion, OraclesTyped
  <2>6. UNCHANGED oracle \/ OracleCall
    BY <1>1, StepCalls DEF Inv
  <2> HIDE DEF Kept
  <2> QED
    BY <2>1, <2>2, <2>3, <2>4, <2>5, <2>6 DEF OracleCall
<1>2. ASSUME Inv, [Next]_vars
      PROVE  \A p \in Processors : Kept(p)
  BY <1>1, <1>2
<1> QED
  BY <1>2, Invariant, PTL DEF Spec, FrozenOnceProcessing

\* Together: along every behaviour of committee and processors, reconfigured at
\* any moment, frames and started reports move forward only.
THEOREM SlotsAlwaysAdvance == Spec => SlotsOnlyAdvance
BY RefSlotGrows, ReportsFrozen, PTL DEF SlotsOnlyAdvance

-------------------------------------------------------------------------------
\* The fast lane

\* Every member has one index, and every index one member.
LEMMA MemberIndexUnique ==
  ASSUME TypeOK
  PROVE  /\ Len(members) \in Nat
         /\ \A i \in 1..Len(members) : members[i] \in MemberSet /\ MemberIndex(members[i]) = i
<1>1. Len(members) \in Nat
  BY LenProperties DEF TypeOK
<1> QED
  BY <1>1 DEF TypeOK, MemberSet, MemberIndex

\* Only addresses are members.
LEMMA MembersAreAddresses == TypeOK => MemberSet \subseteq Addresses
BY ElementOfSeq DEF TypeOK, MemberSet

\* As many members as there are entries of the array.
LEMMA MembersCounted ==
  ASSUME TypeOK
  PROVE  IsFiniteSet(MemberSet) /\ Cardinality(MemberSet) = Len(members)
<1> DEFINE g == [i \in 1..Len(members) |-> members[i]]
<1>1. Len(members) \in Nat
  BY LenProperties DEF TypeOK
<1>2. g \in Bijection(1..Len(members), MemberSet)
  BY Fun_IsBij DEF TypeOK, MemberSet
<1>3. ExistsBijection(1..Len(members), MemberSet)
  BY <1>2 DEF ExistsBijection
<1> QED
  BY <1>1, <1>3, FS_CountingElements, FS_NatBijection

\* A quorum is a majority of the members; before the first member joins there
\* is no quorum and there are no votes.
QuorumIsMajority ==
  \/ quorum > Len(members) \div 2
  \/ quorum = 0 /\ members = <<>> /\ reporting.lastReportRefSlot = 0

\* The fast lane of every frame from now on has min(quorum, members) members.
LEMMA FastLaneCounted == TypeOK /\ QuorumIsMajority => FastLaneIsQuorum
<1> SUFFICES ASSUME TypeOK, QuorumIsMajority, Started,
                    NEW f \in CurrentFrame.index..CurrentFrame.index + Len(members)
             PROVE  Cardinality({a \in MemberSet : InFastLaneOf(f, a)})
                      = IF quorum < Len(members) THEN quorum ELSE Len(members)
  BY DEF FastLaneIsQuorum
<1> DEFINE n    == Len(members)
           lane == {a \in MemberSet : InFastLaneOf(f, a)}
<1>1. n \in Nat /\ quorum \in Nat
  BY MemberIndexUnique DEF TypeOK
<1>2. f \in Nat
  <2>1. FrameIndex(now, frameConfig) \in Nat
    BY FrameFacts DEF TypeOK, Started
  <2>2. CurrentFrame.index \in Nat
    BY <2>1 DEF CurrentFrame, FrameAt, FrameAtIndex
  <2> QED
    BY <1>1, <2>2
<1>3. \A i \in 1..n : members[i] \in lane <=> IsFastLaneIndex(i - 1, f, quorum, n)
  BY MemberIndexUnique DEF InFastLaneOf
<1>4. \A a \in lane : \E i \in 1..n : members[i] = a
  BY DEF MemberSet
<1>5. \A i, j \in 1..n : members[i] = members[j] => i = j
  BY DEF TypeOK
<1> HIDE DEF n, lane
<1> DEFINE indices == {i \in 0..n - 1 : IsFastLaneIndex(i, f, quorum, n)}
           g       == [i \in indices |-> members[i + 1]]
<1>6. n = 0 \/ quorum > 0
  <2>1. n = 0 <=> members = <<>>
    BY EmptySeq, LenProperties DEF n, TypeOK
  <2>2. n \div 2 \in Nat
    BY <1>1
  <2> QED
    BY <1>1, <2>1, <2>2 DEF QuorumIsMajority, n
<1>7. IsFiniteSet(indices) /\ Cardinality(indices) = IF quorum < n THEN quorum ELSE n
  BY <1>1, <1>2, <1>6, FastLaneCounts
<1>8. \A i \in indices : i + 1 \in 1..n /\ members[i + 1] \in lane
  BY <1>1, <1>3
<1>9. ASSUME NEW i \in 1..n, members[i] \in lane PROVE i - 1 \in indices
  <2>1. i - 1 \in 0..n - 1 /\ IsFastLaneIndex(i - 1, f, quorum, n)
    BY <1>1, <1>3, <1>9
  <2> QED
    BY <2>1
<1> HIDE DEF indices
<1>10. g \in Bijection(indices, lane)
  <2>1. g \in [indices -> lane]
    BY <1>8
  <2>2. \A i, j \in indices : g[i] = g[j] => i = j
    <3> SUFFICES ASSUME NEW i \in indices, NEW j \in indices, g[i] = g[j] PROVE i = j
      OBVIOUS
    <3>1. i + 1 = j + 1
      BY <1>5, <1>8
    <3> QED
      BY <3>1 DEF indices
  <2>3. \A a \in lane : \E i \in indices : g[i] = a
    <3> TAKE a \in lane
    <3>1. PICK i \in 1..n : members[i] = a
      BY <1>4
    <3>2. i - 1 \in indices /\ i - 1 + 1 = i
      BY <1>9, <3>1
    <3> QED
      BY <3>1, <3>2
  <2> HIDE DEF g
  <2> QED
    BY <2>1, <2>2, <2>3, Fun_IsBij
<1>11. Cardinality(lane) = Cardinality(indices)
  BY <1>7, <1>10, FS_Bijection DEF ExistsBijection
<1> QED
  BY <1>7, <1>11 DEF n, lane

-------------------------------------------------------------------------------
\* Votes, counters and the held report

\* Members' votes refer to the variants of the slot being voted on; those who
\* left have none, and every hash has one variant.
VoteRecords ==
  /\ reporting.lastReportRefSlot = 0 => variants = <<>>
  /\ \A i, j \in 1..Len(variants) : variants[i].hash = variants[j].hash => i = j
  /\ \A a \in Addresses :
       /\ memberState[a].lastReportRefSlot <= reporting.lastReportRefSlot
       /\ a \notin MemberSet => memberState[a].lastReportRefSlot = 0
       /\ /\ memberState[a].lastReportRefSlot # 0
          /\ memberState[a].lastReportRefSlot = reporting.lastReportRefSlot
          => memberState[a].lastReportVariantIndex \in 1..Len(variants)

\* While a consensus on the current slot is recorded, its variant has a quorum
\* and the processor holds its hash; while none is, no variant has a quorum and
\* the processor holds nothing for the slot.
HeldIsSupported ==
  VotingOpen =>
    IF reporting.lastConsensusRefSlot = CurrentFrame.refSlot
    THEN LET k == reporting.lastConsensusVariantIndex
         IN /\ VotesCast
            /\ k \in 1..Len(variants)
            /\ variants[k].support >= quorum
            /\ oracle[processor].refSlot = CurrentFrame.refSlot
            /\ oracle[processor].hash = variants[k].hash
    ELSE /\ VotesCast => \A i \in 1..Len(variants) : variants[i].support < quorum
         /\ HeldHashes = {}

\* The inductive invariant of the count, for a processor that was never replaced.
CountInv == /\ VoteRecords
            /\ QuorumIsMajority
            /\ switches = 0 => SupportIsCount /\ HeldIsSupported

\* The slots compared below are numbers, and voting is open only on a slot
\* after the first.
LEMMA OpenSlot ==
  ASSUME TypeOK
  PROVE  /\ reporting.lastReportRefSlot \in Nat
         /\ reporting.lastConsensusRefSlot \in Nat
         /\ oracle[processor] \in OracleState
         /\ Started => CurrentFrame.refSlot \in Nat
         /\ VotingOpen => Started /\ CurrentFrame.refSlot \in Nat \ {0}
                          /\ now <= CurrentFrame.deadlineSlot
<1>1. /\ reporting.lastReportRefSlot \in Nat
      /\ reporting.lastConsensusRefSlot \in Nat
      /\ oracle[processor] \in OracleState
  BY DEF TypeOK, ReportingState
<1>2. Started => CurrentFrame.refSlot \in Nat
  BY TypeOKFacts, CurrentFrameTyped
<1>3. Started => now <= CurrentFrame.deadlineSlot
  BY SlotInFrame DEF TypeOK, Started, CurrentFrame, RefSlotAt
<1> QED
  BY <1>1, <1>2, <1>3 DEF VotingOpen, GetLastProcessingRefSlot, OracleState

\* The same in the next state.
LEMMA OpenSlotNext ==
  ASSUME TypeOK', VotingOpen'
  PROVE  Started' /\ CurrentFrame'.refSlot \in Nat \ {0}
<1>1. RefSlotAt(now', frameConfig') \in Nat
  BY RefSlotFromStart DEF VotingOpen, Started, TypeOK
<1>2. oracle'[processor'].lastProcessing \in Nat
  BY DEF TypeOK, OracleState
<1> QED
  BY <1>1, <1>2 DEF VotingOpen, GetLastProcessingRefSlot, CurrentFrame, RefSlotAt

\* Time, configuration and processing: votes, counters and the held report stay,
\* and a new frame starts without any.
LEMMA FrameMovesKeepCount ==
  ASSUME TypeOK, SlotsInv, CountInv, [Next]_vars, TypeOK', SlotsInv',
         UNCHANGED <<members, memberState, quorum, variants, reporting, processor, switches>>,
         oracle'[processor].refSlot = oracle[processor].refSlot,
         oracle'[processor].hash = oracle[processor].hash,
         oracle'[processor].lastProcessing \in {oracle[processor].lastProcessing,
                                                oracle[processor].refSlot}
  PROVE  CountInv'
<1> DEFINE r == CurrentFrame.refSlot
           s == CurrentFrame'.refSlot
<1>0. /\ oracle[processor].refSlot \in Nat
      /\ oracle[processor].lastProcessing \in Nat
      /\ oracle[processor].lastProcessing <= oracle'[processor].lastProcessing
      /\ reporting.lastReportRefSlot \in Nat /\ reporting.lastConsensusRefSlot \in Nat
      /\ reporting.lastConsensusRefSlot <= reporting.lastReportRefSlot
      /\ MemberSet' = MemberSet
  BY DEF TypeOK, OracleState, ReportingState, SlotsInv, OraclesNotAhead, MemberSet
<1>1. VoteRecords' /\ QuorumIsMajority'
  BY <1>0 DEF CountInv, VoteRecords, QuorumIsMajority
<1>2. SUFFICES ASSUME switches = 0, VotingOpen'
               PROVE  SupportIsCount' /\ HeldIsSupported'
  BY <1>1 DEF CountInv, SupportIsCount, HeldIsSupported
<1>3. Started' /\ s \in Nat \ {0} /\ oracle'[processor].lastProcessing < s
  BY <1>2, OpenSlotNext DEF VotingOpen, GetLastProcessingRefSlot
<1>4. CASE Started /\ s = r
  <2>1. VotingOpen
    BY <1>0, <1>3, <1>4 DEF VotingOpen, GetLastProcessingRefSlot
  <2>2. SupportIsCount /\ HeldIsSupported
    BY <1>2 DEF CountInv
  <2>3. VotesCast' = VotesCast /\ HeldHashes' = HeldHashes
    BY <1>4 DEF VotesCast, HeldHashes
  <2>4. \A i : Voters(i)' = Voters(i)
    BY <1>0, <1>4 DEF Voters
  <2>5. SupportIsCount'
    BY <2>1, <2>2, <2>3, <2>4 DEF SupportIsCount
  <2>6. HeldIsSupported'
    BY <1>4, <2>1, <2>2, <2>3 DEF HeldIsSupported
  <2> QED
    BY <2>5, <2>6
<1>5. CASE ~Started \/ s # r
  <2>1. reporting.lastReportRefSlot < s /\ oracle[processor].refSlot < s
    <3>1. CASE ~Started
      BY <1>3, <3>1 DEF SlotsInv, TypeOK
    <3>2. CASE Started
      <4> DEFINE k == frameConfig.epochsPerFrame * SLOTS_PER_EPOCH
                 l == frameConfig'.epochsPerFrame * SLOTS_PER_EPOCH
      <4>0. r \in Nat
        BY <3>2, OpenSlot
      <4>1. k \in Nat /\ l \in Nat
        BY SlotsAssumption DEF TypeOK, FrameConfig
      <4>2. s = r \/ s >= r + k \/ s >= r + l
        BY <3>2, FrameStep
      <4> HIDE DEF k, l
      <4>3. r < s
        BY <1>3, <1>5, <3>2, <4>0, <4>1, <4>2
      <4> QED
        BY <1>0, <1>3, <3>2, <4>0, <4>3 DEF SlotsInv, OraclesNotAhead, TypeOK
    <3> QED
      BY <3>1, <3>2
  <2>2. ~VotesCast' /\ HeldHashes' = {} /\ reporting'.lastConsensusRefSlot # s
    BY <1>0, <1>3, <2>1 DEF VotesCast, HeldHashes
  <2> QED
    BY <2>2 DEF SupportIsCount, HeldIsSupported
<1> QED
  BY <1>4, <1>5

\* Reaching a consensus on the hash h of variant i: it is recorded, and the
\* processor holds h, if it did not hold something else under that record.
LEMMA ReachedHolds ==
  ASSUME TypeOK, Started, NEW rs \in ReportingState, NEW h, NEW i \in Nat \ {0},
         ConsensusReached(rs, CurrentFrame, h, i),
         /\ rs.lastConsensusRefSlot = CurrentFrame.refSlot
         /\ rs.lastConsensusVariantIndex = i
         => /\ oracle[processor].refSlot = CurrentFrame.refSlot
            /\ oracle[processor].hash = h
  PROVE  /\ reporting'.lastReportRefSlot = rs.lastReportRefSlot
         /\ reporting'.lastConsensusRefSlot = CurrentFrame.refSlot
         /\ reporting'.lastConsensusVariantIndex = i
         /\ oracle'[processor].refSlot = CurrentFrame.refSlot
         /\ oracle'[processor].hash = h
<1>1. CurrentFrame.refSlot \in Nat
  BY OpenSlot
<1>2. CASE /\ rs.lastConsensusRefSlot = CurrentFrame.refSlot
           /\ rs.lastConsensusVariantIndex = i
  BY <1>2 DEF ConsensusReached
<1>3. CASE ~ /\ rs.lastConsensusRefSlot = CurrentFrame.refSlot
             /\ rs.lastConsensusVariantIndex = i
  <2>1. /\ reporting' = [rs EXCEPT !.lastConsensusRefSlot = CurrentFrame.refSlot,
                                   !.lastConsensusVariantIndex = i]
        /\ SubmitConsensusReport(processor, h, CurrentFrame.refSlot,
                                 CurrentFrame.deadlineSlot, now)
    BY <1>3 DEF ConsensusReached
  <2>2. processor \in Processors /\ oracle \in [Processors -> OracleState]
    BY DEF TypeOK
  <2>3. oracle'[processor].refSlot = CurrentFrame.refSlot /\ oracle'[processor].hash = h
    BY <2>1, <2>2 DEF SubmitConsensusReport, OracleState
  <2> QED
    BY <2>1, <2>3 DEF ReportingState
<1> QED
  BY <1>2, <1>3

\* Losing it: nothing is recorded for the slot, and nothing is held for it.
LEMMA NotReachedHolds ==
  ASSUME TypeOK, Started, CurrentFrame.refSlot # 0, NEW rs \in ReportingState,
         ConsensusNotReached(rs, CurrentFrame), UNCHANGED <<now, frameConfig, processor>>,
         IF rs.lastConsensusRefSlot = CurrentFrame.refSlot
         THEN oracle[processor].refSlot = CurrentFrame.refSlot
         ELSE HeldHashes = {}
  PROVE  /\ reporting'.lastReportRefSlot = rs.lastReportRefSlot
         /\ reporting'.lastConsensusRefSlot # CurrentFrame.refSlot
         /\ HeldHashes' = {}
<1>1. CurrentFrame.refSlot \in Nat /\ CurrentFrame' = CurrentFrame
  BY OpenSlot, FrameUnchanged
<1>2. CASE rs.lastConsensusRefSlot # CurrentFrame.refSlot
  <2>1. reporting' = rs /\ oracle' = oracle
    BY <1>2 DEF ConsensusNotReached
  <2> QED
    BY <1>1, <1>2, <2>1 DEF HeldHashes
<1>3. CASE rs.lastConsensusRefSlot = CurrentFrame.refSlot
  <2>1. /\ reporting' = [rs EXCEPT !.lastConsensusRefSlot = 0]
        /\ oracle' = [oracle EXCEPT ![processor].hash = ZeroHash]
    BY <1>1, <1>3 DEF ConsensusNotReached, DiscardConsensusReport
  <2>2. processor \in Processors /\ oracle \in [Processors -> OracleState]
    BY DEF TypeOK
  <2>3. oracle'[processor].hash = ZeroHash
    BY <2>1, <2>2 DEF OracleState
  <2> QED
    BY <1>1, <2>1, <2>3 DEF HeldHashes, ReportingState
<1> QED
  BY <1>2, <1>3

\* A change of the quorum, with the variants vs: what the processor holds agrees
\* with the counters again.
LEMMA QuorumChangeKeepsHeld ==
  ASSUME TypeOK, SlotsInv, HeldIsSupported, NEW q \in Nat, NEW t,
         variants' \in Seq(ReportVariant), Len(variants') = Len(variants),
         \A i \in 1..Len(variants) : variants'[i].hash = variants[i].hash,
         SetQuorumAndCheckConsensus(q, t, variants'),
         UNCHANGED <<now, frameConfig, processor>>
  PROVE  HeldIsSupported' /\ (VotingOpen' => VotingOpen)
<1> SUFFICES ASSUME VotingOpen' PROVE HeldIsSupported' /\ VotingOpen
  BY DEF HeldIsSupported
<1> DEFINE f   == CurrentFrame
           won == IF reporting.lastReportRefSlot = f.refSlot
                  THEN WithQuorum(variants', q) ELSE {}
<1>0. Len(variants) \in Nat /\ processor \in Processors
  BY LenProperties DEF TypeOK
<1>1. Started' = Started /\ CurrentFrame' = CurrentFrame /\ quorum' = q
  BY FrameUnchanged DEF SetQuorumAndCheckConsensus
<1>2. VotingOpen
  <2>1. \/ UNCHANGED oracle
        \/ ReportPushed(CurrentFrame.refSlot)
    BY QuorumChangeSlots DEF SlotsInv, ReportingFits
  <2>2. oracle'[processor].lastProcessing = oracle[processor].lastProcessing
    BY <1>0, <2>1 DEF ReportPushed
  <2> QED
    BY <1>1, <2>2 DEF VotingOpen, GetLastProcessingRefSlot
<1>3. /\ Started /\ f.refSlot \in Nat \ {0} /\ now <= f.deadlineSlot /\ now \in Nat
      /\ GetLastProcessingRefSlot < f.refSlot
      /\ f.deadlineSlot \in Nat /\ GetLastProcessingRefSlot \in Nat
      /\ oracle[processor].refSlot \in Nat
      /\ oracle[processor].refSlot <= f.refSlot
  <2>1. f.deadlineSlot \in Nat
    BY <1>2, TypeOKFacts, CurrentFrameTyped DEF VotingOpen
  <2> QED
    BY <1>2, <2>1, OpenSlot
       DEF VotingOpen, GetLastProcessingRefSlot, OracleState, SlotsInv, OraclesNotAhead, TypeOK
<1>4. /\ won = {} => ConsensusNotReached(reporting, f)
      /\ won # {} => \E i \in won : ConsensusReached(reporting, f, variants'[i].hash, i)
  <2>1. CheckConsensus(q, variants')
    BY <1>3 DEF SetQuorumAndCheckConsensus
  <2>2. ~(now > f.deadlineSlot \/ GetLastProcessingRefSlot >= f.refSlot)
    BY <1>3
  <2> QED
    BY <2>1, <2>2, Zenon DEF CheckConsensus
<1>5. CASE won = {}
  <2>1. /\ reporting'.lastReportRefSlot = reporting.lastReportRefSlot
        /\ reporting'.lastConsensusRefSlot # f.refSlot
        /\ HeldHashes' = {}
    BY <1>2, <1>3, <1>4, <1>5, NotReachedHolds DEF HeldIsSupported, TypeOK
  <2>2. VotesCast' => \A i \in 1..Len(variants') : variants'[i].support < quorum'
    <3> SUFFICES ASSUME VotesCast', NEW i \in 1..Len(variants')
                 PROVE  variants'[i].support < q
      BY <1>1
    <3>1. ~(variants'[i].support >= q)
      BY <1>1, <1>5, <2>1 DEF VotesCast, WithQuorum
    <3>2. variants'[i] \in ReportVariant
      BY ElementOfSeq
    <3> QED
      BY <3>1, <3>2 DEF ReportVariant
  <2> QED
    BY <1>1, <1>2, <2>1, <2>2 DEF HeldIsSupported
<1>6. CASE won # {}
  <2>1. PICK i \in won : ConsensusReached(reporting, f, variants'[i].hash, i)
    BY <1>4, <1>6
  <2>2. i \in 1..Len(variants') /\ variants'[i].support >= q /\ VotesCast
    BY <1>6 DEF WithQuorum, VotesCast
  <2>3. /\ reporting.lastConsensusRefSlot = f.refSlot
        /\ reporting.lastConsensusVariantIndex = i
        => /\ oracle[processor].refSlot = f.refSlot
           /\ oracle[processor].hash = variants'[i].hash
    BY <1>2, <2>2 DEF HeldIsSupported
  <2>4. /\ reporting'.lastReportRefSlot = reporting.lastReportRefSlot
        /\ reporting'.lastConsensusRefSlot = f.refSlot
        /\ reporting'.lastConsensusVariantIndex = i
        /\ oracle'[processor].refSlot = f.refSlot
        /\ oracle'[processor].hash = variants'[i].hash
    BY <1>0, <1>3, <2>1, <2>2, <2>3, ReachedHolds DEF TypeOK
  <2>5. VotesCast'
    BY <1>1, <2>2, <2>4 DEF VotesCast
  <2> QED
    BY <1>1, <1>2, <2>2, <2>4, <2>5 DEF HeldIsSupported
<1> QED
  BY <1>5, <1>6

\* The stored hashes are found under the indices they had.
SameVariants == /\ Len(variants') = Len(variants)
                /\ \A i \in 1..Len(variants) : variants'[i].hash = variants[i].hash

\* Reports of members are kept or, when they leave or join, forgotten.
ReportsKept == /\ \A a \in Addresses : memberState'[a] \in {memberState[a], NoReport}
               /\ \A a \in Addresses \ MemberSet' : memberState'[a].lastReportRefSlot = 0

\* A quorum change leaves the slot of the last report alone.
LEMMA QuorumChangeReports ==
  ASSUME TypeOK, SlotsInv, NEW q \in Nat, NEW t, variants' \in Seq(ReportVariant), SameVariants,
         SetQuorumAndCheckConsensus(q, t, variants')
  PROVE  /\ reporting'.lastReportRefSlot = reporting.lastReportRefSlot
         /\ quorum' = q /\ q > t \div 2
BY QuorumChangeSlots DEF SlotsInv, ReportingFits, SameVariants, SetQuorumAndCheckConsensus

\* A change of the committee keeps the invariant when it keeps the counters true.
LEMMA CommitteeChangeKeepsCount ==
  ASSUME TypeOK, SlotsInv, CountInv, TypeOK', NEW q \in Nat,
         SetQuorumAndCheckConsensus(q, Len(members'), variants'),
         SameVariants, ReportsKept, UNCHANGED <<now, frameConfig, processor, switches>>,
         switches = 0 /\ VotingOpen /\ VotesCast =>
           \A i \in 1..Len(variants') : variants'[i].support = Cardinality(Voters(i)')
  PROVE  CountInv'
<1>1. variants' \in Seq(ReportVariant) /\ Len(variants) \in Nat
  BY LenProperties DEF TypeOK
<1>2. /\ reporting'.lastReportRefSlot = reporting.lastReportRefSlot
      /\ quorum' = q /\ q > Len(members') \div 2
  BY <1>1, QuorumChangeReports
<1>3. VoteRecords'
  <2>1. reporting'.lastReportRefSlot = 0 => variants' = <<>>
    <3>1. variants = <<>> => variants' = <<>>
      BY <1>1, EmptySeq DEF SameVariants
    <3> QED
      BY <1>2, <3>1 DEF CountInv, VoteRecords
  <2>2. \A i, j \in 1..Len(variants') : variants'[i].hash = variants'[j].hash => i = j
    BY DEF CountInv, VoteRecords, SameVariants
  <2>3. ASSUME NEW a \in Addresses
        PROVE  /\ memberState'[a].lastReportRefSlot <= reporting'.lastReportRefSlot
               /\ /\ memberState'[a].lastReportRefSlot # 0
                  /\ memberState'[a].lastReportRefSlot = reporting'.lastReportRefSlot
                  => memberState'[a].lastReportVariantIndex \in 1..Len(variants')
    <3>1. CASE memberState'[a] = memberState[a]
      BY <1>2, <3>1 DEF CountInv, VoteRecords, SameVariants
    <3>2. CASE memberState'[a] = NoReport
      BY <1>2, <3>2, OpenSlot DEF NoReport
    <3> QED
      BY <3>1, <3>2 DEF ReportsKept
  <2> QED
    BY <2>1, <2>2, <2>3 DEF VoteRecords, ReportsKept
<1>4. QuorumIsMajority'
  BY <1>2 DEF QuorumIsMajority
<1>5. ASSUME switches = 0 PROVE SupportIsCount' /\ HeldIsSupported'
  <2>1. HeldIsSupported' /\ (VotingOpen' => VotingOpen)
    BY <1>1, <1>5, QuorumChangeKeepsHeld DEF CountInv, SameVariants
  <2>2. VotesCast' => VotesCast
    BY <1>2, FrameUnchanged DEF VotesCast
  <2> QED
    BY <1>5, <2>1, <2>2 DEF SupportIsCount
<1> QED
  BY <1>3, <1>4, <1>5 DEF CountInv

\* The members after one is added.
LEMMA AddedMemberSet ==
  ASSUME TypeOK, NEW a \in Addresses, NEW q, AddMember(a, q)
  PROVE  /\ a \notin MemberSet /\ MemberSet' = MemberSet \cup {a}
         /\ Len(members') = Len(members) + 1
<1>1. /\ Len(members') = Len(members) + 1
      /\ \A i \in 1..Len(members) : members'[i] = members[i]
      /\ members'[Len(members) + 1] = a
      /\ Len(members) \in Nat
  BY AppendProperties, LenProperties DEF AddMember, TypeOK
<1> QED
  BY <1>1 DEF AddMember, MemberSet

\* addMember adds one member, without a vote.
LEMMA AddMemberKeepsCount ==
  ASSUME TypeOK, SlotsInv, CountInv, TypeOK', NEW a \in Addresses, NEW q \in Nat, AddMember(a, q)
  PROVE  CountInv'
<1>1. Len(members') = Len(members) + 1 /\ MemberSet' = MemberSet \cup {a} /\ a \notin MemberSet
  BY AddedMemberSet
<1>2. /\ memberState' = [memberState EXCEPT ![a] = NoReport]
      /\ memberState \in [Addresses -> MemberState]
  BY DEF AddMember, TypeOK
<1>3. SameVariants /\ ReportsKept
  BY <1>1, <1>2 DEF AddMember, SameVariants, ReportsKept, CountInv, VoteRecords
<1>4. ASSUME switches = 0, VotingOpen, VotesCast
      PROVE  \A i \in 1..Len(variants') : variants'[i].support = Cardinality(Voters(i)')
  <2>1. CurrentFrame' = CurrentFrame /\ CurrentFrame.refSlot # 0
    BY <1>4, OpenSlot, FrameUnchanged DEF AddMember
  <2>2. \A i : Voters(i)' = Voters(i)
    BY <1>1, <1>2, <2>1, MembersAreAddresses DEF Voters, NoReport
  <2> QED
    BY <1>4, <2>2 DEF CountInv, SupportIsCount, AddMember
<1> QED
  BY <1>1, <1>3, <1>4, CommitteeChangeKeepsCount DEF AddMember, processorVars

\* A quorum change alone leaves the votes as they are.
LEMMA SetQuorumKeepsCount ==
  ASSUME TypeOK, SlotsInv, CountInv, TypeOK', NEW q \in Nat, SetQuorum(q)
  PROVE  CountInv'
<1>1. SameVariants /\ ReportsKept
  BY DEF SetQuorum, SameVariants, ReportsKept, CountInv, VoteRecords, MemberSet
<1>2. ASSUME switches = 0, VotingOpen, VotesCast
      PROVE  \A i \in 1..Len(variants') : variants'[i].support = Cardinality(Voters(i)')
  <2>1. CurrentFrame' = CurrentFrame /\ MemberSet' = MemberSet /\ memberState' = memberState
    BY FrameUnchanged DEF SetQuorum, MemberSet
  <2>2. \A i : Voters(i)' = Voters(i)
    BY <2>1 DEF Voters
  <2> QED
    BY <1>2, <2>2 DEF CountInv, SupportIsCount, SetQuorum
<1> QED
  BY <1>1, <1>2, CommitteeChangeKeepsCount DEF SetQuorum, processorVars

\* The members left by the removal of one.
LEMMA RemovedMemberSet ==
  ASSUME TypeOK, NEW a \in MemberSet, members' = SwapRemove(members, MemberIndex(a))
  PROVE  MemberSet' = MemberSet \ {a} /\ Len(members') = Len(members) - 1
<1> DEFINE n == Len(members)
           m == MemberIndex(a)
<1>1. n \in Nat /\ m \in 1..n /\ members[m] = a
  BY MemberIndexInRange, LenProperties DEF TypeOK
<1>2. /\ Len(members') = n - 1
      /\ \A j \in 1..n - 1 : members'[j] = IF j = m THEN members[n] ELSE members[j]
  BY <1>1, SwapRemoveSeq DEF TypeOK
<1>3. \A i, j \in 1..n : members[i] = members[j] => i = j
  BY DEF TypeOK
<1> HIDE DEF n, m
<1>4. ASSUME NEW j \in 1..n - 1 PROVE members'[j] \in MemberSet \ {a}
  BY <1>1, <1>2, <1>3 DEF MemberSet, n
<1>5. ASSUME NEW b \in MemberSet \ {a} PROVE \E j \in 1..n - 1 : members'[j] = b
  <2>1. PICK i \in 1..n : members[i] = b
    BY DEF MemberSet, n
  <2>2. i # m
    BY <1>1, <2>1
  <2>3. CASE i = n
    BY <1>1, <1>2, <2>1, <2>2, <2>3, m \in 1..n - 1
  <2>4. CASE i # n
    BY <1>1, <1>2, <2>1, <2>2, <2>4, i \in 1..n - 1
  <2> QED
    BY <2>3, <2>4
<1>6. MemberSet' = {members'[j] : j \in 1..n - 1}
  BY <1>2 DEF MemberSet
<1> QED
  BY <1>2, <1>4, <1>5, <1>6 DEF n

\* removeMember lowers the support of a variant, and changes no hash.
LEMMA RemovedVariants ==
  ASSUME TypeOK, TypeOK', NEW a \in Addresses, NEW q, RemoveMember(a, q)
  PROVE  SameVariants
<1> DEFINE k == memberState[a].lastReportVariantIndex
<1>0. /\ variants' = IF VoteIsOpen(a) THEN [variants EXCEPT ![k].support = @ - 1] ELSE variants
      /\ variants \in Seq(ReportVariant) /\ variants' \in Seq(ReportVariant)
  BY DEF RemoveMember, TypeOK
<1> HIDE DEF k
<1>1. DOMAIN variants' = DOMAIN variants
  BY <1>0
<1>2. Len(variants') = Len(variants) /\ DOMAIN variants = 1..Len(variants)
  BY <1>0, <1>1, LenProperties
<1>3. ASSUME NEW i \in 1..Len(variants) PROVE variants'[i].hash = variants[i].hash
  <2>1. variants[i] \in ReportVariant
    BY <1>0, ElementOfSeq
  <2> QED
    BY <1>0, <1>2, <2>1 DEF ReportVariant
<1> QED
  BY <1>2, <1>3 DEF SameVariants

\* removeMember takes one member and, where it still counts, its vote.
LEMMA RemoveMemberKeepsCount ==
  ASSUME TypeOK, SlotsInv, CountInv, TypeOK', NEW a \in Addresses, NEW q \in Nat,
         RemoveMember(a, q)
  PROVE  CountInv'
<1> DEFINE k == memberState[a].lastReportVariantIndex
<1>0. /\ variants' = IF VoteIsOpen(a) THEN [variants EXCEPT ![k].support = @ - 1] ELSE variants
      /\ UNCHANGED <<now, frameConfig, processor, switches>>
      /\ variants \in Seq(ReportVariant) /\ variants' \in Seq(ReportVariant)
  BY DEF RemoveMember, TypeOK, processorVars
<1>1. a \in MemberSet /\ MemberSet' = MemberSet \ {a} /\ Len(members') = Len(members) - 1
  BY RemovedMemberSet DEF RemoveMember
<1>2. /\ memberState' = [memberState EXCEPT ![a] = NoReport]
      /\ memberState \in [Addresses -> MemberState]
  BY DEF RemoveMember, TypeOK
<1>3. ReportsKept
  BY <1>1, <1>2 DEF ReportsKept, CountInv, VoteRecords, NoReport
<1> HIDE DEF k
<1>4. SameVariants
  BY <1>0, RemovedVariants
<1>5. ASSUME switches = 0, VotingOpen, VotesCast, NEW i \in 1..Len(variants')
      PROVE  variants'[i].support = Cardinality(Voters(i)')
  <2>1. CurrentFrame' = CurrentFrame /\ CurrentFrame.refSlot \in Nat \ {0}
    BY <1>0, <1>5, OpenSlot, FrameUnchanged
  <2>2. Voters(i)' = Voters(i) \ {a}
    BY <1>1, <1>2, <2>1 DEF Voters, NoReport
  <2>3. IsFiniteSet(Voters(i))
    BY MembersCounted, FS_Subset DEF Voters
  <2>4. i \in 1..Len(variants) /\ variants[i].support = Cardinality(Voters(i))
    BY <1>4, <1>5 DEF CountInv, SupportIsCount, SameVariants
  <2>5. a \in Voters(i) <=> VoteIsOpen(a) /\ i = k
    <3>1. memberState[a].lastReportRefSlot \in Nat
      BY <1>2 DEF MemberState
    <3> QED
      BY <1>1, <1>5, <2>1, <3>1 DEF Voters, VoteIsOpen, VotingOpen, k
  <2>6. variants[i] \in ReportVariant /\ DOMAIN variants = 1..Len(variants)
    BY <1>0, <2>4, ElementOfSeq, LenProperties
  <2>7. variants'[i].support = IF VoteIsOpen(a) /\ i = k
                               THEN variants[i].support - 1 ELSE variants[i].support
    BY <1>0, <2>4, <2>6 DEF ReportVariant
  <2> QED
    BY <2>2, <2>3, <2>4, <2>5, <2>7, FS_RemoveElement
<1>6. SetQuorumAndCheckConsensus(q, Len(members'), variants')
  BY <1>1 DEF RemoveMember
<1> QED
  BY <1>0, <1>3, <1>4, <1>5, <1>6, CommitteeChangeKeepsCount

\* The table of variants after a vote of a for h: the variant i of h gains one
\* supporter, and the one that a had voted for in this frame loses one.
LEMMA VoteTable ==
  ASSUME TypeOK, NEW a \in Addresses, NEW h \in Hashes, SubmitReport(a, h)
  PROVE  LET r     == CurrentFrame.refSlot
             old   == VariantsFor(r)
             prev  == memberState[a].lastReportVariantIndex
             again == memberState[a].lastReportRefSlot = r
             lost  == again /\ old[prev].support = quorum
             rs    == [reporting EXCEPT !.lastReportRefSlot = r]
         IN /\ VotingOpen /\ a \in MemberSet
            /\ Len(old) \in Nat /\ \A j \in 1..Len(old) : old[j] \in ReportVariant
            /\ again => prev \in 1..Len(old)
            /\ \E i \in 1..Len(old) + 1 :
                 /\ IsVariantIndex(old, h, i)
                 /\ again => prev # i
                 /\ Len(variants') = IF i <= Len(old) THEN Len(old) ELSE Len(old) + 1
                 /\ variants'[i].hash = h
                 /\ variants'[i].support = IF i <= Len(old) THEN old[i].support + 1 ELSE 1
                 /\ \A j \in 1..Len(old) : j # i =>
                      /\ variants'[j].hash = old[j].hash
                      /\ variants'[j].support = IF again /\ j = prev THEN old[j].support - 1
                                                                   ELSE old[j].support
                 /\ memberState' = [memberState EXCEPT ![a] =
                        [lastReportRefSlot |-> r, lastReportVariantIndex |-> i]]
                 /\ IF variants'[i].support >= quorum
                    THEN ConsensusReached(rs, CurrentFrame, h, i)
                    ELSE IF lost THEN ConsensusNotReached(rs, CurrentFrame)
                    ELSE reporting' = rs /\ UNCHANGED oracle
<1> DEFINE r       == CurrentFrame.refSlot
           old     == VariantsFor(r)
           prev    == memberState[a].lastReportVariantIndex
           again   == memberState[a].lastReportRefSlot = r
           lowered == IF again THEN [old EXCEPT ![prev].support = @ - 1] ELSE old
           lost    == again /\ lowered[prev].support = quorum - 1
           rs      == [reporting EXCEPT !.lastReportRefSlot = r]
<1>1. VotingOpen /\ a \in MemberSet
  BY OpenSlot DEF SubmitReport, VoteAccepted, VotingOpen, GetLastProcessingRefSlot, OracleState
<1>2. /\ old \in Seq(ReportVariant) /\ Len(old) \in Nat /\ DOMAIN old = 1..Len(old)
      /\ \A j \in 1..Len(old) : old[j] \in ReportVariant
  BY VariantsForTyped, LenProperties, ElementOfSeq
<1>3. prev \in Nat \ {0}
  BY DEF TypeOK, MemberState
<1>4. again => prev \in 1..Len(old) /\ ~IsVariantIndex(old, h, prev)
  BY <1>2, <1>3 DEF SubmitReport, VoteAccepted
<1>5. PICK i \in 1..Len(old) + 1 :
        /\ IsVariantIndex(old, h, i)
        /\ variants' = IF i <= Len(old)
                       THEN [lowered EXCEPT ![i].support = @ + 1]
                       ELSE Append(lowered, [hash |-> h, support |-> 1])
        /\ memberState' = [memberState EXCEPT ![a] =
               [lastReportRefSlot |-> r, lastReportVariantIndex |-> i]]
        /\ IF variants'[i].support >= quorum THEN ConsensusReached(rs, CurrentFrame, h, i)
           ELSE IF lost THEN ConsensusNotReached(rs, CurrentFrame)
           ELSE reporting' = rs /\ UNCHANGED oracle
  BY DEF SubmitReport
<1> HIDE DEF old, prev, again, rs, r
<1>6. /\ \A j \in 1..Len(old) :
           lowered[j] = IF again /\ j = prev THEN [old[j] EXCEPT !.support = @ - 1] ELSE old[j]
      /\ DOMAIN lowered = 1..Len(old)
  BY <1>2
<1>7. lowered \in Seq([hash : Hashes, support : Int]) /\ Len(lowered) = Len(old)
  <2>1. \A j \in 1..Len(old) : lowered[j] \in [hash : Hashes, support : Int]
    BY <1>2, <1>6 DEF ReportVariant
  <2>2. lowered = [j \in 1..Len(old) |-> lowered[j]]
    <3>1. CASE again
      BY <1>2, <3>1
    <3>2. CASE ~again
      <4>1. old = [j \in 1..Len(old) |-> old[j]]
        BY <1>2, LenProperties
      <4> QED
        BY <3>2, <4>1
    <3> QED
      BY <3>1, <3>2
  <2> HIDE DEF lowered
  <2>3. lowered \in [1..Len(old) -> [hash : Hashes, support : Int]]
    BY <2>1, <2>2
  <2>4. lowered \in Seq([hash : Hashes, support : Int])
    <3> DEFINE T == [hash : Hashes, support : Int]
               n == Len(old)
    <3>1. n \in Nat /\ lowered \in [1..n -> T]
      BY <1>2, <2>3
    <3> HIDE DEF T, n
    <3>2. Seq(T) = UNION {[1..m -> T] : m \in Nat}
      BY SeqDef
    <3>3. lowered \in Seq(T)
      BY Zenon, <3>1, <3>2
    <3> QED
      BY <3>3 DEF T
  <2> QED
    BY <1>2, <1>6, <2>4, LenProperties
<1>8. lost <=> again /\ old[prev].support = quorum
  BY <1>2, <1>4, <1>6 DEF ReportVariant, TypeOK
<1> HIDE DEF lowered, lost
<1>9. /\ Len(variants') = IF i <= Len(old) THEN Len(old) ELSE Len(old) + 1
      /\ variants'[i].hash = h
      /\ variants'[i].support = IF i <= Len(old) THEN old[i].support + 1 ELSE 1
      /\ \A j \in 1..Len(old) : j # i =>
           /\ variants'[j].hash = old[j].hash
           /\ variants'[j].support = IF again /\ j = prev THEN old[j].support - 1
                                                        ELSE old[j].support
  <2>1. \A j \in 1..Len(old) :
          /\ lowered[j].hash = old[j].hash
          /\ lowered[j].support = IF again /\ j = prev THEN old[j].support - 1 ELSE old[j].support
    BY <1>2, <1>6 DEF ReportVariant
  <2>2. CASE i <= Len(old)
    <3>0. lowered[i] \in [hash : Hashes, support : Int]
      BY <1>2, <1>6, <2>2 DEF ReportVariant
    <3>1. variants' = [lowered EXCEPT ![i] = [lowered[i] EXCEPT !.support = @ + 1]]
      BY <1>5, <2>2
    <3>2. /\ Len(variants') = Len(old)
          /\ \A j \in 1..Len(old) :
               variants'[j] = IF j = i THEN [lowered[i] EXCEPT !.support = @ + 1] ELSE lowered[j]
      <4>1. [lowered[i] EXCEPT !.support = @ + 1] \in [hash : Hashes, support : Int]
        BY <3>0
      <4> QED
        BY <1>7, <2>2, <3>1, <4>1, ExceptSeq
    <3>3. old[i].hash = h /\ ~(again /\ i = prev)
      BY <1>4, <1>5, <2>2 DEF IsVariantIndex
    <3> QED
      BY <2>1, <2>2, <3>0, <3>2, <3>3
  <2>3. CASE ~(i <= Len(old))
    <3>1. i = Len(old) + 1
      BY <1>2, <2>3
    <3>2. /\ Len(variants') = Len(old) + 1
          /\ variants'[i] = [hash |-> h, support |-> 1]
          /\ \A j \in 1..Len(old) : variants'[j] = lowered[j]
      BY <1>2, <1>5, <1>7, <2>3, <3>1, AppendProperties
    <3> QED
      BY <2>1, <2>3, <3>2
  <2> QED
    BY <2>2, <2>3
<1>10. again => prev # i
  BY <1>4, <1>5
<1> QED
  BY <1>1, <1>2, <1>4, <1>5, <1>8, <1>9, <1>10 DEF old, prev, again, rs, r

\* Two variants cannot both have a majority.
LEMMA OneMajority ==
  ASSUME TypeOK, quorum > Len(members) \div 2, NEW i, NEW j, i # j,
         Cardinality(Voters(i)) >= quorum
  PROVE  Cardinality(Voters(j)) < quorum
<1>1. /\ IsFiniteSet(MemberSet) /\ Cardinality(MemberSet) = Len(members)
      /\ Voters(i) \subseteq MemberSet /\ Voters(j) \subseteq MemberSet
      /\ Voters(i) \cap Voters(j) = {}
  BY MembersCounted DEF Voters
<1>2. Cardinality(Voters(i)) \in Nat /\ Cardinality(Voters(j)) \in Nat
  BY <1>1, FS_Subset, FS_CardinalityType
<1>3. Cardinality(Voters(i)) + Cardinality(Voters(j)) <= Len(members)
  BY <1>1, <1>2, FS_MajoritiesIntersect, MemberIndexUnique
<1>4. Len(members) \in Nat /\ quorum \in Nat
  BY MemberIndexUnique DEF TypeOK
<1> QED
  BY <1>2, <1>3, <1>4

\* A quorum is a majority once there is a member or a vote.
LEMMA MajorityWithMembers ==
  ASSUME TypeOK, QuorumIsMajority, MemberSet # {} \/ reporting.lastReportRefSlot # 0
  PROVE  quorum > Len(members) \div 2
BY EmptySeq DEF QuorumIsMajority, MemberSet

\* Before a vote: whose votes the variants of the current slot count.
LEMMA VotersBefore ==
  ASSUME TypeOK, SlotsInv, CountInv, switches = 0, VotingOpen
  PROVE  LET old == VariantsFor(CurrentFrame.refSlot)
         IN /\ \A j \in 1..Len(old) : old[j].support = Cardinality(Voters(j))
            /\ Voters(Len(old) + 1) = {}
            /\ \A j : IsFiniteSet(Voters(j)) /\ Cardinality(Voters(j)) \in Nat
<1> DEFINE r   == CurrentFrame.refSlot
           old == VariantsFor(r)
<1>1. \A j : IsFiniteSet(Voters(j)) /\ Cardinality(Voters(j)) \in Nat
  BY MembersCounted, FS_Subset, FS_CardinalityType DEF Voters
<1>2. r \in Nat \ {0}
  BY OpenSlot
<1>3. CASE VotesCast
  <2>1. old = variants /\ Len(variants) \in Nat
    BY <1>3, LenProperties DEF VotesCast, VariantsFor, TypeOK
  <2>2. Voters(Len(old) + 1) = {}
    <3> SUFFICES ASSUME NEW a \in Voters(Len(old) + 1) PROVE FALSE
      OBVIOUS
    <3>1. memberState[a].lastReportVariantIndex \in 1..Len(variants)
      BY <1>2, <1>3, MembersAreAddresses DEF CountInv, VoteRecords, Voters, VotesCast
    <3> QED
      BY <2>1, <3>1 DEF Voters
  <2> QED
    BY <1>1, <1>3, <2>1, <2>2 DEF CountInv, SupportIsCount
<1>4. CASE ~VotesCast
  <2>1. old = <<>> /\ Len(old) = 0
    BY <1>4, EmptySeq DEF VotesCast, VariantsFor
  <2>2. Voters(Len(old) + 1) = {}
    <3> SUFFICES ASSUME NEW a \in Voters(Len(old) + 1) PROVE FALSE
      OBVIOUS
    <3>1. /\ memberState[a].lastReportRefSlot = r
          /\ memberState[a].lastReportRefSlot <= reporting.lastReportRefSlot
      BY MembersAreAddresses DEF CountInv, VoteRecords, Voters
    <3>2. reporting.lastReportRefSlot < r
      BY <1>2, <1>4, OpenSlot DEF VotesCast, SlotsInv
    <3> QED
      BY <1>2, <3>1, <3>2, OpenSlot
  <2> QED
    BY <1>1, <2>1, <2>2
<1> QED
  BY <1>3, <1>4

\* A vote moves the voter from the variant it voted for to the one it votes for.
LEMMA SubmitKeepsCount ==
  ASSUME TypeOK, SlotsInv, CountInv, TypeOK', NEW a \in Addresses, NEW h \in Hashes,
         SubmitReport(a, h)
  PROVE  CountInv'
<1> DEFINE r     == CurrentFrame.refSlot
           old   == VariantsFor(r)
           prev  == memberState[a].lastReportVariantIndex
           again == memberState[a].lastReportRefSlot = r
           lost  == again /\ old[prev].support = quorum
           rs    == [reporting EXCEPT !.lastReportRefSlot = r]
<1>1. /\ VotingOpen /\ a \in MemberSet
      /\ Len(old) \in Nat /\ \A j \in 1..Len(old) : old[j] \in ReportVariant
      /\ again => prev \in 1..Len(old)
  BY VoteTable
<1>2. PICK i \in 1..Len(old) + 1 :
        /\ IsVariantIndex(old, h, i)
        /\ again => prev # i
        /\ Len(variants') = IF i <= Len(old) THEN Len(old) ELSE Len(old) + 1
        /\ variants'[i].hash = h
        /\ variants'[i].support = IF i <= Len(old) THEN old[i].support + 1 ELSE 1
        /\ \A j \in 1..Len(old) : j # i =>
             /\ variants'[j].hash = old[j].hash
             /\ variants'[j].support = IF again /\ j = prev THEN old[j].support - 1
                                                          ELSE old[j].support
        /\ memberState' = [memberState EXCEPT ![a] =
               [lastReportRefSlot |-> r, lastReportVariantIndex |-> i]]
        /\ IF variants'[i].support >= quorum
           THEN ConsensusReached(rs, CurrentFrame, h, i)
           ELSE IF lost THEN ConsensusNotReached(rs, CurrentFrame)
           ELSE reporting' = rs /\ UNCHANGED oracle
  BY VoteTable
<1>3. /\ r \in Nat \ {0} /\ Started
      /\ reporting.lastReportRefSlot \in Nat /\ reporting.lastConsensusRefSlot \in Nat
      /\ reporting.lastReportRefSlot <= r
      /\ reporting.lastConsensusRefSlot <= reporting.lastReportRefSlot
  BY <1>1, OpenSlot DEF SlotsInv
<1>4. /\ UNCHANGED <<now, frameConfig, members, quorum, processor, switches>>
      /\ CurrentFrame' = CurrentFrame /\ MemberSet' = MemberSet
  BY FrameUnchanged DEF SubmitReport, processorVars, MemberSet
<1>5. /\ rs \in ReportingState /\ rs.lastReportRefSlot = r
      /\ rs.lastConsensusRefSlot = reporting.lastConsensusRefSlot
      /\ rs.lastConsensusVariantIndex = reporting.lastConsensusVariantIndex
  BY <1>3 DEF TypeOK, ReportingState
<1>6. quorum > Len(members) \div 2 /\ quorum \in Nat
  BY <1>1, MajorityWithMembers DEF CountInv, TypeOK
<1>7. VotesCast => old = variants
  BY DEF VotesCast, VariantsFor
<1>8. ~VotesCast => Len(old) = 0
  BY EmptySeq DEF VotesCast, VariantsFor
<1>9. memberState \in [Addresses -> MemberState]
  BY DEF TypeOK
<1>10. reporting'.lastReportRefSlot = r
  BY <1>2, <1>5 DEF ConsensusReached, ConsensusNotReached, ReportingState
<1> HIDE DEF r, old, prev, again, lost, rs
<1>11. VoteRecords'
  <2>1. ASSUME NEW j \in 1..Len(variants'), NEW k \in 1..Len(variants'),
               variants'[j].hash = variants'[k].hash
        PROVE  j = k
    <3>1. \A m \in 1..Len(old) : m # i => old[m].hash # h
      <4> SUFFICES ASSUME NEW m \in 1..Len(old), m # i, old[m].hash = h PROVE FALSE
        OBVIOUS
      <4>1. CASE i <= Len(old)
        <5>1. old[i].hash = h /\ VotesCast
          BY <1>1, <1>2, <1>8, <4>1 DEF IsVariantIndex
        <5> QED
          BY <1>1, <1>2, <1>7, <4>1, <5>1 DEF CountInv, VoteRecords
      <4>2. CASE i = Len(old) + 1
        BY <1>1, <1>2, <4>2 DEF IsVariantIndex
      <4> QED
        BY <1>1, <1>2, <4>1, <4>2
    <3>2. \A m \in 1..Len(variants') : m # i => m \in 1..Len(old)
      BY <1>1, <1>2
    <3>3. CASE j = i \/ k = i
      BY <1>2, <2>1, <3>1, <3>2, <3>3
    <3>4. CASE j # i /\ k # i
      <4>1. j \in 1..Len(old) /\ k \in 1..Len(old) /\ old[j].hash = old[k].hash
        BY <1>2, <2>1, <3>2, <3>4
      <4> QED
        BY <1>1, <1>7, <1>8, <4>1 DEF CountInv, VoteRecords
    <3> QED
      BY <3>3, <3>4
  <2>2. ASSUME NEW b \in Addresses
        PROVE  /\ memberState'[b].lastReportRefSlot <= r
               /\ b \notin MemberSet => memberState'[b].lastReportRefSlot = 0
               /\ memberState'[b].lastReportRefSlot = r
                  => memberState'[b].lastReportVariantIndex \in 1..Len(variants')
    <3>1. CASE b = a
      BY <1>1, <1>2, <1>3, <1>9, <3>1
    <3>2. CASE b # a
      <4>1. memberState'[b] = memberState[b] /\ memberState[b].lastReportRefSlot \in Nat
        BY <1>2, <1>9, <3>2 DEF MemberState
      <4>2. memberState[b].lastReportRefSlot <= reporting.lastReportRefSlot
        BY DEF CountInv, VoteRecords
      <4>3. CASE memberState[b].lastReportRefSlot = r
        <5>1. reporting.lastReportRefSlot = r
          BY <1>3, <4>1, <4>2, <4>3
        <5>2. VotesCast /\ old = variants
          BY <1>7, <5>1 DEF VotesCast, r
        <5>3. memberState[b].lastReportVariantIndex \in 1..Len(old)
          BY <1>3, <4>3, <5>1, <5>2 DEF CountInv, VoteRecords
        <5>4. memberState'[b].lastReportVariantIndex \in 1..Len(variants')
          BY <1>1, <1>2, <4>1, <5>3
        <5> QED
          BY <1>3, <4>1, <4>3, <5>4 DEF CountInv, VoteRecords
      <4> QED
        BY <1>3, <4>1, <4>2, <4>3 DEF CountInv, VoteRecords
    <3> QED
      BY <3>1, <3>2
  <2> QED
    BY <1>3, <1>4, <1>10, <2>1, <2>2 DEF VoteRecords
<1>12. QuorumIsMajority'
  BY <1>4, <1>6 DEF QuorumIsMajority
<1>13. ASSUME switches = 0 PROVE SupportIsCount' /\ HeldIsSupported'
  <2>1. /\ \A j \in 1..Len(old) : old[j].support = Cardinality(Voters(j))
        /\ Voters(Len(old) + 1) = {}
        /\ \A j : IsFiniteSet(Voters(j)) /\ Cardinality(Voters(j)) \in Nat
    BY <1>1, <1>13, VotersBefore DEF old, r
  <2>2. \A j : a \in Voters(j) <=> again /\ j = prev
    BY <1>1 DEF Voters, again, prev, r
  <2>3. \A j : Voters(j)' = IF j = i THEN Voters(j) \cup {a} ELSE Voters(j) \ {a}
    <3> TAKE j
    <3>1. \A b \in MemberSet : b # a => memberState'[b] = memberState[b]
      BY <1>2, <1>9, MembersAreAddresses
    <3>2. memberState'[a].lastReportRefSlot = r /\ memberState'[a].lastReportVariantIndex = i
      BY <1>2, <1>9
    <3> QED
      BY <1>1, <1>4, <3>1, <3>2 DEF Voters, r
  <2>4. \A j \in 1..Len(variants') : variants'[j].support = Cardinality(Voters(j)')
    <3> TAKE j \in 1..Len(variants')
    <3>1. CASE j = i
      <4>1. Voters(i)' = Voters(i) \cup {a} /\ a \notin Voters(i)
        BY <1>2, <2>2, <2>3
      <4>2. Cardinality(Voters(i)') = Cardinality(Voters(i)) + 1
        BY <2>1, <4>1, FS_AddElement
      <4>3. CASE i <= Len(old)
        BY <1>1, <1>2, <2>1, <3>1, <4>2, <4>3
      <4>4. CASE i = Len(old) + 1
        BY <1>1, <1>2, <2>1, <3>1, <4>2, <4>4, FS_EmptySet
      <4> QED
        BY <1>1, <1>2, <4>3, <4>4
    <3>2. CASE j # i
      <4>1. j \in 1..Len(old) /\ Voters(j)' = Voters(j) \ {a}
        BY <1>1, <1>2, <2>3, <3>2
      <4>2. Cardinality(Voters(j)') = IF again /\ j = prev THEN Cardinality(Voters(j)) - 1
                                                            ELSE Cardinality(Voters(j))
        BY <2>1, <2>2, <4>1, FS_RemoveElement
      <4> QED
        BY <1>2, <2>1, <3>2, <4>1, <4>2
    <3> QED
      BY <3>1, <3>2
  <2>5. HeldIsSupported
    BY <1>13 DEF CountInv
  <2>6. VotesCast'
    BY <1>4, <1>10 DEF VotesCast, r
  <2>7. CASE variants'[i].support >= quorum
    <3>1. ConsensusReached(rs, CurrentFrame, h, i)
      BY <1>2, <2>7
    <3>2. rs.lastConsensusRefSlot = r /\ rs.lastConsensusVariantIndex = i
          => oracle[processor].refSlot = r /\ oracle[processor].hash = h
      <4> SUFFICES ASSUME reporting.lastConsensusRefSlot = r,
                          reporting.lastConsensusVariantIndex = i
                   PROVE  oracle[processor].refSlot = r /\ oracle[processor].hash = h
        BY <1>5
      <4>1. /\ VotesCast /\ i \in 1..Len(variants)
            /\ oracle[processor].refSlot = r
            /\ oracle[processor].hash = variants[i].hash
        BY <1>1, <2>5 DEF HeldIsSupported, r
      <4>2. variants[i].hash = h
        BY <1>2, <1>7, <4>1 DEF IsVariantIndex
      <4> QED
        BY <4>1, <4>2
    <3>3. i \in Nat \ {0}
      BY <1>1, <1>2
    <3>4. /\ reporting'.lastConsensusRefSlot = r
          /\ reporting'.lastConsensusVariantIndex = i
          /\ oracle'[processor].refSlot = r
          /\ oracle'[processor].hash = h
      BY <1>3, <1>5, <3>1, <3>2, <3>3, ReachedHolds DEF r
    <3>5. i \in 1..Len(variants')
      BY <1>1, <1>2
    <3>6. HeldIsSupported'
      BY <1>2, <1>4, <2>6, <2>7, <3>4, <3>5 DEF HeldIsSupported, r
    <3> QED
      BY <2>4, <3>6 DEF SupportIsCount
  <2>8. CASE ~(variants'[i].support >= quorum) /\ lost
    <3>1. ConsensusNotReached(rs, CurrentFrame)
      BY <1>2, <2>8
    <3>2. IF rs.lastConsensusRefSlot = r THEN oracle[processor].refSlot = r ELSE HeldHashes = {}
      BY <1>1, <1>5, <2>5 DEF HeldIsSupported, r
    <3>3. reporting'.lastConsensusRefSlot # r /\ HeldHashes' = {}
      BY <1>3, <1>4, <1>5, <3>1, <3>2, NotReachedHolds DEF r
    <3>4. again /\ prev \in 1..Len(old) /\ Cardinality(Voters(prev)) = quorum
      BY <1>1, <2>1, <2>8 DEF lost
    <3>5. ASSUME NEW j \in 1..Len(variants') PROVE variants'[j].support < quorum
      <4>1. variants'[i].support \in Nat
        <5>1. i \in 1..Len(variants') /\ variants' \in Seq(ReportVariant)
          BY <1>1, <1>2 DEF TypeOK
        <5>2. variants'[i] \in ReportVariant
          BY <5>1, ElementOfSeq
        <5> QED
          BY <5>2 DEF ReportVariant
      <4>2. CASE j = i
        BY <1>6, <2>8, <4>1, <4>2
      <4>3. CASE j = prev /\ j # i
        BY <1>2, <1>6, <2>1, <3>4, <4>3
      <4>4. CASE j # prev /\ j # i
        <5>1. j \in 1..Len(old) /\ variants'[j].support = Cardinality(Voters(j))
          BY <1>1, <1>2, <2>1, <4>4
        <5> QED
          BY <1>6, <3>4, <4>4, <5>1, OneMajority
      <4> QED
        BY <4>2, <4>3, <4>4
    <3>6. HeldIsSupported'
      BY <1>4, <3>3, <3>5 DEF HeldIsSupported, r
    <3> QED
      BY <2>4, <3>6 DEF SupportIsCount
  <2>9. CASE ~(variants'[i].support >= quorum) /\ ~lost
    <3>1. reporting' = rs /\ oracle' = oracle
      BY <1>2, <2>9
    <3>2. \A j \in 1..Len(variants') : variants'[j].support \in Nat
      <4>1. \A j \in 1..Len(variants') : variants'[j] \in ReportVariant
        BY ElementOfSeq DEF TypeOK
      <4> QED
        BY <4>1 DEF ReportVariant
    <3>3. i \in 1..Len(variants')
      BY <1>1, <1>2
    <3>4. CASE reporting.lastConsensusRefSlot = r
      <4> DEFINE k == reporting.lastConsensusVariantIndex
      <4>1. /\ VotesCast /\ k \in 1..Len(variants) /\ variants[k].support >= quorum
            /\ oracle[processor].refSlot = r
            /\ oracle[processor].hash = variants[k].hash
        BY <1>1, <2>5, <3>4 DEF HeldIsSupported, r
      <4> HIDE DEF k
      <4>2. k \in 1..Len(old) /\ old = variants
        BY <1>7, <4>1
      <4>3. k # i
        BY <1>1, <1>2, <1>6, <2>1, <2>9, <4>1, <4>2, <3>2, <3>3
      <4>4. /\ k \in 1..Len(variants') /\ variants'[k].hash = variants[k].hash
            /\ variants'[k].support >= quorum
        <5>1. k \in 1..Len(variants') /\ variants'[k].hash = variants[k].hash
          BY <1>1, <1>2, <4>2, <4>3
        <5>2. CASE again /\ k = prev
          <6>1. variants'[k].support = old[k].support - 1 /\ old[k].support # quorum
            BY <1>2, <2>9, <4>2, <4>3, <5>2 DEF lost
          <6> QED
            BY <1>6, <2>1, <4>1, <4>2, <5>1, <6>1
        <5>3. CASE ~(again /\ k = prev)
          BY <1>2, <4>1, <4>2, <4>3, <5>3
        <5> QED
          BY <5>1, <5>2, <5>3
      <4> QED
        BY <1>4, <1>5, <2>4, <2>6, <3>1, <3>4, <4>1, <4>4
           DEF HeldIsSupported, SupportIsCount, r, k
    <3>5. CASE reporting.lastConsensusRefSlot # r
      <4>1. /\ HeldHashes = {}
            /\ VotesCast => \A j \in 1..Len(variants) : variants[j].support < quorum
        BY <1>1, <2>5, <3>5 DEF HeldIsSupported, r
      <4>2. HeldHashes' = {}
        BY <1>4, <3>1, <4>1 DEF HeldHashes
      <4>3. ASSUME NEW j \in 1..Len(variants') PROVE variants'[j].support < quorum
        <5>1. CASE j = i
          BY <1>6, <2>9, <3>2, <5>1
        <5>2. CASE j # i
          <6>1. j \in 1..Len(old)
            BY <1>1, <1>2, <5>2
          <6>2. old[j].support < quorum
            BY <1>1, <1>7, <1>8, <4>1, <6>1
          <6> QED
            BY <1>2, <1>6, <2>1, <5>2, <6>1, <6>2
        <5> QED
          BY <5>1, <5>2
      <4> QED
        BY <1>4, <1>5, <2>4, <3>1, <3>5, <4>2, <4>3 DEF HeldIsSupported, SupportIsCount, r
    <3> QED
      BY <3>4, <3>5
  <2> QED
    BY <2>7, <2>8, <2>9
<1> QED
  BY <1>4, <1>11, <1>12, <1>13 DEF CountInv

\* What the invariant gives for a processor that was never replaced.
LEMMA CountGivesVotes ==
  ASSUME TypeOK, SlotsInv, CountInv, switches = 0
  PROVE  VotesCounted
<1>1. SupportIsCount /\ FastLaneIsQuorum
  BY FastLaneCounted DEF CountInv
<1>2. HeldIsAgreed
  <2> SUFFICES ASSUME VotingOpen PROVE HeldHashes = AgreedHashes
    BY DEF HeldIsAgreed
  <2>1. SupportIsCount /\ HeldIsSupported
    BY DEF CountInv
  <2>2. CurrentFrame.refSlot # 0
    BY OpenSlot
  <2>3. CASE reporting.lastConsensusRefSlot = CurrentFrame.refSlot
    <3> DEFINE k == reporting.lastConsensusVariantIndex
    <3>1. /\ VotesCast /\ k \in 1..Len(variants)
          /\ variants[k].support >= quorum
          /\ oracle[processor].refSlot = CurrentFrame.refSlot
          /\ oracle[processor].hash = variants[k].hash
      BY <2>1, <2>3 DEF HeldIsSupported
    <3> HIDE DEF k
    <3>2. variants[k].hash \in Hashes
      <4>1. variants[k] \in ReportVariant
        BY <3>1, ElementOfSeq DEF TypeOK
      <4> QED
        BY <4>1 DEF ReportVariant
    <3>3. HeldHashes = {variants[k].hash}
      BY <3>1, <3>2, HashAssumption DEF HeldHashes
    <3>4. Cardinality(Voters(k)) >= quorum
      BY <2>1, <3>1 DEF SupportIsCount
    <3>5. reporting.lastReportRefSlot # 0
      BY <2>2, <3>1 DEF VotesCast
    <3>6. \A j : j # k => ~(Cardinality(Voters(j)) >= quorum)
      <4> TAKE j
      <4> SUFFICES ASSUME j # k PROVE ~(Cardinality(Voters(j)) >= quorum)
        OBVIOUS
      <4>1. Cardinality(Voters(j)) < quorum
        BY <3>4, <3>5, MajorityWithMembers, OneMajority DEF CountInv
      <4>2. Cardinality(Voters(j)) \in Nat /\ quorum \in Nat
        BY VotersBefore DEF TypeOK
      <4> QED
        BY <4>1, <4>2
    <3>7. {j \in 1..Len(variants) : Cardinality(Voters(j)) >= quorum} = {k}
      BY <3>1, <3>4, <3>6
    <3> QED
      BY <3>1, <3>3, <3>7 DEF AgreedHashes
  <2>4. CASE reporting.lastConsensusRefSlot # CurrentFrame.refSlot
    <3>1. /\ HeldHashes = {}
          /\ VotesCast => \A i \in 1..Len(variants) : variants[i].support < quorum
      BY <2>1, <2>4 DEF HeldIsSupported
    <3>2. VotesCast => \A i \in 1..Len(variants) : ~(Cardinality(Voters(i)) >= quorum)
      <4> SUFFICES ASSUME VotesCast, NEW i \in 1..Len(variants)
                   PROVE  ~(Cardinality(Voters(i)) >= quorum)
        OBVIOUS
      <4>1. Cardinality(Voters(i)) \in Nat /\ quorum \in Nat
        BY VotersBefore DEF TypeOK
      <4> QED
        BY <2>1, <3>1, <4>1 DEF SupportIsCount
    <3> QED
      BY <3>1, <3>2 DEF AgreedHashes
  <2> QED
    BY <2>3, <2>4
<1> QED
  BY <1>1, <1>2 DEF VotesCounted

\* Every action keeps the count: one step per action.
LEMMA NextKeepsCount == TypeOK /\ SlotsInv /\ CountInv /\ [Next]_vars => CountInv'
<1> SUFFICES ASSUME TypeOK, SlotsInv, CountInv, [Next]_vars PROVE CountInv'
  OBVIOUS
<1>0. TypeOK' /\ SlotsInv' /\ processor \in Processors
  BY NextTyped, NextSlots DEF TypeOK
<1>1. CASE UNCHANGED <<members, memberState, quorum, variants, reporting, processor, switches,
                       oracle>>
  BY <1>0, <1>1, FrameMovesKeepCount
<1>2. CASE \E a \in Addresses, q \in Quorums : AddMember(a, q)
  BY <1>0, <1>2, ParameterAssumption, AddMemberKeepsCount
<1>3. CASE \E a \in Addresses, q \in Quorums : RemoveMember(a, q)
  BY <1>0, <1>3, ParameterAssumption, RemoveMemberKeepsCount
<1>4. CASE (\E q \in Quorums : SetQuorum(q)) \/ DisableConsensus
  BY <1>0, <1>4, ParameterAssumption, SetQuorumKeepsCount DEF DisableConsensus
<1>5. CASE \E p \in Processors : SetReportProcessor(p)
  <2>1. /\ UNCHANGED <<members, memberState, quorum, variants, reporting>>
        /\ switches' = switches + 1 /\ switches \in Nat
    BY <1>5 DEF SetReportProcessor, committeeVars, votingVars, TypeOK
  <2>2. VoteRecords' /\ QuorumIsMajority'
    BY <2>1 DEF CountInv, VoteRecords, QuorumIsMajority, MemberSet
  <2> QED
    BY <2>1, <2>2 DEF CountInv
<1>6. CASE \E a \in Addresses, h \in Hashes : SubmitReport(a, h)
  BY <1>0, <1>6, SubmitKeepsCount
<1>7. CASE \E p \in Processors, h \in Hashes : ProcessReport(p, h)
  <2>1. PICK p \in Processors, h \in Hashes : ProcessReport(p, h)
    BY <1>7
  <2>2. /\ UNCHANGED <<members, memberState, quorum, variants, reporting, processor, switches>>
        /\ oracle' = [oracle EXCEPT ![p].lastProcessing = oracle[p].refSlot]
    BY <2>1 DEF ProcessReport, StartProcessing, committeeVars, votingVars, processorVars
  <2>3. /\ oracle'[processor].refSlot = oracle[processor].refSlot
        /\ oracle'[processor].hash = oracle[processor].hash
        /\ oracle'[processor].lastProcessing \in {oracle[processor].lastProcessing,
                                                  oracle[processor].refSlot}
    BY <1>0, <2>2 DEF TypeOK, OracleState
  <2> QED
    BY <1>0, <2>2, <2>3, FrameMovesKeepCount
<1>8. CASE \E p \in Processors, v \in Versions : ChangeConsensusVersion(p, v)
  <2>1. PICK p \in Processors, v \in Versions : ChangeConsensusVersion(p, v)
    BY <1>8
  <2>2. /\ UNCHANGED <<members, memberState, quorum, variants, reporting, processor, switches>>
        /\ oracle' = [oracle EXCEPT ![p].version = v]
    BY <2>1 DEF ChangeConsensusVersion, SetConsensusVersion, committeeVars, votingVars,
                processorVars
  <2>3. /\ oracle'[processor].refSlot = oracle[processor].refSlot
        /\ oracle'[processor].hash = oracle[processor].hash
        /\ oracle'[processor].lastProcessing = oracle[processor].lastProcessing
    BY <1>0, <2>2 DEF TypeOK, OracleState
  <2> QED
    BY <1>0, <2>2, <2>3, FrameMovesKeepCount
<1> QED
  BY <1>1, <1>2, <1>3, <1>4, <1>5, <1>6, <1>7, <1>8
     DEF Next, vars, committeeVars, votingVars, processorVars, Tick, UpdateInitialEpoch,
         SetFrameConfig, SetFastLaneLengthSlots

\* Before the first member there is nothing to count.
LEMMA InitCount == Init => CountInv
<1> SUFFICES ASSUME Init PROVE CountInv
  OBVIOUS
<1>1. TypeOK /\ SlotsInv
  BY InitTyped, InitSlots
<1>2. /\ members = <<>> /\ variants = <<>> /\ quorum = 0
      /\ memberState = [a \in Addresses |-> NoReport]
      /\ reporting.lastReportRefSlot = 0
      /\ \A p \in Processors : oracle[p].lastProcessing = 0
  BY DEF Init, InitialOracle
<1>3. ~VotingOpen
  <2>1. EpochAt(now) = 0
    BY SlotsAssumption DEF Init, EpochAt
  <2>2. frameConfig.initialEpoch \in Nat \ {0}
    BY <1>1 DEF TypeOK, FrameConfig
  <2> QED
    BY <2>1, <2>2 DEF VotingOpen, Started, FrameStarted
<1> QED
  BY <1>2, <1>3, EmptySeq
     DEF CountInv, VoteRecords, QuorumIsMajority, NoReport, SupportIsCount, HeldIsSupported

\* As long as the processor it started with is not replaced, the committee's
\* counters are the votes its members cast, the processor holds exactly what a
\* quorum of them agrees on, and the fast lane has a quorum's size: through every
\* order of votes, re-votes, joins, removals, quorum and frame changes.
THEOREM VotesAlwaysCounted == Spec => [](switches = 0 => VotesCounted)
<1>1. Init => CountInv
  BY InitCount
<1>2. Inv /\ CountInv /\ [Next]_vars => CountInv'
  BY NextKeepsCount DEF Inv
<1>3. Inv /\ CountInv => (switches = 0 => VotesCounted)
  BY CountGivesVotes DEF Inv
<1> QED
  BY <1>1, <1>2, <1>3, Invariant, PTL DEF Spec

-------------------------------------------------------------------------------
\* What a call relies on once it is accepted

\* The members whose last vote is for variant i of the last slot voted on.  Unlike Voters
\* it does not depend on the frame, so it stays when time passes.
Reporters(i) == {a \in MemberSet :
                   /\ memberState[a].lastReportRefSlot = reporting.lastReportRefSlot
                   /\ memberState[a].lastReportVariantIndex = i}

\* The counters cover the votes, whatever processors are replaced: a member removed while
\* its report is being processed leaves its support behind, and none is ever missing.
SupportCovers ==
  reporting.lastReportRefSlot # 0 =>
    \A i \in 1..Len(variants) : Cardinality(Reporters(i)) <= variants[i].support

\* Reporters are finitely many.
LEMMA ReportersFinite ==
  ASSUME TypeOK, NEW i
  PROVE  IsFiniteSet(Reporters(i)) /\ Cardinality(Reporters(i)) \in Nat
BY MembersCounted, FS_Subset, FS_CardinalityType DEF Reporters

\* The counters are numbers.
LEMMA SupportTyped ==
  ASSUME TypeOK
  PROVE  /\ Len(variants) \in Nat /\ DOMAIN variants = 1..Len(variants)
         /\ \A i \in 1..Len(variants) : variants[i] \in ReportVariant /\ variants[i].support \in Nat
<1>1. variants \in Seq(ReportVariant) /\ Len(variants) \in Nat /\ DOMAIN variants = 1..Len(variants)
  BY LenProperties DEF TypeOK
<1>2. \A i \in 1..Len(variants) : variants[i] \in ReportVariant
  BY <1>1, ElementOfSeq
<1> QED
  BY <1>1, <1>2 DEF ReportVariant

\* Removing a member takes its vote, if it is for the last slot voted on, from the reporters,
\* and its support, if its vote is open, from the counter.
LEMMA RemoveMemberCovers ==
  ASSUME TypeOK, SlotsInv, CountInv, SupportCovers, TypeOK', NEW a \in Addresses,
         NEW q \in Nat, RemoveMember(a, q)
  PROVE  SupportCovers'
<1> DEFINE k == memberState[a].lastReportVariantIndex
           r == reporting.lastReportRefSlot
<1>0. variants' = IF VoteIsOpen(a) THEN [variants EXCEPT ![k].support = @ - 1] ELSE variants
  BY DEF RemoveMember
<1>1. a \in MemberSet /\ MemberSet' = MemberSet \ {a} /\ Len(members') = Len(members) - 1
  BY RemovedMemberSet DEF RemoveMember
<1>2. /\ memberState' = [memberState EXCEPT ![a] = NoReport]
      /\ memberState \in [Addresses -> MemberState]
  BY DEF RemoveMember, TypeOK
<1>3. SameVariants
  BY RemovedVariants
<1>4. reporting'.lastReportRefSlot = r
  <2>1. SetQuorumAndCheckConsensus(q, Len(members) - 1, variants')
    BY <1>0 DEF RemoveMember
  <2> QED
    BY <1>3, <2>1, QuorumChangeReports DEF TypeOK
<1>5. SUFFICES ASSUME r # 0, NEW i \in 1..Len(variants)
               PROVE  Cardinality(Reporters(i)') <= variants'[i].support
  BY <1>3, <1>4 DEF SupportCovers, SameVariants
<1>6. Reporters(i)' = Reporters(i) \ {a}
  BY <1>1, <1>2, <1>4, MembersAreAddresses DEF Reporters
<1>7. /\ Cardinality(Reporters(i)) <= variants[i].support
      /\ IsFiniteSet(Reporters(i)) /\ Cardinality(Reporters(i)) \in Nat
      /\ variants[i].support \in Nat /\ variants[i] \in ReportVariant
      /\ DOMAIN variants = 1..Len(variants)
  BY <1>5, ReportersFinite, SupportTyped DEF SupportCovers
<1>8. Cardinality(Reporters(i) \ {a}) = IF a \in Reporters(i) THEN Cardinality(Reporters(i)) - 1
                                                           ELSE Cardinality(Reporters(i))
  BY <1>7, FS_RemoveElement
<1>9. CASE VoteIsOpen(a) /\ i = k
  <2>1. variants'[i].support = variants[i].support - 1
    BY <1>0, <1>7, <1>9 DEF ReportVariant
  <2>2. memberState[a].lastReportRefSlot = r
    <3>1. Started
      BY <1>2, <1>9 DEF RemoveMember, VoteIsOpen
    <3>2. /\ memberState[a].lastReportRefSlot = CurrentFrame.refSlot
          /\ memberState[a].lastReportRefSlot <= r /\ r <= CurrentFrame.refSlot
          /\ CurrentFrame.refSlot \in Nat /\ r \in Nat
      BY <1>9, <3>1, OpenSlot DEF VoteIsOpen, CountInv, VoteRecords, SlotsInv
    <3> QED
      BY <3>2
  <2>3. a \in Reporters(i)
    BY <1>1, <1>9, <2>2 DEF Reporters
  <2> QED
    BY <1>6, <1>7, <1>8, <2>1, <2>3
<1>10. CASE ~(VoteIsOpen(a) /\ i = k)
  <2>1. variants'[i].support = variants[i].support
    BY <1>0, <1>7, <1>10 DEF ReportVariant
  <2> QED
    BY <1>6, <1>7, <1>8, <2>1
<1> QED
  BY <1>9, <1>10

\* A vote adds as much to the counters as to the reporters.
LEMMA SubmitCovers ==
  ASSUME TypeOK, SlotsInv, CountInv, SupportCovers, TypeOK', NEW a \in Addresses,
         NEW h \in Hashes, SubmitReport(a, h)
  PROVE  SupportCovers'
<1> DEFINE r     == CurrentFrame.refSlot
           old   == VariantsFor(r)
           prev  == memberState[a].lastReportVariantIndex
           again == memberState[a].lastReportRefSlot = r
           lost  == again /\ old[prev].support = quorum
           rs    == [reporting EXCEPT !.lastReportRefSlot = r]
           \* The members whose vote is for variant j of slot r.
           For(j) == {b \in MemberSet : /\ memberState[b].lastReportRefSlot = r
                                        /\ memberState[b].lastReportVariantIndex = j}
<1>1. /\ VotingOpen /\ a \in MemberSet
      /\ Len(old) \in Nat /\ \A j \in 1..Len(old) : old[j] \in ReportVariant
      /\ again => prev \in 1..Len(old)
  BY VoteTable
<1>2. PICK i \in 1..Len(old) + 1 :
        /\ again => prev # i
        /\ Len(variants') = IF i <= Len(old) THEN Len(old) ELSE Len(old) + 1
        /\ variants'[i].support = IF i <= Len(old) THEN old[i].support + 1 ELSE 1
        /\ \A j \in 1..Len(old) : j # i =>
             variants'[j].support = IF again /\ j = prev THEN old[j].support - 1
                                                          ELSE old[j].support
        /\ memberState' = [memberState EXCEPT ![a] =
               [lastReportRefSlot |-> r, lastReportVariantIndex |-> i]]
        /\ IF variants'[i].support >= quorum
           THEN ConsensusReached(rs, CurrentFrame, h, i)
           ELSE IF lost THEN ConsensusNotReached(rs, CurrentFrame)
           ELSE reporting' = rs /\ UNCHANGED oracle
  BY VoteTable
<1>3. /\ r \in Nat \ {0} /\ reporting.lastReportRefSlot \in Nat
      /\ reporting.lastReportRefSlot <= r
  BY <1>1, OpenSlot DEF SlotsInv
<1>4. MemberSet' = MemberSet
  BY DEF SubmitReport, MemberSet
<1>5. reporting'.lastReportRefSlot = r
  BY <1>2 DEF ConsensusReached, ConsensusNotReached, ReportingState, TypeOK
<1>6. memberState \in [Addresses -> MemberState]
  BY DEF TypeOK
<1>7. /\ \A j \in 1..Len(old) : Cardinality(For(j)) <= old[j].support
      /\ For(Len(old) + 1) = {}
  <2>1. CASE reporting.lastReportRefSlot = r
    <3>1. old = variants /\ \A j : For(j) = Reporters(j)
      BY <2>1 DEF VariantsFor, Reporters
    <3>2. For(Len(old) + 1) = {}
      <4> SUFFICES ASSUME NEW b \in For(Len(old) + 1) PROVE FALSE
        OBVIOUS
      <4>1. memberState[b].lastReportVariantIndex \in 1..Len(variants)
        BY <1>3, <2>1, MembersAreAddresses DEF CountInv, VoteRecords
      <4> QED
        BY <1>1, <3>1, <4>1
    <3> QED
      BY <1>3, <2>1, <3>1, <3>2 DEF SupportCovers
  <2>2. CASE reporting.lastReportRefSlot # r
    <3>1. Len(old) = 0
      BY <2>2, EmptySeq DEF VariantsFor
    <3>2. For(Len(old) + 1) = {}
      <4> SUFFICES ASSUME NEW b \in For(Len(old) + 1) PROVE FALSE
        OBVIOUS
      <4>1. memberState[b].lastReportRefSlot <= reporting.lastReportRefSlot
        BY MembersAreAddresses DEF CountInv, VoteRecords
      <4> QED
        BY <1>3, <2>2, <4>1
    <3> QED
      BY <3>1, <3>2
  <2> QED
    BY <2>1, <2>2
<1>8. \A j : IsFiniteSet(For(j)) /\ Cardinality(For(j)) \in Nat
  BY MembersCounted, FS_Subset, FS_CardinalityType
<1>9. \A j : a \in For(j) <=> again /\ j = prev
  BY <1>1
<1>10. \A j : Reporters(j)' = IF j = i THEN For(j) \cup {a} ELSE For(j) \ {a}
  <2> TAKE j
  <2>1. \A b \in MemberSet : b # a => memberState'[b] = memberState[b]
    BY <1>2, <1>6, MembersAreAddresses
  <2>2. memberState'[a].lastReportRefSlot = r /\ memberState'[a].lastReportVariantIndex = i
    BY <1>2, <1>6
  <2> QED
    BY <1>1, <1>4, <1>5, <2>1, <2>2 DEF Reporters
<1> HIDE DEF r, old, prev, again, lost, rs, For
<1>11. ASSUME NEW j \in 1..Len(variants')
       PROVE  Cardinality(Reporters(j)') <= variants'[j].support
  <2>1. CASE j = i
    <3>1. Cardinality(Reporters(j)') = Cardinality(For(i)) + 1
      BY <1>2, <1>8, <1>9, <1>10, <2>1, FS_AddElement
    <3>2. CASE i <= Len(old)
      <4>1. i \in 1..Len(old) /\ old[i].support \in Nat /\ Cardinality(For(i)) \in Nat
        BY <1>1, <1>8, <3>2 DEF ReportVariant
      <4>2. Cardinality(For(i)) <= old[i].support /\ variants'[i].support = old[i].support + 1
        BY <1>2, <1>7, <3>2, <4>1
      <4> QED
        BY <2>1, <3>1, <4>1, <4>2
    <3>3. CASE i = Len(old) + 1
      <4>1. For(i) = {} /\ Cardinality(For(i)) = 0
        BY <1>7, <3>3, FS_EmptySet
      <4>2. variants'[i].support = 1
        BY <1>1, <1>2, <3>3
      <4> QED
        BY <2>1, <3>1, <4>1, <4>2
    <3> QED
      BY <1>1, <3>2, <3>3
  <2>2. CASE j # i
    <3>1. j \in 1..Len(old) /\ Reporters(j)' = For(j) \ {a}
      BY <1>1, <1>2, <1>10, <2>2
    <3>2. Cardinality(Reporters(j)') = IF again /\ j = prev THEN Cardinality(For(j)) - 1
                                                            ELSE Cardinality(For(j))
      BY <1>8, <1>9, <3>1, FS_RemoveElement
    <3>3. old[j].support \in Nat /\ Cardinality(For(j)) \in Nat
      BY <1>1, <1>8, <3>1 DEF ReportVariant
    <3>4. /\ Cardinality(For(j)) <= old[j].support
          /\ variants'[j].support = IF again /\ j = prev THEN old[j].support - 1
                                                        ELSE old[j].support
      BY <1>2, <1>7, <2>2, <3>1
    <3> QED
      BY <3>2, <3>3, <3>4
  <2> QED
    BY <2>1, <2>2
<1> QED
  BY <1>11 DEF SupportCovers

\* Every action keeps the counters covering the votes: one step per action.
LEMMA NextCovers ==
  TypeOK /\ SlotsInv /\ CountInv /\ SupportCovers /\ [Next]_vars => SupportCovers'
<1> SUFFICES ASSUME TypeOK, SlotsInv, CountInv, SupportCovers, [Next]_vars PROVE SupportCovers'
  OBVIOUS
<1>0. TypeOK'
  BY NextTyped
<1>1. CASE UNCHANGED <<members, memberState, variants, reporting>>
  BY <1>1 DEF SupportCovers, Reporters, MemberSet
<1>2. ASSUME NEW a \in Addresses, NEW q \in Quorums, AddMember(a, q) PROVE SupportCovers'
  <2>1. a \notin MemberSet /\ MemberSet' = MemberSet \cup {a}
    BY <1>2, AddedMemberSet
  <2>2. variants' = variants /\ reporting'.lastReportRefSlot = reporting.lastReportRefSlot
    BY <1>2, ParameterAssumption, QuorumChangeReports DEF AddMember, SameVariants, TypeOK
  <2>3. /\ memberState' = [memberState EXCEPT ![a] = NoReport]
        /\ memberState \in [Addresses -> MemberState]
    BY <1>2 DEF AddMember, TypeOK
  <2>4. reporting.lastReportRefSlot # 0 => \A i : Reporters(i)' = Reporters(i)
    BY <2>1, <2>2, <2>3, MembersAreAddresses DEF Reporters, NoReport
  <2> QED
    BY <2>2, <2>4 DEF SupportCovers
<1>3. ASSUME NEW a \in Addresses, NEW q \in Quorums, RemoveMember(a, q) PROVE SupportCovers'
  BY <1>0, <1>3, ParameterAssumption, RemoveMemberCovers
<1>4. ASSUME NEW q \in Nat, SetQuorum(q) PROVE SupportCovers'
  <2>1. /\ UNCHANGED <<members, memberState, variants>>
        /\ reporting'.lastReportRefSlot = reporting.lastReportRefSlot
    BY <1>4, QuorumChangeReports DEF SetQuorum, SameVariants, TypeOK
  <2> QED
    BY <2>1 DEF SupportCovers, Reporters, MemberSet
<1>5. ASSUME NEW a \in Addresses, NEW h \in Hashes, SubmitReport(a, h) PROVE SupportCovers'
  BY <1>0, <1>5, SubmitCovers
<1>6. CASE (\E q \in Quorums : SetQuorum(q)) \/ DisableConsensus
  BY <1>4, <1>6, ParameterAssumption DEF DisableConsensus
<1> QED
  BY <1>1, <1>2, <1>3, <1>5, <1>6
     DEF Next, vars, committeeVars, votingVars, Tick, UpdateInitialEpoch, SetFrameConfig,
         SetFastLaneLengthSlots, SetReportProcessor, ProcessReport, ChangeConsensusVersion

\* What the invariants give a call.
LEMMA InvariantGivesChecks ==
  ASSUME TypeOK, SlotsInv, CountInv, SupportCovers
  PROVE  CommitteeChecksHold
<1> DEFINE f == CurrentFrame
<1>1. ASSUME NEW a \in MemberSet, ~Started PROVE memberState[a].lastReportRefSlot = 0
  <2>1. memberState[a].lastReportRefSlot \in Nat
    BY MembersAreAddresses DEF TypeOK, MemberState
  <2> QED
    BY <1>1, <2>1, MembersAreAddresses DEF SlotsInv, CountInv, VoteRecords
<1>2. ASSUME NEW a \in MemberSet, Started, memberState[a].lastReportRefSlot = f.refSlot,
             f.refSlot # 0
      PROVE  /\ VotesCast /\ quorum > 0
             /\ memberState[a].lastReportVariantIndex \in 1..Len(variants)
             /\ variants[memberState[a].lastReportVariantIndex].support > 0
  <2> DEFINE k == memberState[a].lastReportVariantIndex
  <2>1. VotesCast /\ reporting.lastReportRefSlot # 0
    <3>1. /\ memberState[a].lastReportRefSlot <= reporting.lastReportRefSlot
          /\ reporting.lastReportRefSlot <= f.refSlot
          /\ f.refSlot \in Nat /\ reporting.lastReportRefSlot \in Nat
      BY <1>2, OpenSlot, MembersAreAddresses DEF SlotsInv, CountInv, VoteRecords
    <3> QED
      BY <1>2, <3>1 DEF VotesCast
  <2>2. k \in 1..Len(variants)
    BY <1>2, <2>1, MembersAreAddresses DEF CountInv, VoteRecords, VotesCast
  <2>3. a \in Reporters(k)
    BY <1>2, <2>1 DEF Reporters, VotesCast
  <2>4. Cardinality(Reporters(k)) # 0
    BY <2>3, ReportersFinite, FS_EmptySet
  <2>5. variants[k].support > 0
    BY <2>1, <2>2, <2>4, ReportersFinite, SupportTyped DEF SupportCovers
  <2>6. quorum > 0
    BY <2>1, MajorityWithMembers, MemberIndexUnique DEF CountInv, TypeOK
  <2> QED
    BY <2>1, <2>2, <2>5, <2>6
<1>3. ASSUME VotingOpen
      PROVE  /\ SubmitAccepted(processor, f.refSlot, f.deadlineSlot, now)
             /\ DiscardAccepted(processor, f.refSlot)
  BY <1>3, OpenSlot DEF VotingOpen, GetLastProcessingRefSlot, SubmitAccepted, DiscardAccepted,
     SlotsInv, OraclesNotAhead, TypeOK
<1> QED
  BY <1>1, <1>2, <1>3 DEF CommitteeChecksHold

\* Nothing that a vote, a removal or a change of the quorum does after it was accepted can
\* revert, for any committee, frames and quorums, and whatever processors were replaced
\* while votes were open: no counter underflows, no assertion fails, and the processor
\* refuses neither the report nor its withdrawal (HashConsensus.sol:736-739, 873-883, 943-988).
THEOREM ChecksAlwaysHold == Spec => []CommitteeChecksHold
<1>1. Init => CountInv /\ SupportCovers
  <2>1. Init => reporting.lastReportRefSlot = 0
    BY DEF Init
  <2> QED
    BY <2>1, InitCount DEF SupportCovers
<1>2. Inv /\ CountInv /\ SupportCovers /\ [Next]_vars => CountInv' /\ SupportCovers'
  BY NextKeepsCount, NextCovers DEF Inv
<1>3. Inv /\ CountInv /\ SupportCovers => CommitteeChecksHold
  BY InvariantGivesChecks DEF Inv
<1> QED
  BY <1>1, <1>2, <1>3, Invariant, PTL DEF Spec

-------------------------------------------------------------------------------
\* Refinement of CommitteeVoting

\* One frame length and one processor, as ImplementsVoting takes them.
OneDeployment == /\ MaxSwitches = 0
                 /\ \A m, n \in FrameLengths : m = n

\* The report the processor holds expires with the frame it is for.
DeadlineInv ==
  LET o == oracle[processor]
  IN /\ switches = 0
     /\ frameConfig.epochsPerFrame \in FrameLengths
     /\ ~Started => o.hash = ZeroHash /\ o.deadline = 0
     /\ o.deadline <= o.refSlot + FrameLength(frameConfig)
     /\ Started => o.refSlot = CurrentFrame.refSlot \/ o.deadline <= CurrentFrame.refSlot

\* What a step of the committee may do to the report its processor holds.
ReportMoved ==
  LET o == oracle[processor]
      n == oracle'[processor]
  IN /\ n.lastProcessing = o.lastProcessing
     /\ \/ n = o
        \/ n.refSlot = o.refSlot /\ n.deadline = o.deadline
        \/ Started /\ n.refSlot = CurrentFrame.refSlot
                   /\ n.deadline = CurrentFrame.deadlineSlot

\* A consensus reached or lost moves it that way.
LEMMA ConsensusMoves ==
  ASSUME TypeOK, Started, NEW rs, NEW h, NEW i,
         \/ ConsensusReached(rs, CurrentFrame, h, i)
         \/ ConsensusNotReached(rs, CurrentFrame)
  PROVE  ReportMoved
<1>1. processor \in Processors /\ oracle \in [Processors -> OracleState]
  BY DEF TypeOK
<1>2. CASE oracle' = oracle
  BY <1>2 DEF ReportMoved
<1>3. CASE SubmitConsensusReport(processor, h, CurrentFrame.refSlot, CurrentFrame.deadlineSlot, now)
  BY <1>1, <1>3 DEF SubmitConsensusReport, OracleState, ReportMoved
<1>4. CASE DiscardConsensusReport(processor, CurrentFrame.refSlot)
  <2>1. CASE oracle' = [oracle EXCEPT ![processor].hash = ZeroHash]
    BY <1>1, <2>1 DEF OracleState, ReportMoved
  <2> QED
    BY <1>2, <1>4, <2>1 DEF DiscardConsensusReport
<1> QED
  BY <1>2, <1>3, <1>4 DEF ConsensusReached, ConsensusNotReached

\* So does a change of the quorum.
LEMMA QuorumMoves ==
  ASSUME TypeOK, NEW q, NEW t, NEW vs, SetQuorumAndCheckConsensus(q, t, vs)
  PROVE  ReportMoved
<1> DEFINE won == IF reporting.lastReportRefSlot = CurrentFrame.refSlot
                  THEN WithQuorum(vs, q) ELSE {}
<1>1. CASE Started /\ CheckConsensus(q, vs)
  <2>1. \/ oracle' = oracle
        \/ ConsensusNotReached(reporting, CurrentFrame)
        \/ \E i \in won : ConsensusReached(reporting, CurrentFrame, vs[i].hash, i)
    BY <1>1, Zenon DEF CheckConsensus
  <2> HIDE DEF won
  <2>2. CASE oracle' = oracle
    BY <2>2 DEF ReportMoved
  <2> QED
    BY <1>1, <2>1, <2>2, ConsensusMoves
<1> QED
  BY <1>1 DEF SetQuorumAndCheckConsensus, ReportMoved

\* Every step but a processing moves the held report that way.
LEMMA StepMoves ==
  ASSUME TypeOK, [Next]_vars, processor' = processor
  PROVE  \/ ReportMoved
         \/ \E p \in Processors, h \in Hashes : ProcessReport(p, h)
<1>1. CASE oracle' = oracle
  BY <1>1 DEF ReportMoved
<1>2. CASE \E a \in Addresses, q \in Quorums : AddMember(a, q)
  BY <1>2, QuorumMoves DEF AddMember
<1>3. CASE \E a \in Addresses, q \in Quorums : RemoveMember(a, q)
  <2>1. PICK a \in Addresses, q \in Quorums : RemoveMember(a, q)
    BY <1>3
  <2>2. SetQuorumAndCheckConsensus(q, Len(members) - 1, variants')
    BY <2>1 DEF RemoveMember
  <2> QED
    BY <2>2, QuorumMoves
<1>4. CASE (\E q \in Quorums : SetQuorum(q)) \/ DisableConsensus
  BY <1>4, QuorumMoves DEF SetQuorum, DisableConsensus
<1>5. CASE \E a \in Addresses, h \in Hashes : SubmitReport(a, h)
  <2>1. PICK a \in Addresses, h \in Hashes : SubmitReport(a, h)
    BY <1>5
  <2> DEFINE rs == [reporting EXCEPT !.lastReportRefSlot = CurrentFrame.refSlot]
  <2>2. Started /\ \E i : \/ ConsensusReached(rs, CurrentFrame, h, i)
                         \/ ConsensusNotReached(rs, CurrentFrame)
                         \/ oracle' = oracle
    BY <2>1, VoteTyped
  <2> HIDE DEF rs
  <2> QED
    BY <1>1, <2>2, ConsensusMoves
<1>6. CASE \E p \in Processors, v \in Versions : ChangeConsensusVersion(p, v)
  BY <1>6 DEF ChangeConsensusVersion, SetConsensusVersion, TypeOK, OracleState, ReportMoved
<1>7. CASE \E p \in Processors : SetReportProcessor(p)
  BY <1>7 DEF SetReportProcessor
<1> QED
  BY <1>1, <1>2, <1>3, <1>4, <1>5, <1>6, <1>7
     DEF Next, vars, Tick, UpdateInitialEpoch, SetFrameConfig, SetFastLaneLengthSlots

\* The processor is never replaced, and the frame length is one of FrameLengths.
LEMMA DeploymentStays ==
  ASSUME OneDeployment, TypeOK, switches = 0, frameConfig.epochsPerFrame \in FrameLengths,
         [Next]_vars
  PROVE  /\ processor' = processor /\ switches' = 0
         /\ frameConfig'.epochsPerFrame = frameConfig.epochsPerFrame
<1>1. ~ \E p \in Processors : SetReportProcessor(p)
  BY DEF SetReportProcessor, OneDeployment
<1>2. processor' = processor /\ switches' = 0
  BY <1>1 DEF Next, vars, processorVars, Tick, UpdateInitialEpoch, SetFrameConfig,
              SetFastLaneLengthSlots, AddMember, RemoveMember, SetQuorum, DisableConsensus,
              SubmitReport, ProcessReport, ChangeConsensusVersion
<1>3. CASE frameConfig' = frameConfig
  BY <1>2, <1>3
<1>4. CASE \E n \in FrameLengths, f \in FastLanes : SetFrameConfig(n, f)
  BY <1>2, <1>4 DEF SetFrameConfig, Reconfigured, OneDeployment
<1>5. CASE \/ \E f \in FastLanes : SetFastLaneLengthSlots(f)
           \/ \E e \in InitialEpochs : UpdateInitialEpoch(e)
  BY <1>2, <1>5 DEF SetFastLaneLengthSlots, UpdateInitialEpoch, TypeOK, FrameConfig
<1> QED
  BY <1>1, <1>3, <1>4, <1>5
     DEF Next, vars, Tick, AddMember, RemoveMember, SetQuorum, DisableConsensus, SubmitReport,
         ProcessReport, ChangeConsensusVersion

\* DeadlineInv is inductive.
LEMMA NextDeadline ==
  ASSUME OneDeployment, TypeOK, SlotsInv, DeadlineInv, [Next]_vars
  PROVE  DeadlineInv'
<1> DEFINE o  == oracle[processor]
           n  == oracle'[processor]
           r  == CurrentFrame.refSlot
           s  == CurrentFrame'.refSlot
           fl == FrameLength(frameConfig)
<1>0. TypeOK' /\ SlotsInv'
  BY NextTyped, NextSlots
<1>1. /\ processor' = processor /\ switches' = 0
      /\ frameConfig'.epochsPerFrame = frameConfig.epochsPerFrame
      /\ frameConfig'.epochsPerFrame \in FrameLengths
      /\ FrameLength(frameConfig') = fl
  BY DeploymentStays DEF DeadlineInv, FrameLength
<1>2. o \in OracleState /\ n \in OracleState /\ fl \in Nat
  BY <1>0, <1>1, SlotsAssumption DEF TypeOK, FrameLength, FrameConfig
<1>3. Started => r \in Nat /\ CurrentFrame.deadlineSlot = r + fl
  BY SlotInFrame DEF TypeOK, Started, CurrentFrame, RefSlotAt
<1>4. Started' => s \in Nat
  BY <1>0, RefSlotFromStart DEF TypeOK, Started, CurrentFrame, RefSlotAt
<1>5. \/ n.refSlot = o.refSlot /\ n.deadline = o.deadline
      \/ Started /\ n.refSlot = r /\ n.deadline = CurrentFrame.deadlineSlot
  <2>1. CASE ReportMoved
    BY <2>1 DEF ReportMoved
  <2>2. CASE \E p \in Processors, h \in Hashes : ProcessReport(p, h)
    BY <2>2 DEF ProcessReport, StartProcessing, TypeOK, OracleState
  <2> QED
    BY <1>1, <2>1, <2>2, StepMoves
<1>6. n.deadline <= n.refSlot + fl
  BY <1>2, <1>3, <1>5 DEF DeadlineInv, OracleState
<1>7. Started => Started' /\ (s = r \/ s >= r + fl)
  BY <1>1, FrameStep DEF FrameLength
<1>8. ~Started /\ ~Started' => n.hash = ZeroHash /\ n.deadline = 0
  <2> SUFFICES ASSUME ~Started, ~Started' PROVE n.hash = ZeroHash /\ n.deadline = 0
    OBVIOUS
  <2>1. o.hash = ZeroHash /\ o.deadline = 0
    BY DEF DeadlineInv
  <2>2. n.deadline = 0
    BY <1>5, <2>1
  <2>3. n.hash = ZeroHash
    <3>1. CASE oracle' = oracle
      BY <2>1, <3>1
    <3>2. CASE \E p \in Processors, v \in Versions : ChangeConsensusVersion(p, v)
      BY <2>1, <3>2 DEF ChangeConsensusVersion, SetConsensusVersion, TypeOK, OracleState
    <3>3. CASE \E p \in Processors, h \in Hashes : ProcessReport(p, h)
      BY <2>1, <3>3 DEF ProcessReport, StartProcessing, TypeOK, OracleState
    <3>4. ~ \E a \in Addresses, h \in Hashes : SubmitReport(a, h)
      BY DEF SubmitReport, VoteAccepted
    <3>5. ~ \E p \in Processors : SetReportProcessor(p)
      BY DEF SetReportProcessor
    <3> QED
      BY <3>1, <3>2, <3>3, <3>4, <3>5
         DEF Next, vars, Tick, UpdateInitialEpoch, SetFrameConfig, SetFastLaneLengthSlots,
             AddMember, RemoveMember, SetQuorum, DisableConsensus, SetQuorumAndCheckConsensus
  <2> QED
    BY <2>2, <2>3
<1>9. Started' => n.refSlot = s \/ n.deadline <= s
  <2>1. CASE Started
    BY <1>2, <1>3, <1>4, <1>5, <1>7, <2>1 DEF DeadlineInv, OracleState
  <2>2. CASE ~Started
    BY <1>2, <1>4, <1>5, <2>2 DEF DeadlineInv, OracleState
  <2> QED
    BY <2>1, <2>2
<1>10. Started => Started'
  BY <1>7
<1> QED
  BY <1>1, <1>6, <1>8, <1>9, <1>10 DEF DeadlineInv

\* A report that is processed is for the current frame, whose voting was open.
LEMMA ProcessedIsCurrent ==
  ASSUME TypeOK, SlotsInv, DeadlineInv, NEW h \in Hashes, ProcessReport(processor, h)
  PROVE  /\ VotingOpen
         /\ oracle[processor].refSlot = CurrentFrame.refSlot
         /\ oracle[processor].hash = h
<1> DEFINE o == oracle[processor]
           r == CurrentFrame.refSlot
<1>1. /\ o.hash # ZeroHash /\ h = o.hash /\ now <= o.deadline /\ o.lastProcessing # o.refSlot
  BY DEF ProcessReport, StartProcessing, DataMatchesReport
<1>2. Started
  BY <1>1 DEF DeadlineInv
<1>3. r \in Nat /\ r < now /\ now \in Nat
  BY <1>2, SlotInFrame DEF TypeOK, Started, CurrentFrame, RefSlotAt
<1>4. o.lastProcessing \in Nat /\ o.refSlot \in Nat /\ o.deadline \in Nat
  BY OpenSlot DEF OracleState
<1>5. o.refSlot = r
  BY <1>1, <1>2, <1>3, <1>4 DEF DeadlineInv
<1>6. o.lastProcessing < r
  <2>1. o.lastProcessing <= o.refSlot
    BY DEF SlotsInv, OraclesNotAhead, TypeOK
  <2> QED
    BY <1>1, <1>4, <1>5, <2>1
<1> QED
  BY <1>1, <1>2, <1>5, <1>6 DEF VotingOpen, GetLastProcessingRefSlot

\* Time and configuration: a new frame, whose votes are void, or nothing.
LEMMA FrameMovesRefine ==
  ASSUME TypeOK, SlotsInv, CountInv, [Next]_vars,
         UNCHANGED <<members, memberState, quorum, variants, reporting>>,
         GetLastProcessingRefSlot' = GetLastProcessingRefSlot
  PROVE  Voting!NewFrame \/ UNCHANGED Voting!vars
<1> DEFINE r == CurrentFrame.refSlot
           s == CurrentFrame'.refSlot
<1>0. TypeOK' /\ MemberSet' = MemberSet
  BY NextTyped DEF MemberSet
<1>1. Started' => s \in Nat
  BY <1>0, RefSlotFromStart DEF TypeOK, Started, CurrentFrame, RefSlotAt
<1>2. /\ Started => r \in Nat /\ reporting.lastReportRefSlot <= r
      /\ ~Started => reporting.lastReportRefSlot = 0
      /\ reporting.lastReportRefSlot \in Nat
  BY OpenSlot DEF SlotsInv
<1>3. Started => Started' /\ (s = r \/ s > r)
  <2> DEFINE k == frameConfig.epochsPerFrame * SLOTS_PER_EPOCH
             l == frameConfig'.epochsPerFrame * SLOTS_PER_EPOCH
  <2> SUFFICES ASSUME Started PROVE Started' /\ (s = r \/ s > r)
    OBVIOUS
  <2>1. k \in Nat /\ l \in Nat
    BY <1>0, SlotsAssumption DEF TypeOK, FrameConfig
  <2>2. Started' /\ (s = r \/ s >= r + k \/ s >= r + l)
    BY FrameStep
  <2> HIDE DEF k, l
  <2> QED
    BY <1>1, <1>2, <2>1, <2>2
<1>4. CASE (Started /\ s = r) \/ (~Started /\ ~Started')
  <2>1. /\ Started' <=> Started
        /\ (IF Started THEN CurrentFrame.refSlot ELSE 0)'
             = IF Started THEN CurrentFrame.refSlot ELSE 0
    BY <1>3, <1>4
  <2>2. \A a : VoteOf(a)' = VoteOf(a)
    BY <1>0, <1>4, <2>1 DEF VoteOf, VotesCast
  <2>3. [a \in Addresses |-> VoteOf(a)]' = [a \in Addresses |-> VoteOf(a)]
    BY <2>2
  <2> QED
    BY <1>0, <2>1, <2>3 DEF Voting!vars
<1>5. CASE (Started /\ s > r) \/ (~Started /\ Started')
  <2>1. Started' /\ s \in Nat
    BY <1>1, <1>3, <1>5
  <2>2. \A a \in Addresses : VoteOf(a)' = ZeroHash
    <3> TAKE a \in Addresses
    <3>1. memberState[a].lastReportRefSlot <= reporting.lastReportRefSlot
      BY DEF CountInv, VoteRecords
    <3>2. memberState[a].lastReportRefSlot \in Nat
      BY DEF TypeOK, MemberState
    <3>3. memberState[a].lastReportRefSlot = 0 \/ memberState[a].lastReportRefSlot # s
      BY <1>2, <1>5, <2>1, <3>1, <3>2
    <3> QED
      BY <3>3 DEF VoteOf
  <2>3. [a \in Addresses |-> VoteOf(a)]' = [a \in Addresses |-> ZeroHash]
    BY <2>2
  <2>4. CASE ~Started /\ s = 0
    <3>1. \A a \in Addresses : VoteOf(a) = ZeroHash
      BY <2>4 DEF VoteOf
    <3>2. [a \in Addresses |-> VoteOf(a)]' = [a \in Addresses |-> VoteOf(a)]
      BY <2>3, <3>1
    <3>3. (IF Started THEN CurrentFrame.refSlot ELSE 0)'
            = IF Started THEN CurrentFrame.refSlot ELSE 0
      BY <2>1, <2>4
    <3> QED
      BY <1>0, <3>2, <3>3 DEF Voting!vars
  <2>5. CASE ~(~Started /\ s = 0)
    <3>1. /\ (IF Started THEN CurrentFrame.refSlot ELSE 0)' \in Nat
          /\ (IF Started THEN CurrentFrame.refSlot ELSE 0)'
               > IF Started THEN CurrentFrame.refSlot ELSE 0
      BY <1>5, <2>1, <2>5
    <3> QED
      BY <1>0, <2>3, <3>1 DEF Voting!NewFrame
  <2> QED
    BY <2>4, <2>5
<1> QED
  BY <1>3, <1>4, <1>5

\* The instance counts the elements of a set as this module does.
LEMMA VotingCardinality == \A S : Voting!Cardinality(S) = Cardinality(S)
BY DEF Voting!Cardinality, Cardinality

\* A change of the committee or its quorum.
LEMMA CommitteeChangeRefines ==
  ASSUME TypeOK, SlotsInv, CountInv, TypeOK', NEW q \in Nat,
         SetQuorumAndCheckConsensus(q, Len(members'), variants'),
         SameVariants, UNCHANGED <<now, frameConfig, processor>>,
         \A a \in MemberSet \cap MemberSet' : memberState'[a] = memberState[a],
         \A a \in MemberSet' \ MemberSet : memberState'[a] = NoReport
  PROVE  Voting!Reform(MemberSet')
<1>1. variants' \in Seq(ReportVariant)
  BY DEF TypeOK
<1>2. /\ reporting'.lastReportRefSlot = reporting.lastReportRefSlot
      /\ quorum' = q /\ q > Len(members') \div 2
  BY <1>1, QuorumChangeReports
<1>3. Started' = Started /\ CurrentFrame' = CurrentFrame
  BY FrameUnchanged
<1>4. GetLastProcessingRefSlot' = GetLastProcessingRefSlot
  BY QuorumMoves DEF ReportMoved, GetLastProcessingRefSlot
<1>5. Cardinality(MemberSet') = Len(members')
  <2>1. \A i, j \in 1..Len(members') : members'[i] = members'[j] => i = j
    BY DEF TypeOK
  <2>2. Len(members') \in Nat
    BY LenProperties DEF TypeOK
  <2> DEFINE g == [i \in 1..Len(members') |-> members'[i]]
  <2>3. g \in Bijection(1..Len(members'), MemberSet')
    BY <2>1, Fun_IsBij DEF MemberSet
  <2>4. ExistsBijection(1..Len(members'), MemberSet')
    BY <2>3 DEF ExistsBijection
  <2> QED
    BY <2>2, <2>4, FS_CountingElements
<1>6. ASSUME NEW a \in Addresses
      PROVE  VoteOf(a)' = IF a \in MemberSet \cap MemberSet' THEN VoteOf(a) ELSE ZeroHash
  <2>1. CASE a \in MemberSet \cap MemberSet'
    <3>1. memberState'[a] = memberState[a] /\ VotesCast' = VotesCast
      BY <1>2, <1>3, <2>1 DEF VotesCast
    <3>2. CASE /\ Started /\ VotesCast
               /\ memberState[a].lastReportRefSlot # 0
               /\ memberState[a].lastReportRefSlot = CurrentFrame.refSlot
      <4>1. memberState[a].lastReportVariantIndex \in 1..Len(variants)
        BY <3>2 DEF VotesCast, CountInv, VoteRecords
      <4>2. variants'[memberState[a].lastReportVariantIndex].hash
              = variants[memberState[a].lastReportVariantIndex].hash
        BY <4>1 DEF SameVariants
      <4> QED
        BY <1>3, <2>1, <3>1, <3>2, <4>2 DEF VoteOf
    <3>3. CASE ~ /\ Started /\ VotesCast
                 /\ memberState[a].lastReportRefSlot # 0
                 /\ memberState[a].lastReportRefSlot = CurrentFrame.refSlot
      BY <1>3, <2>1, <3>1, <3>3 DEF VoteOf
    <3> QED
      BY <3>2, <3>3
  <2>2. CASE a \in MemberSet' \ MemberSet
    BY <2>2 DEF VoteOf, NoReport
  <2>3. CASE a \notin MemberSet'
    BY <2>3 DEF VoteOf
  <2> QED
    BY <2>1, <2>2, <2>3
<1>7. [a \in Addresses |-> VoteOf(a)]'
        = [a \in Addresses |-> IF a \in MemberSet \cap MemberSet'
                               THEN [b \in Addresses |-> VoteOf(b)][a] ELSE ZeroHash]
  BY <1>6
<1>8. (IF Started THEN CurrentFrame.refSlot ELSE 0)' = IF Started THEN CurrentFrame.refSlot ELSE 0
  BY <1>3
<1> QED
  BY <1>2, <1>4, <1>5, <1>7, <1>8, VotingCardinality DEF Voting!Reform

\* addMember, removeMember, setQuorum and disableConsensus.
LEMMA CommitteeRefines ==
  ASSUME TypeOK, SlotsInv, CountInv, [Next]_vars,
         \/ \E a \in Addresses, q \in Quorums : AddMember(a, q)
         \/ \E a \in Addresses, q \in Quorums : RemoveMember(a, q)
         \/ \E q \in Quorums : SetQuorum(q)
         \/ DisableConsensus
  PROVE  \E c \in SUBSET Addresses : Voting!Reform(c)
<1>0. TypeOK' /\ memberState \in [Addresses -> MemberState]
  BY NextTyped DEF TypeOK
<1>1. MemberSet' \subseteq Addresses
  BY <1>0, ElementOfSeq DEF TypeOK, MemberSet
<1>2. CASE \E a \in Addresses, q \in Quorums : AddMember(a, q)
  <2>1. PICK a \in Addresses, q \in Nat : AddMember(a, q)
    BY <1>2, ParameterAssumption
  <2>2. SameVariants /\ UNCHANGED <<now, frameConfig, processor>>
    BY <2>1 DEF AddMember, SameVariants, processorVars
  <2>3. Len(members') = Len(members) + 1 /\ MemberSet' = MemberSet \cup {a} /\ a \notin MemberSet
    BY <2>1, AddedMemberSet
  <2>4. SetQuorumAndCheckConsensus(q, Len(members'), variants')
    BY <2>1, <2>3 DEF AddMember
  <2>5. /\ \A b \in MemberSet \cap MemberSet' : memberState'[b] = memberState[b]
        /\ \A b \in MemberSet' \ MemberSet : memberState'[b] = NoReport
    BY <1>0, <2>1, <2>3, MembersAreAddresses DEF AddMember
  <2> QED
    BY <1>0, <1>1, <2>2, <2>4, <2>5, CommitteeChangeRefines
<1>3. CASE \E a \in Addresses, q \in Quorums : RemoveMember(a, q)
  <2>1. PICK a \in Addresses, q \in Nat : RemoveMember(a, q)
    BY <1>3, ParameterAssumption
  <2>2. SameVariants /\ UNCHANGED <<now, frameConfig, processor>>
    BY <1>0, <2>1, RemovedVariants DEF RemoveMember, processorVars
  <2>3. Len(members') = Len(members) - 1 /\ MemberSet' = MemberSet \ {a}
    BY <2>1, RemovedMemberSet DEF RemoveMember
  <2>4. SetQuorumAndCheckConsensus(q, Len(members'), variants')
    BY <2>1, <2>3 DEF RemoveMember
  <2>5. /\ \A b \in MemberSet \cap MemberSet' : memberState'[b] = memberState[b]
        /\ \A b \in MemberSet' \ MemberSet : memberState'[b] = NoReport
    BY <1>0, <2>1, <2>3, MembersAreAddresses DEF RemoveMember
  <2> QED
    BY <1>0, <1>1, <2>2, <2>4, <2>5, CommitteeChangeRefines
<1>4. CASE (\E q \in Quorums : SetQuorum(q)) \/ DisableConsensus
  <2>1. PICK q \in Nat : SetQuorum(q)
    BY <1>4, ParameterAssumption DEF DisableConsensus
  <2>2. SameVariants /\ UNCHANGED <<now, frameConfig, processor>>
    BY <2>1 DEF SetQuorum, SameVariants, processorVars
  <2>3. SetQuorumAndCheckConsensus(q, Len(members'), variants')
    BY <2>1 DEF SetQuorum
  <2>4. /\ \A b \in MemberSet \cap MemberSet' : memberState'[b] = memberState[b]
        /\ \A b \in MemberSet' \ MemberSet : memberState'[b] = NoReport
    BY <2>1 DEF SetQuorum, MemberSet
  <2> QED
    BY <1>0, <1>1, <2>2, <2>3, <2>4, CommitteeChangeRefines
<1> QED
  BY <1>2, <1>3, <1>4

\* A vote.
LEMMA SubmitRefines ==
  ASSUME TypeOK, SlotsInv, CountInv, TypeOK', NEW a \in Addresses, NEW h \in Hashes,
         SubmitReport(a, h)
  PROVE  Voting!Vote(a, h)
<1> DEFINE r   == CurrentFrame.refSlot
           old == VariantsFor(r)
           rs  == [reporting EXCEPT !.lastReportRefSlot = r]
<1>1. VotingOpen /\ a \in MemberSet /\ Len(old) \in Nat
  BY VoteTable
<1>2. PICK i \in 1..Len(old) + 1 :
        /\ Len(variants') = IF i <= Len(old) THEN Len(old) ELSE Len(old) + 1
        /\ variants'[i].hash = h
        /\ \A j \in 1..Len(old) : j # i => variants'[j].hash = old[j].hash
        /\ IsVariantIndex(old, h, i)
        /\ memberState' = [memberState EXCEPT ![a] =
               [lastReportRefSlot |-> r, lastReportVariantIndex |-> i]]
        /\ \/ ConsensusReached(rs, CurrentFrame, h, i)
           \/ ConsensusNotReached(rs, CurrentFrame)
           \/ reporting' = rs /\ UNCHANGED oracle
  BY VoteTable
<1>3. /\ UNCHANGED <<now, frameConfig, members, quorum, processor>>
      /\ Started' = Started /\ CurrentFrame' = CurrentFrame /\ MemberSet' = MemberSet
  BY FrameUnchanged DEF SubmitReport, processorVars, MemberSet
<1>4. Started /\ r \in Nat \ {0} /\ reporting.lastReportRefSlot <= r
      /\ reporting.lastReportRefSlot \in Nat
  BY <1>1, OpenSlot DEF SlotsInv
<1>5. reporting'.lastReportRefSlot = r
  BY <1>2, <1>4 DEF ConsensusReached, ConsensusNotReached, TypeOK, ReportingState
<1>6. GetLastProcessingRefSlot' = GetLastProcessingRefSlot
  BY <1>2, <1>3, <1>4, ConsensusMoves DEF ReportMoved, GetLastProcessingRefSlot
<1>7. /\ VotesCast => old = variants
      /\ memberState \in [Addresses -> MemberState]
      /\ VotesCast'
  BY <1>3, <1>5 DEF VotesCast, VariantsFor, TypeOK
<1> HIDE DEF r, old, rs
<1>8. VoteOf(a)' = h
  BY <1>1, <1>2, <1>3, <1>4, <1>7 DEF VoteOf, r
<1>9. ASSUME NEW b \in Addresses, b # a PROVE VoteOf(b)' = VoteOf(b)
  <2>1. memberState'[b] = memberState[b] /\ memberState[b].lastReportRefSlot \in Nat
    BY <1>2, <1>7, <1>9 DEF MemberState
  <2>2. CASE b \in MemberSet /\ memberState[b].lastReportRefSlot = r
    <3> DEFINE k == memberState[b].lastReportVariantIndex
    <3>1. memberState[b].lastReportRefSlot <= reporting.lastReportRefSlot
      BY DEF CountInv, VoteRecords
    <3>2. reporting.lastReportRefSlot = r
      BY <1>4, <2>1, <2>2, <3>1
    <3>3. VotesCast /\ old = variants
      BY <1>7, <3>2 DEF VotesCast, r
    <3>4. k \in 1..Len(variants)
      BY <1>4, <2>2, <3>2 DEF CountInv, VoteRecords
    <3>5. variants'[k].hash = variants[k].hash
      BY <1>1, <1>2, <3>3, <3>4 DEF IsVariantIndex
    <3>6. VoteOf(b) = variants[k].hash
      BY <1>4, <2>2, <3>3 DEF VoteOf, r
    <3>7. VoteOf(b)' = variants'[k].hash
      BY <1>3, <1>4, <1>7, <2>1, <2>2 DEF VoteOf, r
    <3> QED
      BY <3>5, <3>6, <3>7
  <2>3. CASE ~(b \in MemberSet /\ memberState[b].lastReportRefSlot = r)
    BY <1>3, <2>1, <2>3 DEF VoteOf, r
  <2> QED
    BY <2>2, <2>3
<1>10. [b \in Addresses |-> VoteOf(b)]'
         = [[b \in Addresses |-> VoteOf(b)] EXCEPT ![a] = h]
  BY <1>8, <1>9
<1>11. GetLastProcessingRefSlot < IF Started THEN CurrentFrame.refSlot ELSE 0
  BY <1>1, <1>4 DEF VotingOpen
<1> QED
  BY <1>1, <1>3, <1>6, <1>10, <1>11 DEF Voting!Vote

\* The current processor starts on what a quorum votes for.
LEMMA ProcessRefines ==
  ASSUME TypeOK, SlotsInv, CountInv, DeadlineInv, NEW h \in Hashes, ProcessReport(processor, h)
  PROVE  Voting!Process(h)
<1>1. /\ VotingOpen /\ Started /\ CurrentFrame.refSlot \in Nat \ {0}
      /\ oracle[processor].refSlot = CurrentFrame.refSlot
      /\ oracle[processor].hash = h
  BY ProcessedIsCurrent, OpenSlot
<1>2. HeldHashes = AgreedHashes
  BY <1>1, CountGivesVotes DEF DeadlineInv, VotesCounted, HeldIsAgreed
<1>3. h \in AgreedHashes
  BY <1>1, <1>2, HashAssumption DEF HeldHashes
<1>4. PICK i \in 1..Len(variants) : /\ variants[i].hash = h
                                    /\ Cardinality(Voters(i)) >= quorum
                                    /\ VotesCast
  BY <1>3 DEF AgreedHashes
<1> DEFINE vote      == [a \in Addresses |-> VoteOf(a)]
           backers == {a \in MemberSet : vote[a] = h}
<1>5. Voters(i) \subseteq backers
  BY <1>1, <1>4, MembersAreAddresses DEF Voters, VoteOf
<1>6. Cardinality(backers) >= quorum
  <2>1. IsFiniteSet(backers)
    BY MembersCounted, FS_Subset
  <2>2. Cardinality(Voters(i)) <= Cardinality(backers) /\ Cardinality(backers) \in Nat
        /\ Cardinality(Voters(i)) \in Nat
    BY <1>5, <2>1, FS_Subset, FS_CardinalityType
  <2> QED
    BY <1>4, <2>2 DEF TypeOK
<1>7. h \in Voting!Agreed
  <2>1. Voting!Supporters(h) = backers
    BY DEF Voting!Supporters
  <2> HIDE DEF backers
  <2> QED
    BY <1>6, <2>1, VotingCardinality DEF Voting!Agreed
<1>8. /\ UNCHANGED <<now, frameConfig, members, memberState, quorum, variants, reporting,
                     processor>>
      /\ oracle' = [oracle EXCEPT ![processor].lastProcessing = oracle[processor].refSlot]
  BY DEF ProcessReport, StartProcessing, committeeVars, votingVars, processorVars
<1>9. Started' = Started /\ CurrentFrame' = CurrentFrame /\ MemberSet' = MemberSet
  BY <1>8, FrameUnchanged DEF MemberSet
<1>10. GetLastProcessingRefSlot' = CurrentFrame.refSlot
  BY <1>1, <1>8 DEF GetLastProcessingRefSlot, TypeOK, OracleState
<1>11. vote' = vote
  BY <1>8, <1>9 DEF VoteOf, VotesCast
<1> QED
  BY <1>1, <1>7, <1>8, <1>9, <1>10, <1>11 DEF Voting!Process, VotingOpen

\* Every step of the committee is a step of CommitteeVoting, or changes nothing
\* that CommitteeVoting knows of.
LEMMA StepRefines ==
  ASSUME OneDeployment, TypeOK, SlotsInv, CountInv, DeadlineInv, [Next]_vars
  PROVE  [Voting!Next]_Voting!vars
<1>0. processor' = processor /\ TypeOK' /\ SlotsInv' /\ processor \in Processors
  BY DeploymentStays, NextTyped, NextSlots DEF DeadlineInv, TypeOK
<1>1. CASE /\ UNCHANGED <<members, memberState, quorum, variants, reporting>>
           /\ GetLastProcessingRefSlot' = GetLastProcessingRefSlot
  BY <1>1, FrameMovesRefine DEF Voting!Next
<1>2. CASE \/ \E a \in Addresses, q \in Quorums : AddMember(a, q)
           \/ \E a \in Addresses, q \in Quorums : RemoveMember(a, q)
           \/ \E q \in Quorums : SetQuorum(q)
           \/ DisableConsensus
  BY <1>2, CommitteeRefines DEF Voting!Next
<1>3. CASE \E a \in Addresses, h \in Hashes : SubmitReport(a, h)
  BY <1>0, <1>3, SubmitRefines DEF Voting!Next
<1>4. CASE \E p \in Processors, h \in Hashes : ProcessReport(p, h)
  <2>1. PICK p \in Processors, h \in Hashes : ProcessReport(p, h)
    BY <1>4
  <2>2. CASE p = processor
    BY <2>1, <2>2, ProcessRefines DEF Voting!Next
  <2>3. CASE p # processor
    <3>1. /\ UNCHANGED <<members, memberState, quorum, variants, reporting>>
          /\ oracle'[processor] = oracle[processor]
      BY <1>0, <2>1, <2>3
         DEF ProcessReport, StartProcessing, committeeVars, votingVars, TypeOK
    <3> QED
      BY <1>0, <1>1, <3>1 DEF GetLastProcessingRefSlot
  <2> QED
    BY <2>2, <2>3
<1>5. CASE \E p \in Processors, v \in Versions : ChangeConsensusVersion(p, v)
  <2>1. /\ UNCHANGED <<members, memberState, quorum, variants, reporting>>
        /\ oracle'[processor].lastProcessing = oracle[processor].lastProcessing
    BY <1>0, <1>5 DEF ChangeConsensusVersion, SetConsensusVersion, committeeVars, votingVars,
                      TypeOK, OracleState
  <2> QED
    BY <1>0, <1>1, <2>1 DEF GetLastProcessingRefSlot
<1>6. ~ \E p \in Processors : SetReportProcessor(p)
  BY DEF SetReportProcessor, OneDeployment, DeadlineInv
<1> QED
  BY <1>1, <1>2, <1>3, <1>4, <1>5, <1>6
     DEF Next, vars, committeeVars, votingVars, processorVars, Tick, UpdateInitialEpoch,
         SetFrameConfig, SetFastLaneLengthSlots, GetLastProcessingRefSlot

\* The initial states.
LEMMA InitRefines == Init => Voting!Init /\ DeadlineInv
<1> SUFFICES ASSUME Init PROVE Voting!Init /\ DeadlineInv
  OBVIOUS
<1>1. TypeOK
  BY InitTyped
<1>2. ~Started
  <2>1. EpochAt(now) = 0
    BY SlotsAssumption DEF Init, EpochAt
  <2>2. frameConfig.initialEpoch \in Nat \ {0}
    BY <1>1 DEF TypeOK, FrameConfig
  <2> QED
    BY <2>1, <2>2 DEF Started, FrameStarted
<1>3. /\ MemberSet = {} /\ quorum = 0 /\ switches = 0
      /\ frameConfig.epochsPerFrame \in FrameLengths
  BY EmptySeq DEF Init, MemberSet
<1>4. /\ oracle[processor].lastProcessing = 0 /\ oracle[processor].refSlot = 0
      /\ oracle[processor].hash = ZeroHash /\ oracle[processor].deadline = 0
  BY DEF Init, InitialOracle
<1>5. FrameLength(frameConfig) \in Nat
  BY <1>1, SlotsAssumption DEF TypeOK, FrameConfig, FrameLength
<1>6. \A a \in Addresses : VoteOf(a) = ZeroHash
  BY <1>2 DEF VoteOf
<1> QED
  BY <1>2, <1>3, <1>4, <1>5, <1>6 DEF DeadlineInv, Voting!Init, GetLastProcessingRefSlot

\* A committee with one frame length, whose processor is not replaced, implements
\* CommitteeVoting: what is processed, once a frame, is what a quorum of the
\* current members votes for at that very moment.
THEOREM CommitteeImplementsVoting ==
  ASSUME OneDeployment
  PROVE  Spec => ImplementsVoting
<1>1. Init => CountInv /\ Voting!Init /\ DeadlineInv
  BY InitCount, InitRefines
<1>2. Inv /\ CountInv /\ DeadlineInv /\ [Next]_vars => CountInv' /\ DeadlineInv'
  BY NextKeepsCount, NextDeadline DEF Inv
<1>3. Inv /\ CountInv /\ DeadlineInv /\ [Next]_vars => [Voting!Next]_Voting!vars
  BY StepRefines DEF Inv
<1> QED
  BY <1>1, <1>2, <1>3, Invariant, PTL DEF Spec, ImplementsVoting, Voting!Spec
===================================================================================
