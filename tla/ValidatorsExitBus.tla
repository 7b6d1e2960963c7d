----------------------------- MODULE ValidatorsExitBus ----------------------------
(***************************************************************************)
(* ValidatorsExitBusOracle.sol: committee reports that ask validators to   *)
(* exit.  The whole report comes in one transaction; a pause keeps reports *)
(* out, and the committee's clock runs on.                                 *)
(*                                                                         *)
(* A report is its list of requests, and that list stands for its hash.    *)
(* Any list may be agreed on.  Public keys are left out, and so is the     *)
(* data format with the length that goes with it.  Time is in slots.       *)
(***************************************************************************)
EXTENDS Frames, BaseOracle, PausableUntil, SequencesExt

CONSTANTS Self,            \* the address of the exit bus
          Config,          \* the committee's frame configuration, which stays
          NodeOpIds,       \* a node operator id is below this (2^40)
          Indices,         \* a validator index is below this (2^64)
          Modules,         \* bound: a module id is one of 0..Modules
          MaxRequests,     \* maxValidatorExitRequestsPerReport of the sanity checker
          Durations,       \* bound: arguments of pauseFor
          PauseEnds,       \* bound: arguments of pauseUntil
          MaxSlot          \* bound: the clock stops here

ExitRequest == [module : 0..Modules, nodeOp : 0..NodeOpIds-1, index : 0..Indices-1]

\* _computeNodeOpKey
NodeOpKey(r) == r.module * NodeOpIds + r.nodeOp

Keys == 0..(Modules + 1) * NodeOpIds - 1

ASSUME ExitBusAssumption ==
  /\ Processors = {Self} /\ Hashes \subseteq Seq(ExitRequest) /\ Versions # {}
  /\ Config \in FrameConfig /\ ValidConfig(Config)
  /\ NodeOpIds \in Nat \ {0} /\ Indices \in Nat \ {0} /\ Modules \in Nat
  /\ PAUSE_INFINITELY \in Nat /\ MaxSlot \in Nat /\ PAUSE_INFINITELY > MaxSlot
  /\ Durations \subseteq Nat /\ PauseEnds \subseteq 0..PAUSE_INFINITELY

VARIABLES lastIndex,       \* lastRequestedValidatorIndices, NONE if there is none
          totalRequestsProcessed,
          dataState,       \* DataProcessingState
          observed,        \* external: what reports are computed from,
                           \* [refSlot, lastIndex] at the last reference slot
          requested        \* history: the ValidatorExitRequest events

busVars == <<lastIndex, totalRequestsProcessed, dataState, requested>>
vars == <<now, resumeSince, oracle, busVars, observed>>

NONE == -1

Init ==
  /\ now = 0
  /\ resumeSince = PAUSE_INFINITELY
  /\ oracle = [p \in Processors |-> InitialOracle(CHOOSE v \in Versions : TRUE, 0)]
  /\ lastIndex = [k \in Keys |-> NONE]
  /\ totalRequestsProcessed = 0
  /\ dataState = [refSlot |-> 0, requestsCount |-> 0]
  /\ observed = [refSlot |-> 0, lastIndex |-> lastIndex]
  /\ requested = {}

-------------------------------------------------------------------------------
\* The world

\* A report covers the block of its reference slot, so it is taken at its end.
Tick ==
  /\ now < MaxSlot
  /\ now' = now + 1
  /\ observed' = IF FrameStarted(now + 1, Config) /\ RefSlotAt(now + 1, Config) = now
                 THEN [refSlot |-> now, lastIndex |-> lastIndex] ELSE observed
  /\ UNCHANGED <<resumeSince, oracle, busVars>>

\* The committee of HashConsensus.tla agrees on a list, or loses it again.
Agree(list) ==
  /\ FrameStarted(now, Config)
  /\ SubmitConsensusReport(Self, list, RefSlotAt(now, Config),
                           FrameAt(now, Config).deadlineSlot, now)
  /\ UNCHANGED <<now, resumeSince, busVars, observed>>

Disagree ==
  /\ FrameStarted(now, Config)
  /\ DiscardConsensusReport(Self, RefSlotAt(now, Config))
  /\ UNCHANGED <<now, resumeSince, busVars, observed>>

\* resume, pauseFor, pauseUntil
ChangePause ==
  /\ \/ Resume
     \/ \E d \in Durations : PauseFor(d)
     \/ \E e \in PauseEnds : PauseUntil(e)
  /\ UNCHANGED <<now, oracle, busVars, observed>>

-------------------------------------------------------------------------------
\* The list of a report: requests in ascending order of (module, node operator,
\* index).  The last index of an operator is kept aside while its requests pass
\* and is written back when the next operator's begin.

PackedRequest(r) == NodeOpKey(r) * Indices + r.index

ListStart == [lastPacked |-> 0, lastKey |-> 0, lastRequested |-> NONE,
              stored |-> lastIndex, accepted |-> TRUE]

\* Fault: the operator that was kept aside last is written under its own key
\* only if it had been requested before.
WrittenBack_Fault(s) == IF s.lastKey = 0 \/ s.stored[s.lastKey] = NONE THEN s.stored
                        ELSE [s.stored EXCEPT ![s.lastKey] = s.lastRequested]
WrittenBack(s) == IF s.lastKey = 0 THEN s.stored
                  ELSE [s.stored EXCEPT ![s.lastKey] = s.lastRequested]

Fetched(s, key) == IF key = s.lastKey THEN s
                   ELSE [s EXCEPT !.stored = WrittenBack(s), !.lastKey = key,
                                  !.lastRequested = WrittenBack(s)[key]]

TakeRequest(s, r) ==
  LET f == Fetched(s, NodeOpKey(r))
  IN [f EXCEPT !.lastPacked = PackedRequest(r),
               !.lastRequested = r.index,
               !.accepted = /\ @
                            /\ PackedRequest(r) > s.lastPacked
                            /\ r.module # 0
                            /\ r.index > f.lastRequested]

\* _processExitRequestsList
ProcessExitRequestsList(list) ==
  LET end == FoldLeft(TakeRequest, ListStart, list)
  IN /\ end.accepted
     /\ lastIndex' = WrittenBack(end)
     /\ requested' = requested \cup {<<NodeOpKey(r), r.index>> : r \in ToSet(list)}

\* submitReportData
SubmitReportData(list) ==
  /\ ~IsPaused
  /\ StartProcessing(Self, list, now)
  /\ Len(list) <= MaxRequests
  /\ ProcessExitRequestsList(list)
  /\ dataState' = [refSlot |-> oracle[Self].refSlot, requestsCount |-> Len(list)]
  /\ totalRequestsProcessed' = totalRequestsProcessed + Len(list)
  /\ UNCHANGED <<now, resumeSince, observed>>

-------------------------------------------------------------------------------
Next ==
  \/ Tick
  \/ \E list \in Hashes : Agree(list)
  \/ Disagree
  \/ ChangePause
  \/ \E list \in Hashes : SubmitReportData(list)

Spec == Init /\ [][Next]_vars

-------------------------------------------------------------------------------
\* Properties

\* Types; a pause never ends after the end of time: adding to the time of an
\* infinite pause would overflow.
TypeOK ==
  /\ now \in Nat /\ resumeSince \in 0..PAUSE_INFINITELY
  /\ oracle \in [Processors -> OracleState]
  /\ lastIndex \in [Keys -> Nat \cup {NONE}]
  /\ totalRequestsProcessed \in Nat
  /\ dataState \in [refSlot : Nat, requestsCount : Nat]

\* No validator is asked to exit twice, in one report or in different ones, also
\* when its index is 0: each counted request is of a validator of its own, and
\* the index kept for an operator is the highest that was requested.
RequestedOnce ==
  /\ totalRequestsProcessed = Cardinality(requested)
  /\ \A k \in Keys :
       LET of == {v \in requested : v[1] = k}
       IN IF of = {} THEN lastIndex[k] = NONE
          ELSE /\ <<k, lastIndex[k]>> \in of
               /\ \A v \in of : v[2] <= lastIndex[k]

\* Until a report is delivered, the indices it was computed from stay, however
\* long a pause kept it and whichever report was missed: a list that continues
\* them is not refused for its indices.
AttestedIndicesHold ==
  LET report == oracle[Self]
  IN /\ report.hash # ZeroHash
     /\ report.lastProcessing # report.refSlot
     /\ now <= report.deadline
     => observed.refSlot = report.refSlot /\ observed.lastIndex = lastIndex
===================================================================================
