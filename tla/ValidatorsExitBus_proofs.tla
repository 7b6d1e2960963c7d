-------------------------- MODULE ValidatorsExitBus_proofs ------------------------
(***************************************************************************)
(* A report is delivered on the state it was computed from, for every      *)
(* frame configuration, every set of lists and a clock without end.        *)
(***************************************************************************)
EXTENDS ValidatorsExitBus, Foundations

stored == oracle[Self]

CurrentRefSlot == RefSlotAt(now, Config)

StorageTyped ==
  /\ now \in Nat
  /\ oracle \in [Processors -> OracleState]
  /\ stored.lastProcessing <= stored.refSlot

\* The stored report's deadline is one frame after its reference slot: until
\* it passes, the report is one of the current frame.
DeadlineInv ==
  stored.hash # ZeroHash =>
    /\ FrameStarted(now, Config)
    /\ stored.deadline = stored.refSlot + FrameLength(Config)
    /\ now <= stored.deadline => stored.refSlot = CurrentRefSlot

\* What was observed at the last reference slot is changed only by processing a
\* report of that slot.
ObservedInv ==
  /\ FrameStarted(now, Config) => observed.refSlot = CurrentRefSlot
  /\ observed.lastIndex # lastIndex => /\ FrameStarted(now, Config)
                                       /\ stored.lastProcessing >= CurrentRefSlot

Inv == StorageTyped /\ DeadlineInv /\ ObservedInv

-------------------------------------------------------------------------------
\* The calls of the committee and the start of processing

\* Facts about the storage of the one processor.
LEMMA StoredFacts ==
  ASSUME StorageTyped
  PROVE  /\ Self \in Processors /\ Self \in DOMAIN oracle
         /\ stored \in OracleState
         /\ stored.lastProcessing \in Nat /\ stored.refSlot \in Nat /\ stored.deadline \in Nat
BY ExitBusAssumption DEF StorageTyped, stored, OracleState

\* Facts about the current frame.
LEMMA FrameOfNow ==
  ASSUME StorageTyped, FrameStarted(now, Config)
  PROVE  /\ CurrentRefSlot \in Nat /\ FrameLength(Config) \in Nat
         /\ FrameAt(now, Config).deadlineSlot = CurrentRefSlot + FrameLength(Config)
BY ExitBusAssumption, SlotInFrame DEF StorageTyped, CurrentRefSlot

\* A report of the right types keeps the storage typed.
LEMMA StoreTyped ==
  ASSUME oracle \in [Processors -> OracleState], NEW p \in Processors,
         NEW h \in Hashes, NEW r \in Nat, NEW d \in Nat,
         oracle' = [oracle EXCEPT ![p].hash = h, ![p].refSlot = r, ![p].deadline = d]
  PROVE  oracle' \in [Processors -> OracleState]
BY DEF OracleState

\* Initially nothing is stored, and what is observed is what there is.
LEMMA InitInv == Init => Inv
<1> SUFFICES ASSUME Init PROVE Inv
  OBVIOUS
<1> DEFINE v == CHOOSE w \in Versions : TRUE
<1>1. v \in Versions
  BY ExitBusAssumption
<1> HIDE DEF v
<1>2. oracle = [p \in Processors |-> InitialOracle(v, 0)]
  BY DEF Init, v
<1>3. oracle \in [Processors -> OracleState]
  BY <1>1, <1>2 DEF InitialOracle, OracleState
<1>4. stored = InitialOracle(v, 0)
  BY <1>2, ExitBusAssumption DEF stored
<1>5. StorageTyped
  BY <1>3, <1>4 DEF StorageTyped, Init, InitialOracle
<1>6. DeadlineInv
  BY <1>4 DEF DeadlineInv, InitialOracle
<1>7. now = 0 /\ observed.lastIndex = lastIndex
  BY DEF Init
<1>8. ~FrameStarted(0, Config)
  BY SlotsAssumption, ExitBusAssumption DEF FrameStarted, EpochAt, FrameConfig
<1>9. ObservedInv
  BY <1>7, <1>8 DEF ObservedInv
<1> QED
  BY <1>5, <1>6, <1>9 DEF Inv

\* A slot passes: a new frame begins only after the deadline of the last, and
\* with it a new observation.
LEMMA TickInv ==
  ASSUME Inv, Tick
  PROVE  Inv'
<1>1. /\ now' = now + 1 /\ UNCHANGED <<oracle, lastIndex>>
      /\ observed' = IF FrameStarted(now + 1, Config) /\ RefSlotAt(now + 1, Config) = now
                     THEN [refSlot |-> now, lastIndex |-> lastIndex] ELSE observed
  BY DEF Tick, busVars
<1>2. StorageTyped' /\ now \in Nat /\ Config \in FrameConfig /\ stored' = stored
  BY <1>1, ExitBusAssumption DEF Inv, StorageTyped, stored
<1>3. CASE ~FrameStarted(now + 1, Config)
  <2>1. ~FrameStarted(now, Config)
    BY <1>2, <1>3, now + 1 \in Nat, now <= now + 1, RefSlotGrowsWithTime
  <2>2. stored.hash = ZeroHash /\ observed.lastIndex = lastIndex
    BY <2>1 DEF Inv, DeadlineInv, ObservedInv
  <2> QED
    BY <1>1, <1>2, <1>3, <2>2 DEF Inv, DeadlineInv, ObservedInv
<1>4. CASE FrameStarted(now, Config) /\ RefSlotAt(now + 1, Config) = CurrentRefSlot
  <2>1. FrameStarted(now + 1, Config) /\ CurrentRefSlot' = CurrentRefSlot
    BY <1>1, <1>2, <1>4, now + 1 \in Nat, now <= now + 1, RefSlotGrowsWithTime DEF CurrentRefSlot
  <2>2. CurrentRefSlot < now
    BY <1>2, <1>4, SlotInFrame DEF CurrentRefSlot
  <2>3. observed' = observed
    BY <1>1, <1>2, <1>4, <2>2, CurrentRefSlot # now, FrameOfNow DEF Inv
  <2>4. now' <= stored.deadline => now <= stored.deadline
    BY <1>1, <1>2, StoredFacts DEF Inv
  <2> QED
    BY <1>1, <1>2, <1>4, <2>1, <2>3, <2>4 DEF Inv, DeadlineInv, ObservedInv
<1>5. CASE /\ FrameStarted(now + 1, Config) /\ RefSlotAt(now + 1, Config) = now
           /\ FrameStarted(now, Config) => now >= CurrentRefSlot + FrameLength(Config)
  <2>1. observed' = [refSlot |-> now, lastIndex |-> lastIndex]
    BY <1>1, <1>5
  <2>2. stored.hash # ZeroHash => stored.deadline < now + 1
    <3> SUFFICES ASSUME stored.hash # ZeroHash, ~(stored.deadline < now + 1) PROVE FALSE
      OBVIOUS
    <3>1. stored.deadline \in Nat /\ stored.refSlot \in Nat
      BY StoredFacts DEF Inv
    <3>2. /\ FrameStarted(now, Config)
          /\ stored.deadline = stored.refSlot + FrameLength(Config)
          /\ stored.refSlot = CurrentRefSlot
      BY <1>2, <3>1 DEF Inv, DeadlineInv
    <3>3. CurrentRefSlot \in Nat /\ FrameLength(Config) \in Nat
      BY <3>2, FrameOfNow DEF Inv
    <3> QED
      BY <1>2, <1>5, <3>1, <3>2, <3>3
  <2>3. DeadlineInv'
    <3> SUFFICES ASSUME stored.hash # ZeroHash
                 PROVE  /\ FrameStarted(now + 1, Config)
                        /\ stored.deadline = stored.refSlot + FrameLength(Config)
                        /\ ~(now + 1 <= stored.deadline)
      BY <1>1, <1>2 DEF DeadlineInv
    <3> QED
      BY <1>2, <1>5, <2>2, StoredFacts DEF Inv, DeadlineInv
  <2>4. ObservedInv'
    BY <1>1, <1>5, <2>1 DEF ObservedInv, CurrentRefSlot
  <2> QED
    BY <1>2, <2>3, <2>4 DEF Inv
<1> QED
  BY <1>2, <1>3, <1>4, <1>5, NextSlot DEF CurrentRefSlot

\* A report for a slot that is being processed is refused, so an agreed one
\* finds what was observed.
LEMMA AgreeInv ==
  ASSUME Inv, NEW list \in Hashes, Agree(list)
  PROVE  Inv'
<1> DEFINE r == RefSlotAt(now, Config)
           d == FrameAt(now, Config).deadlineSlot
<1>1. /\ FrameStarted(now, Config)
      /\ r > stored.lastProcessing
      /\ oracle' = [oracle EXCEPT ![Self].hash = list, ![Self].refSlot = r, ![Self].deadline = d]
      /\ UNCHANGED <<now, lastIndex, observed>>
  BY DEF Agree, SubmitConsensusReport, SubmitAccepted, busVars, stored
<1>2. r = CurrentRefSlot /\ r \in Nat /\ d = r + FrameLength(Config) /\ FrameLength(Config) \in Nat
  BY <1>1, FrameOfNow DEF Inv, CurrentRefSlot
<1> HIDE DEF r, d
<1>3. /\ Self \in Processors /\ stored \in OracleState /\ d \in Nat
      /\ oracle \in [Processors -> OracleState]
  BY <1>2, StoredFacts DEF Inv, StorageTyped
<1>4. stored' = [stored EXCEPT !.hash = list, !.refSlot = r, !.deadline = d]
  BY <1>1, <1>3 DEF stored
<1>5. oracle' \in [Processors -> OracleState]
  BY <1>1, <1>2, <1>3, StoreTyped
<1>6. /\ stored'.hash = list /\ stored'.refSlot = r /\ stored'.deadline = d
      /\ stored'.lastProcessing = stored.lastProcessing /\ stored.lastProcessing \in Nat
  BY <1>3, <1>4 DEF OracleState
<1>7. StorageTyped'
  BY <1>1, <1>2, <1>5, <1>6 DEF StorageTyped, Inv
<1>8. CurrentRefSlot' = CurrentRefSlot
  BY <1>1 DEF CurrentRefSlot
<1>9. DeadlineInv'
  BY <1>1, <1>2, <1>6, <1>8 DEF DeadlineInv
<1>10. ObservedInv'
  BY <1>1, <1>6, <1>8 DEF Inv, ObservedInv
<1> QED
  BY <1>7, <1>9, <1>10 DEF Inv

\* A report that is lost leaves the rest as it is.
LEMMA DisagreeInv ==
  ASSUME Inv, Disagree
  PROVE  Inv'
<1>1. /\ UNCHANGED <<now, lastIndex, observed>>
      /\ oracle' = oracle \/ oracle' = [oracle EXCEPT ![Self].hash = ZeroHash]
  BY DEF Disagree, DiscardConsensusReport, busVars
<1>2. CurrentRefSlot' = CurrentRefSlot
  BY <1>1 DEF CurrentRefSlot
<1>3. CASE oracle' = oracle
  BY <1>1, <1>2, <1>3 DEF Inv, StorageTyped, DeadlineInv, ObservedInv, stored
<1>4. CASE oracle' = [oracle EXCEPT ![Self].hash = ZeroHash]
  <2>1. Self \in Processors /\ stored \in OracleState /\ oracle \in [Processors -> OracleState]
    BY StoredFacts DEF Inv, StorageTyped
  <2>2. stored' = [stored EXCEPT !.hash = ZeroHash] /\ oracle' \in [Processors -> OracleState]
    BY <1>4, <2>1 DEF stored, OracleState
  <2>3. /\ stored'.hash = ZeroHash /\ stored'.refSlot = stored.refSlot
        /\ stored'.lastProcessing = stored.lastProcessing
    BY <2>1, <2>2 DEF OracleState
  <2> QED
    BY <1>1, <1>2, <2>2, <2>3 DEF Inv, StorageTyped, DeadlineInv, ObservedInv
<1> QED
  BY <1>1, <1>3, <1>4

\* What is processed is the report of the current frame.
LEMMA SubmitReportDataInv ==
  ASSUME Inv, NEW list \in Hashes, SubmitReportData(list)
  PROVE  Inv'
<1>1. /\ stored.hash # ZeroHash /\ now <= stored.deadline
      /\ oracle' = [oracle EXCEPT ![Self].lastProcessing = stored.refSlot]
      /\ UNCHANGED <<now, observed>>
  BY DEF SubmitReportData, StartProcessing, stored
<1>2. FrameStarted(now, Config) /\ stored.refSlot = CurrentRefSlot
  BY <1>1 DEF Inv, DeadlineInv
<1>3. /\ Self \in Processors /\ stored \in OracleState /\ stored.refSlot \in Nat
      /\ oracle \in [Processors -> OracleState]
  BY StoredFacts DEF Inv, StorageTyped
<1>4. /\ stored' = [stored EXCEPT !.lastProcessing = stored.refSlot]
      /\ oracle' \in [Processors -> OracleState]
  BY <1>1, <1>3 DEF stored, OracleState
<1>5. /\ stored'.hash = stored.hash /\ stored'.refSlot = stored.refSlot
      /\ stored'.deadline = stored.deadline /\ stored'.lastProcessing = stored.refSlot
  BY <1>3, <1>4 DEF OracleState
<1>6. CurrentRefSlot' = CurrentRefSlot
  BY <1>1 DEF CurrentRefSlot
<1>7. StorageTyped'
  BY <1>1, <1>3, <1>4, <1>5 DEF Inv, StorageTyped
<1>8. DeadlineInv'
  BY <1>1, <1>5, <1>6 DEF Inv, DeadlineInv
<1>9. ObservedInv'
  BY <1>1, <1>2, <1>3, <1>5, <1>6 DEF Inv, ObservedInv
<1> QED
  BY <1>7, <1>8, <1>9 DEF Inv

\* Every step keeps the invariant.
LEMMA NextInv == Inv /\ [Next]_vars => Inv'
<1> SUFFICES ASSUME Inv, [Next]_vars PROVE Inv'
  OBVIOUS
<1>1. CASE UNCHANGED <<now, oracle, lastIndex, observed>>
  BY <1>1 DEF Inv, StorageTyped, DeadlineInv, ObservedInv, stored, CurrentRefSlot
<1>2. CASE ChangePause
  BY <1>1, <1>2 DEF ChangePause, busVars
<1>3. CASE UNCHANGED vars
  BY <1>1, <1>3 DEF vars, busVars
<1> QED
  BY <1>2, <1>3, TickInv, AgreeInv, DisagreeInv, SubmitReportDataInv DEF Next

-------------------------------------------------------------------------------
\* The theorems

\* The three facts hold of every reachable state.
THEOREM Invariant == Spec => []Inv
<1>1. Init => Inv
  BY InitInv
<1>2. Inv /\ [Next]_vars => Inv'
  BY NextInv
<1> QED
  BY <1>1, <1>2, PTL DEF Spec

\* Until a report is delivered, the indices it was computed from stay as they
\* were at its reference slot, for any pauses, missed and lost reports.
THEOREM AttestedIndicesAlwaysHold == Spec => []AttestedIndicesHold
<1>1. Inv => AttestedIndicesHold
  <2> SUFFICES ASSUME Inv, stored.hash # ZeroHash,
                      stored.lastProcessing # stored.refSlot, now <= stored.deadline
               PROVE  observed.refSlot = stored.refSlot /\ observed.lastIndex = lastIndex
    BY DEF AttestedIndicesHold, stored
  <2>1. FrameStarted(now, Config) /\ stored.refSlot = CurrentRefSlot
    BY DEF Inv, DeadlineInv
  <2>2. stored.lastProcessing < stored.refSlot
    BY StoredFacts DEF Inv, StorageTyped
  <2>3. ~(stored.lastProcessing >= CurrentRefSlot)
    BY <2>1, <2>2, StoredFacts DEF Inv
  <2> QED
    BY <2>1, <2>3 DEF Inv, ObservedInv
<1> QED
  BY <1>1, Invariant, PTL

-------------------------------------------------------------------------------
\* The list of a report

Index == Nat \cup {NONE}

ListState == [lastPacked : Nat, lastKey : Keys, lastRequested : Index, stored : [Keys -> Index],
              accepted : BOOLEAN]

\* Keys of requests are keys, and the key of no operator of a module is 0.
LEMMA KeyTyped ==
  ASSUME NEW r \in ExitRequest
  PROVE  /\ NodeOpKey(r) \in Keys /\ PackedRequest(r) \in Nat /\ r.index \in Nat
         /\ r.module # 0 => NodeOpKey(r) # 0
<1>1. /\ NodeOpIds \in Nat \ {0} /\ Indices \in Nat \ {0} /\ Modules \in Nat
      /\ r.module \in 0..Modules /\ r.nodeOp \in 0..NodeOpIds - 1 /\ r.index \in 0..Indices - 1
  BY ExitBusAssumption DEF ExitRequest
<1>2. PICK d \in Nat : Modules = r.module + d
  BY <1>1, Modules - r.module \in Nat
<1>3. /\ r.module * NodeOpIds \in Nat /\ d * NodeOpIds \in Nat
      /\ (Modules + 1) * NodeOpIds = r.module * NodeOpIds + d * NodeOpIds + NodeOpIds
  BY <1>1, <1>2
<1>4. NodeOpKey(r) \in Keys /\ NodeOpKey(r) \in Nat
  BY <1>1, <1>3 DEF NodeOpKey, Keys
<1>5. PackedRequest(r) \in Nat
  <2> DEFINE k == NodeOpKey(r)
  <2> HIDE DEF k
  <2>1. k \in Nat => k * Indices + r.index \in Nat
    BY <1>1
  <2> QED
    BY <1>4, <2>1 DEF PackedRequest, k
<1>6. r.module # 0 => NodeOpKey(r) # 0
  <2> SUFFICES ASSUME r.module # 0 PROVE NodeOpKey(r) # 0
    OBVIOUS
  <2>1. PICK c \in Nat : r.module = c + 1
    BY <1>1, r.module - 1 \in Nat
  <2>2. r.module * NodeOpIds = c * NodeOpIds + NodeOpIds /\ c * NodeOpIds \in Nat
    BY <1>1, <2>1
  <2> QED
    BY <1>1, <2>2 DEF NodeOpKey
<1> QED
  BY <1>1, <1>4, <1>5, <1>6

\* What the loop does with one request keeps its state typed.
LEMMA TakeTyped ==
  ASSUME NEW s \in ListState, NEW r \in ExitRequest
  PROVE  /\ TakeRequest(s, r) \in ListState
         /\ WrittenBack(s) \in [Keys -> Index]
         /\ Fetched(s, NodeOpKey(r)) \in ListState
<1>1. NodeOpKey(r) \in Keys /\ PackedRequest(r) \in Nat /\ r.index \in Nat
  BY KeyTyped
<1>2. WrittenBack(s) \in [Keys -> Index]
  BY DEF ListState, WrittenBack
<1>3. WrittenBack(s)[NodeOpKey(r)] \in Index
  BY <1>1, <1>2
<1> DEFINE key == NodeOpKey(r)
           W   == WrittenBack(s)
<1>4. Fetched(s, key) \in ListState
  <2> HIDE DEF key, W
  <2>1. W \in [Keys -> Index] /\ W[key] \in Index /\ key \in Keys
    BY <1>1, <1>2, <1>3 DEF key, W
  <2>2. Fetched(s, key) = IF key = s.lastKey THEN s
                          ELSE [s EXCEPT !.stored = W, !.lastKey = key, !.lastRequested = W[key]]
    BY DEF Fetched, W
  <2> QED
    BY <2>1, <2>2 DEF ListState
<1> DEFINE f == Fetched(s, key)
<1>5. TakeRequest(s, r) \in ListState
  <2> DEFINE ok == /\ f.accepted
                   /\ PackedRequest(r) > s.lastPacked
                   /\ r.module # 0
                   /\ r.index > f.lastRequested
  <2>1. TakeRequest(s, r) = [f EXCEPT !.lastPacked = PackedRequest(r),
                                      !.lastRequested = r.index, !.accepted = ok]
    BY DEF TakeRequest
  <2>2. ok \in BOOLEAN
    OBVIOUS
  <2>3. f \in ListState /\ r.index \in Index
    BY <1>1, <1>4 DEF Index
  <2> HIDE DEF f, ok
  <2> QED
    BY <1>1, <2>1, <2>2, <2>3 DEF ListState
<1> QED
  BY <1>2, <1>4, <1>5

\* The loop goes through the list in order.
LEMMA ListSteps ==
  ASSUME lastIndex \in [Keys -> Index], NEW list \in Seq(ExitRequest)
  PROVE  \E g \in [0..Len(list) -> ListState] :
           /\ g[0] = ListStart
           /\ \A k \in 1..Len(list) : g[k] = TakeRequest(g[k - 1], list[k])
           /\ g[Len(list)] = FoldLeft(TakeRequest, ListStart, list)
<1> DEFINE n == Len(list)
           f == [k \in 1..n |-> [s \in ListState |-> TakeRequest(s, list[k])]]
           Eq(v) == v = [T \in SUBSET (DOMAIN list) |->
                           IF T = {} THEN ListStart
                           ELSE TakeRequest(v[T \ {Max(T)}], list[Max(T)])]
<1>1. n \in Nat /\ DOMAIN list = 1..n /\ \A k \in 1..n : list[k] \in ExitRequest
  BY LenProperties, ElementOfSeq
<1>2. f \in [1..n -> [ListState -> ListState]]
  BY <1>1, TakeTyped
<1>3. ListStart \in ListState
  <2>1. 0 \in Keys
    <3>1. (Modules + 1) * NodeOpIds = Modules * NodeOpIds + NodeOpIds /\ Modules * NodeOpIds \in Nat
      BY ExitBusAssumption
    <3> QED
      BY <3>1, ExitBusAssumption DEF Keys
  <2> QED
    BY <2>1 DEF ListStart, ListState, Index
<1>4. PICK u \in [SUBSET (1..n) -> ListState] :
        \A T \in SUBSET (1..n) : u[T] = IF T = {} THEN ListStart ELSE f[Max(T)][u[T \ {Max(T)}]]
  <2> DEFINE b == ListStart
             R == ListState
  <2>1. b \in R /\ f \in [1..n -> [R -> R]] /\ n \in Nat
    BY <1>1, <1>2, <1>3
  <2>2. \E u \in [SUBSET (1..n) -> R] : FoldsUp(u, b, n, f)
    <3> HIDE DEF f, n, b, R
    <3> QED
      BY <2>1, FoldExists
  <2> QED
    BY <2>2 DEF FoldsUp
<1>5. Eq(u)
  <2> DEFINE w == [T \in SUBSET (1..n) |-> IF T = {} THEN ListStart
                                           ELSE TakeRequest(u[T \ {Max(T)}], list[Max(T)])]
  <2>1. ASSUME NEW T \in SUBSET (1..n), T # {}
        PROVE  u[T] = TakeRequest(u[T \ {Max(T)}], list[Max(T)])
    <3>1. Max(T) \in 1..n /\ T \ {Max(T)} \in SUBSET (1..n)
      BY <1>1, <2>1, MaxFacts
    <3>2. u[T \ {Max(T)}] \in ListState /\ u[T] = f[Max(T)][u[T \ {Max(T)}]]
      BY <1>4, <2>1, <3>1
    <3> QED
      BY <3>1, <3>2
  <2>2. \A T \in SUBSET (1..n) : u[T] = w[T]
    BY <1>4, <2>1
  <2>3. u = w
    BY <2>2
  <2> QED
    BY <1>1, <2>3
<1> DEFINE v == CHOOSE x : Eq(x)
<1>6. Eq(v)
  <2> HIDE DEF Eq
  <2> QED
    BY <1>5
<1>7. FoldLeft(TakeRequest, ListStart, list) = v[1..n]
  BY <1>1 DEF FoldLeft, MapThenFoldSet
<1> HIDE DEF v
<1>8. v[{}] = ListStart /\ \A k \in 1..n : v[1..k] = TakeRequest(v[1..k - 1], list[k])
  <2>1. v[{}] = ListStart
    BY <1>6
  <2>2. ASSUME NEW k \in 1..n PROVE v[1..k] = TakeRequest(v[1..k - 1], list[k])
    <3>1. /\ 1..k \in SUBSET (DOMAIN list) /\ 1..k # {} /\ Max(1..k) = k
          /\ (1..k) \ {k} = 1..k - 1
      BY <1>1, FoldInOrder
    <3> QED
      BY <1>6, <3>1
  <2> QED
    BY <2>1, <2>2
<1> DEFINE g == [k \in 0..n |-> v[1..k]]
           S == {k \in 0..n : v[1..k] \in ListState}
<1>9. 0..n \subseteq S
  <2>1. 0 \in S
    <3>1. 1..0 = {}
      OBVIOUS
    <3> QED
      BY <1>1, <1>3, <1>8, <3>1
  <2>2. \A k \in 0..n - 1 : k \in S => k + 1 \in S
    <3> SUFFICES ASSUME NEW k \in 0..n - 1, v[1..k] \in ListState
                 PROVE  v[1..k + 1] \in ListState
      BY <1>1
    <3>1. k + 1 \in 1..n /\ (k + 1) - 1 = k
      BY <1>1
    <3>2. v[1..k + 1] = TakeRequest(v[1..k], list[k + 1])
      BY <1>8, <3>1
    <3> QED
      BY <1>1, <3>1, <3>2, TakeTyped
  <2> HIDE DEF S
  <2> QED
    BY <1>1, <2>1, <2>2, SetInduction
<1>10. g \in [0..n -> ListState]
  BY <1>9
<1>11. g[0] = ListStart /\ g[n] = v[1..n] /\ \A k \in 1..n : g[k] = TakeRequest(g[k - 1], list[k])
  <2>1. 1..0 = {} /\ 0 \in 0..n /\ n \in 0..n
    BY <1>1
  <2>2. \A k \in 1..n : k \in 0..n /\ k - 1 \in 0..n
    BY <1>1
  <2> QED
    BY <1>8, <2>1, <2>2
<1> HIDE DEF g
<1> QED
  BY <1>7, <1>10, <1>11

\* What RequestedOnce says of a set of requests, the indices that are kept for
\* it and the number that is counted.
Once(Q, W, t) ==
  /\ t = Cardinality(Q)
  /\ \A k \in Keys :
       LET of == {v \in Q : v[1] = k}
       IN IF of = {} THEN W[k] = NONE
          ELSE /\ <<k, W[k]>> \in of
               /\ \A v \in of : v[2] <= W[k]

\* A request above the index that is kept for its operator is a new one.
LEMMA OneMore ==
  ASSUME NEW Q \in SUBSET (Keys \X Nat), IsFiniteSet(Q), NEW W \in [Keys -> Index],
         NEW t \in Nat, Once(Q, W, t),
         NEW key \in Keys, NEW i \in Nat, i > W[key]
  PROVE  Once(Q \cup {<<key, i>>}, [W EXCEPT ![key] = i], t + 1)
<1> DEFINE new == <<key, i>>
           Z == Q \cup {new}
           X == [W EXCEPT ![key] = i]
           of(k) == {v \in Q : v[1] = k}
           more(k) == {v \in Z : v[1] = k}
<1>1. new \notin Q
  <2> SUFFICES ASSUME new \in Q PROVE FALSE
    OBVIOUS
  <2>1. new \in of(key)
    OBVIOUS
  <2>2. new[2] <= W[key] /\ new[2] = i
    BY <2>1 DEF Once
  <2> QED
    BY <2>2 DEF Index, NONE
<1>2. Cardinality(Z) = t + 1
  BY <1>1, FS_AddElement DEF Once
<1>3. ASSUME NEW k \in Keys
      PROVE  IF more(k) = {} THEN X[k] = NONE
             ELSE <<k, X[k]>> \in more(k) /\ \A v \in more(k) : v[2] <= X[k]
  <2>1. CASE k = key
    <3>1. X[k] = i /\ new \in more(k) /\ new = <<k, X[k]>> /\ W[k] \in Index
      BY <2>1
    <3>2. ASSUME NEW v \in more(k) PROVE v[2] <= i
      <4>1. CASE v = new
        BY <4>1
      <4>2. CASE v # new
        <5>1. v \in of(k) /\ v[2] \in Nat
          BY <4>2
        <5>2. v[2] <= W[k]
          BY <5>1 DEF Once
        <5> QED
          BY <2>1, <3>1, <5>1, <5>2 DEF Index, NONE
      <4> QED
        BY <4>1, <4>2
    <3> QED
      BY <3>1, <3>2
  <2>2. CASE k # key
    <3>1. X[k] = W[k] /\ more(k) = of(k)
      BY <2>2
    <3>2. IF of(k) = {} THEN W[k] = NONE
          ELSE <<k, W[k]>> \in of(k) /\ \A v \in of(k) : v[2] <= W[k]
      BY DEF Once
    <3> QED
      BY <3>1, <3>2
  <2> QED
    BY <2>1, <2>2
<1> QED
  BY <1>2, <1>3 DEF Once

\* Taking a request that is accepted raises the index that is kept for its
\* operator to the one of the request, written back already or not yet.
LEMMA TakeRaises ==
  ASSUME NEW s \in ListState, NEW r \in ExitRequest, TakeRequest(s, r).accepted
  PROVE  /\ s.accepted
         /\ r.index > WrittenBack(s)[NodeOpKey(r)]
         /\ WrittenBack(TakeRequest(s, r)) = [WrittenBack(s) EXCEPT ![NodeOpKey(r)] = r.index]
<1> DEFINE key == NodeOpKey(r)
           W   == WrittenBack(s)
           f   == Fetched(s, key)
           e   == TakeRequest(s, r)
<1>1. key \in Keys /\ (r.module # 0 => key # 0) /\ W \in [Keys -> Index] /\ f \in ListState
  BY KeyTyped, TakeTyped
<1>2. /\ f.accepted /\ r.module # 0 /\ r.index > f.lastRequested
      /\ e.lastKey = f.lastKey /\ e.stored = f.stored /\ e.lastRequested = r.index
  <2> DEFINE ok == /\ f.accepted
                   /\ PackedRequest(r) > s.lastPacked
                   /\ r.module # 0
                   /\ r.index > f.lastRequested
  <2>1. e = [f EXCEPT !.lastPacked = PackedRequest(r), !.lastRequested = r.index,
                      !.accepted = ok]
    BY DEF TakeRequest
  <2> HIDE DEF f, e, ok
  <2>2. /\ e.accepted = ok
        /\ e.lastKey = f.lastKey /\ e.stored = f.stored /\ e.lastRequested = r.index
    BY <1>1, <2>1 DEF ListState
  <2>3. ok
    BY <2>2 DEF e
  <2> QED
    BY <2>2, <2>3 DEF ok
<1>3. CASE key = s.lastKey
  <2>1. f = s /\ key # 0
    BY <1>1, <1>2, <1>3 DEF Fetched
  <2>2. W = [s.stored EXCEPT ![key] = s.lastRequested] /\ s.stored \in [Keys -> Index]
    BY <1>3, <2>1 DEF WrittenBack, ListState
  <2>3. WrittenBack(e) = [s.stored EXCEPT ![key] = r.index]
    BY <1>2, <1>3, <2>1 DEF WrittenBack
  <2>4. W[key] = s.lastRequested
    BY <1>1, <2>2
  <2>5. [s.stored EXCEPT ![key] = r.index] = [W EXCEPT ![key] = r.index]
    BY <1>1, <2>2
  <2> QED
    BY <1>2, <2>1, <2>3, <2>4, <2>5
<1>4. CASE key # s.lastKey
  <2>1. f = [s EXCEPT !.stored = W, !.lastKey = key, !.lastRequested = W[key]]
    BY <1>4 DEF Fetched
  <2>2. f.stored = W /\ f.lastKey = key /\ f.lastRequested = W[key] /\ f.accepted = s.accepted
    <3> HIDE DEF f, W, key
    <3> QED
      BY <2>1 DEF ListState
  <2>3. WrittenBack(e) = [W EXCEPT ![key] = r.index]
    BY <1>1, <1>2, <2>2 DEF WrittenBack
  <2> QED
    BY <1>2, <2>2, <2>3
<1> QED
  BY <1>3, <1>4

\* The requests of the list up to a position.
RequestsUpTo(list, k) == {<<NodeOpKey(list[i]), list[i].index>> : i \in 1..k}

\* When a list is accepted to its end, each of its requests is a new one.
LEMMA ListOnce ==
  ASSUME lastIndex \in [Keys -> Index], requested \in SUBSET (Keys \X Nat),
         IsFiniteSet(requested), totalRequestsProcessed \in Nat,
         Once(requested, lastIndex, totalRequestsProcessed),
         NEW list \in Seq(ExitRequest), ProcessExitRequestsList(list)
  PROVE  /\ lastIndex' \in [Keys -> Index]
         /\ requested' \in SUBSET (Keys \X Nat) /\ IsFiniteSet(requested')
         /\ Once(requested', lastIndex', totalRequestsProcessed + Len(list))
<1> DEFINE n == Len(list)
<1>1. n \in Nat /\ DOMAIN list = 1..n /\ \A k \in 1..n : list[k] \in ExitRequest
  BY LenProperties, ElementOfSeq
<1>2. PICK g \in [0..n -> ListState] :
        /\ g[0] = ListStart
        /\ \A k \in 1..n : g[k] = TakeRequest(g[k - 1], list[k])
        /\ g[n] = FoldLeft(TakeRequest, ListStart, list)
  BY ListSteps
<1> DEFINE Q(k) == requested \cup RequestsUpTo(list, k)
           W(k) == WrittenBack(g[k])
           t(k) == totalRequestsProcessed + k
           P(k) == g[k].accepted =>
                     /\ Q(k) \in SUBSET (Keys \X Nat) /\ IsFiniteSet(Q(k))
                     /\ W(k) \in [Keys -> Index]
                     /\ Once(Q(k), W(k), t(k))
<1>3. P(0)
  <2>1. Q(0) = requested
    BY 1..0 = {} DEF RequestsUpTo
  <2>2. W(0) = lastIndex
    BY <1>2 DEF WrittenBack, ListStart
  <2>3. t(0) = totalRequestsProcessed
    OBVIOUS
  <2> QED
    BY <2>1, <2>2, <2>3
<1>4. ASSUME NEW k \in 0..n - 1, P(k) PROVE P(k + 1)
  <2> SUFFICES ASSUME g[k + 1].accepted
               PROVE  /\ Q(k + 1) \in SUBSET (Keys \X Nat) /\ IsFiniteSet(Q(k + 1))
                      /\ W(k + 1) \in [Keys -> Index]
                      /\ Once(Q(k + 1), W(k + 1), t(k + 1))
    OBVIOUS
  <2> DEFINE r == list[k + 1]
             s == g[k]
             key == NodeOpKey(r)
             i == r.index
  <2>1. /\ k + 1 \in 1..n /\ (k + 1) - 1 = k /\ r \in ExitRequest /\ s \in ListState
        /\ g[k + 1] = TakeRequest(s, r)
    <3>1. k + 1 \in 1..n /\ (k + 1) - 1 = k /\ k \in 0..n
      BY <1>1
    <3> QED
      BY <1>1, <1>2, <3>1
  <2>2. key \in Keys /\ i \in Nat
    BY <2>1, KeyTyped
  <2>3. s.accepted /\ i > W(k)[key] /\ W(k + 1) = [W(k) EXCEPT ![key] = i]
    <3> HIDE DEF r, s
    <3>1. TakeRequest(s, r).accepted
      BY <2>1
    <3> QED
      BY <2>1, <3>1, TakeRaises DEF s
  <2>4. Q(k) \in SUBSET (Keys \X Nat) /\ IsFiniteSet(Q(k)) /\ W(k) \in [Keys -> Index]
        /\ Once(Q(k), W(k), t(k)) /\ t(k) \in Nat
    BY <1>4, <2>3
  <2>5. Q(k + 1) = Q(k) \cup {<<key, i>>}
    <3>1. 1..k + 1 = (1..k) \cup {k + 1}
      BY <1>1
    <3> QED
      BY <3>1 DEF RequestsUpTo
  <2> DEFINE Q0 == Q(k)
             W0 == W(k)
             t0 == t(k)
  <2>6. t(k + 1) = t0 + 1
    OBVIOUS
  <2>7. /\ Q0 \in SUBSET (Keys \X Nat) /\ IsFiniteSet(Q0) /\ W0 \in [Keys -> Index]
        /\ Once(Q0, W0, t0) /\ t0 \in Nat /\ key \in Keys /\ i \in Nat /\ i > W0[key]
    BY <2>2, <2>3, <2>4
  <2>8. /\ Q0 \cup {<<key, i>>} \in SUBSET (Keys \X Nat) /\ IsFiniteSet(Q0 \cup {<<key, i>>})
        /\ [W0 EXCEPT ![key] = i] \in [Keys -> Index]
        /\ Once(Q0 \cup {<<key, i>>}, [W0 EXCEPT ![key] = i], t0 + 1)
    <3> HIDE DEF Q0, W0, t0, key, i
    <3>1. Once(Q0 \cup {<<key, i>>}, [W0 EXCEPT ![key] = i], t0 + 1)
      BY <2>7, OneMore
    <3>2. IsFiniteSet(Q0 \cup {<<key, i>>})
      BY <2>7, FS_AddElement
    <3> QED
      BY <2>7, <3>1, <3>2 DEF Index
  <2> HIDE DEF key, i
  <2> QED
    BY <2>3, <2>5, <2>6, <2>8
<1> DEFINE S == {k \in 0..n : P(k)}
<1>5. 0..n \subseteq S
  <2>1. 0 \in S
    BY <1>1, <1>3
  <2>2. \A k \in 0..n - 1 : k \in S => k + 1 \in S
    <3> HIDE DEF P
    <3> SUFFICES ASSUME NEW k \in 0..n - 1, P(k) PROVE k + 1 \in 0..n /\ P(k + 1)
      OBVIOUS
    <3> QED
      BY <1>1, <1>4
  <2> HIDE DEF S
  <2> QED
    BY <1>1, <2>1, <2>2, SetInduction
<1>6. P(n)
  <2> HIDE DEF P
  <2> QED
    BY <1>1, <1>5
<1>7. g[n].accepted /\ lastIndex' = W(n) /\ requested' = Q(n)
  <2>1. g[n].accepted /\ lastIndex' = W(n)
    BY <1>2 DEF ProcessExitRequestsList
  <2>2. requested' = Q(n)
    <3>1. ToSet(list) = {list[k] : k \in 1..n}
      BY <1>1 DEF ToSet
    <3> QED
      BY <3>1 DEF ProcessExitRequestsList, RequestsUpTo
  <2> QED
    BY <2>1, <2>2
<1> QED
  BY <1>6, <1>7

-------------------------------------------------------------------------------
\* What has been requested

RequestsInv ==
  /\ lastIndex \in [Keys -> Index]
  /\ requested \in SUBSET (Keys \X Nat) /\ IsFiniteSet(requested)
  /\ totalRequestsProcessed \in Nat
  /\ Once(requested, lastIndex, totalRequestsProcessed)

PauseTyped == resumeSince \in 0..PAUSE_INFINITELY

DataTyped == dataState \in [refSlot : Nat, requestsCount : Nat]

LEMMA InitRequests == Init => RequestsInv /\ PauseTyped /\ DataTyped
<1> SUFFICES ASSUME Init PROVE RequestsInv /\ PauseTyped /\ DataTyped
  OBVIOUS
<1>1. RequestsInv
  <2>1. Cardinality(requested) = 0 /\ IsFiniteSet(requested)
    BY FS_EmptySet DEF Init
  <2> QED
    BY <2>1 DEF Init, RequestsInv, Once, Index
<1> QED
  BY <1>1, ExitBusAssumption DEF Init, PauseTyped, DataTyped

\* Only processing a report changes what has been requested.
LEMMA NextRequests ==
  StorageTyped /\ RequestsInv /\ [Next]_vars => RequestsInv'
<1> SUFFICES ASSUME StorageTyped, RequestsInv, [Next]_vars PROVE RequestsInv'
  OBVIOUS
<1>1. ASSUME NEW list \in Hashes, SubmitReportData(list) PROVE RequestsInv'
  <2>1. list \in Seq(ExitRequest) /\ Len(list) \in Nat
    BY ExitBusAssumption, LenProperties
  <2>2. ProcessExitRequestsList(list)
        /\ totalRequestsProcessed' = totalRequestsProcessed + Len(list)
    BY <1>1 DEF SubmitReportData
  <2>3. /\ lastIndex' \in [Keys -> Index]
        /\ requested' \in SUBSET (Keys \X Nat) /\ IsFiniteSet(requested')
        /\ Once(requested', lastIndex', totalRequestsProcessed + Len(list))
    BY <2>1, <2>2, ListOnce DEF RequestsInv
  <2> QED
    BY <2>1, <2>2, <2>3 DEF RequestsInv, Once
<1>2. ASSUME UNCHANGED busVars PROVE RequestsInv'
  BY <1>2 DEF busVars, RequestsInv, Once
<1> QED
  BY <1>1, <1>2 DEF Next, Tick, Agree, Disagree, ChangePause, vars

\* A pause never ends after the end of time.
LEMMA NextPause ==
  StorageTyped /\ PauseTyped /\ [Next]_vars => PauseTyped'
<1> SUFFICES ASSUME StorageTyped, PauseTyped, [Next]_vars PROVE PauseTyped'
  OBVIOUS
<1>1. CASE ChangePause
  <2>1. now \in Nat /\ PAUSE_INFINITELY \in Nat
        /\ Durations \subseteq Nat /\ PauseEnds \subseteq 0..PAUSE_INFINITELY
    BY ExitBusAssumption DEF StorageTyped
  <2>2. CASE Resume
    BY <2>1, <2>2 DEF Resume, IsPaused, PauseTyped
  <2>3. ASSUME NEW d \in Durations, PauseFor(d) PROVE PauseTyped'
    BY <2>1, <2>3 DEF PauseFor, PauseTyped
  <2>4. ASSUME NEW e \in PauseEnds, PauseUntil(e) PROVE PauseTyped'
    BY <2>1, <2>4 DEF PauseUntil, PauseTyped
  <2> QED
    BY <1>1, <2>2, <2>3, <2>4 DEF ChangePause
<1>2. CASE UNCHANGED resumeSince
  BY <1>2 DEF PauseTyped
<1> QED
  BY <1>1, <1>2 DEF Next, Tick, Agree, Disagree, SubmitReportData, vars

LEMMA NextData ==
  StorageTyped /\ DataTyped /\ [Next]_vars => DataTyped'
<1> SUFFICES ASSUME StorageTyped, DataTyped, [Next]_vars PROVE DataTyped'
  OBVIOUS
<1>1. ASSUME NEW list \in Hashes, SubmitReportData(list) PROVE DataTyped'
  <2>1. Len(list) \in Nat /\ oracle[Self].refSlot \in Nat
    BY ExitBusAssumption, LenProperties, StoredFacts DEF stored
  <2> QED
    BY <1>1, <2>1 DEF SubmitReportData, DataTyped
<1>2. CASE UNCHANGED dataState
  BY <1>2 DEF DataTyped
<1> QED
  BY <1>1, <1>2 DEF Next, Tick, Agree, Disagree, ChangePause, vars, busVars

THEOREM RequestsInvariant == Spec => [](RequestsInv /\ PauseTyped /\ DataTyped)
<1>1. StorageTyped /\ RequestsInv /\ PauseTyped /\ DataTyped /\ [Next]_vars
      => (RequestsInv /\ PauseTyped /\ DataTyped)'
  BY NextRequests, NextPause, NextData
<1>2. Inv => StorageTyped
  BY DEF Inv
<1> QED
  BY InitRequests, Invariant, <1>1, <1>2, PTL DEF Spec

\* Every variable has its type, and a pause never ends after the end of time, for
\* all durations, ends of pauses and lists.
THEOREM TypeCorrect == Spec => []TypeOK
<1>1. StorageTyped /\ RequestsInv /\ PauseTyped /\ DataTyped => TypeOK
  BY DEF StorageTyped, RequestsInv, PauseTyped, DataTyped, TypeOK, Index
<1>2. Inv => StorageTyped
  BY DEF Inv
<1> QED
  BY Invariant, RequestsInvariant, <1>1, <1>2, PTL

\* No validator is asked to exit twice, whatever the lists are and however many
\* operators and reports there are: the check of a request against the index
\* that is kept for its operator is enough, although that index is written back
\* only when the requests of the next operator begin.
THEOREM AlwaysRequestedOnce == Spec => []RequestedOnce
<1>1. RequestsInv => RequestedOnce
  BY DEF RequestsInv, Once, RequestedOnce
<1> QED
  BY RequestsInvariant, <1>1, PTL
===================================================================================
