-------------------------- MODULE AccountingOracle_proofs --------------------------
(***************************************************************************)
(* Every phase of an honest report is accepted within its deadline, and    *)
(* the counts of the router and of the modules settle, for every set of    *)
(* modules and operators, every frame configuration and every bound of     *)
(* the clock.                                                              *)
(*                                                                         *)
(* The inductive invariant has three parts: a report that can still be     *)
(* delivered is the one observed at the current reference slot             *)
(* (ReportsInv, DeadlineInv); the counts of an operator lie between what   *)
(* it had and what was observed of it (OperatorsInv); and the router's     *)
(* count of a module lies between the module's own and the observed one    *)
(* (ModulesInv), which the report of the slot makes equal.                 *)
(***************************************************************************)
EXTENDS AccountingOracle, Foundations

stored == oracle[Self]

CurrentRefSlot == RefSlotAt(now, Config)

ReportData == [refSlot : Nat, modules : UNION {[S -> Nat] : S \in SUBSET Modules},
               stuck : UNION {[S -> Nat] : S \in SUBSET Operators},
               exited : UNION {[S -> Nat] : S \in SUBSET Operators}]

Typed ==
  /\ now \in Nat /\ now <= MaxSlot
  /\ oracle \in [Processors -> OracleState]
  /\ chain \in [Operators -> [exited : Nat, stuck : Nat]]
  /\ exitedByModule \in [Modules -> Nat]
  /\ op \in [Operators -> [deposited : Nat, exited : Nat, stuck : Nat]]
  /\ undistributed \subseteq Modules
  /\ observed \in ReportData /\ agreed \in ReportData
  /\ extra \in [refSlot : Nat, dataFormat : {EMPTY, LIST}, submitted : BOOLEAN, data : ReportData]

\* An operator's counts once the last observation has been delivered.
ExitedAt(o) == IF o \in DOMAIN observed.exited THEN observed.exited[o] ELSE op[o].exited
StuckAt(o)  == IF o \in DOMAIN observed.stuck THEN observed.stuck[o] ELSE op[o].stuck

SeenIn(m) == SumOver([o \in Operators |-> ExitedAt(o)], OperatorsOf(m))

\* The main data of the last observation are in.
MainDataIn == extra.refSlot = observed.refSlot /\ extra.refSlot # 0

\* A report for the slot of the last observation is that observation.
ReportsInv ==
  /\ FrameStarted(now, Config) => observed.refSlot = CurrentRefSlot
  /\ ~FrameStarted(now, Config) => observed.refSlot = 0
  /\ agreed.refSlot = stored.refSlot /\ stored.refSlot <= observed.refSlot
  /\ agreed.refSlot = observed.refSlot /\ agreed.refSlot # 0 => agreed = observed
  /\ extra.refSlot = stored.lastProcessing /\ stored.lastProcessing <= stored.refSlot
  /\ MainDataIn => extra.data = observed
  /\ extra.dataFormat = IF IsEmpty(extra.data) THEN EMPTY ELSE LIST

\* The stored report's deadline is one frame after its reference slot.
DeadlineInv ==
  stored.hash # ZeroHash =>
    /\ FrameStarted(now, Config)
    /\ stored.hash = stored.refSlot /\ stored.refSlot # 0
    /\ stored.deadline = stored.refSlot + FrameLength(Config)
    /\ now <= stored.deadline => stored.refSlot = CurrentRefSlot

OperatorsInv ==
  \A o \in Operators :
    /\ op[o].exited <= ExitedAt(o) /\ ExitedAt(o) <= chain[o].exited
    /\ ExitedAt(o) + StuckAt(o) <= op[o].deposited
    /\ op[o].exited + op[o].stuck <= op[o].deposited
    /\ chain[o].exited + chain[o].stuck <= op[o].deposited

ModulesInv ==
  /\ \A m \in Modules :
       /\ TotalExited(m) <= exitedByModule[m] /\ exitedByModule[m] <= SeenIn(m)
       /\ m \in DOMAIN observed.modules => observed.modules[m] = SeenIn(m)
       /\ m \notin DOMAIN observed.modules => exitedByModule[m] = SeenIn(m)
       /\ MainDataIn => exitedByModule[m] = SeenIn(m)
  /\ ReportCompletes

Inv == Typed /\ ReportsInv /\ DeadlineInv /\ OperatorsInv /\ ModulesInv

-------------------------------------------------------------------------------
\* Facts

\* The one processor, and slot 0 as a hash.
LEMMA SelfFacts ==
  /\ Self \in Processors /\ Config \in FrameConfig /\ IsFiniteSet(Operators)
  /\ ZeroHash \notin Hashes
  /\ \A m : IsFiniteSet(OperatorsOf(m)) /\ OperatorsOf(m) \subseteq Operators
BY AccountingAssumption, HashAssumption, FS_Subset DEF OperatorsOf

\* What is stored is typed.
LEMMA StoredFacts ==
  ASSUME Typed
  PROVE  /\ stored \in OracleState
         /\ stored.lastProcessing \in Nat /\ stored.refSlot \in Nat /\ stored.deadline \in Nat
         /\ observed.refSlot \in Nat
BY SelfFacts DEF Typed, stored, OracleState, ReportData

\* A report that can still be processed is the last observation.
LEMMA CurrentReport ==
  ASSUME Typed, ReportsInv, DeadlineInv, stored.hash # ZeroHash, now <= stored.deadline
  PROVE  /\ FrameStarted(now, Config) /\ stored.refSlot # 0
         /\ stored.refSlot = observed.refSlot /\ agreed = observed
  BY DEF ReportsInv, DeadlineInv

\* Counts are numbers, so that sums over them are.
LEMMA CountsTyped ==
  ASSUME Typed
  PROVE  /\ \A o \in Operators : /\ ExitedAt(o) \in Nat /\ StuckAt(o) \in Nat
                                 /\ op[o].exited \in Nat /\ op[o].stuck \in Nat
                                 /\ op[o].deposited \in Nat
                                 /\ chain[o].exited \in Nat /\ chain[o].stuck \in Nat
         /\ \A m : /\ TotalExited(m) \in Nat /\ TotalDeposited(m) \in Nat
                   /\ SeenIn(m) \in Nat /\ CountIn(chain, m) \in Nat
<1>1. ASSUME NEW o \in Operators
      PROVE  /\ ExitedAt(o) \in Nat /\ StuckAt(o) \in Nat
             /\ op[o].exited \in Nat /\ op[o].stuck \in Nat /\ op[o].deposited \in Nat
             /\ chain[o].exited \in Nat /\ chain[o].stuck \in Nat
  <2>1. op[o] \in [deposited : Nat, exited : Nat, stuck : Nat]
        /\ chain[o] \in [exited : Nat, stuck : Nat]
    BY DEF Typed
  <2>2. PICK S \in SUBSET Operators : observed.exited \in [S -> Nat]
    BY DEF Typed, ReportData
  <2>3. PICK T \in SUBSET Operators : observed.stuck \in [T -> Nat]
    BY DEF Typed, ReportData
  <2> QED
    BY <2>1, <2>2, <2>3 DEF ExitedAt, StuckAt
<1>2. ASSUME NEW m
      PROVE  /\ TotalExited(m) \in Nat /\ TotalDeposited(m) \in Nat
             /\ SeenIn(m) \in Nat /\ CountIn(chain, m) \in Nat
  <2> DEFINE S == OperatorsOf(m)
             a == [o \in Operators |-> op[o].exited]
             b == [o \in Operators |-> op[o].deposited]
             c == [o \in Operators |-> ExitedAt(o)]
             d == [o \in Operators |-> chain[o].exited]
  <2>1. /\ \A x \in S : a[x] \in Int /\ a[x] >= 0
        /\ \A x \in S : b[x] \in Int /\ b[x] >= 0
        /\ \A x \in S : c[x] \in Int /\ c[x] >= 0
        /\ \A x \in S : d[x] \in Int /\ d[x] >= 0
    BY <1>1, SelfFacts
  <2>2. IsFiniteSet(S)
    BY SelfFacts
  <2> HIDE DEF S, a, b, c, d
  <2>3. /\ SumOver(a, S) \in Nat /\ SumOver(b, S) \in Nat
        /\ SumOver(c, S) \in Nat /\ SumOver(d, S) \in Nat
    BY <2>1, <2>2, SumOverType
  <2> QED
    BY <2>3 DEF S, a, b, c, d, TotalExited, TotalDeposited, SeenIn, CountIn
<1> QED
  BY <1>1, <1>2

\* An observation is typed.
LEMMA ObservationTyped ==
  ASSUME Typed
  PROVE  Observation \in ReportData
<1> DEFINE M == {m \in Modules : CountIn(chain, m) > TotalExited(m)}
           S == {o \in Operators : chain[o].stuck # op[o].stuck}
           E == {o \in Operators : chain[o].exited # op[o].exited}
<1>1. [m \in M |-> CountIn(chain, m)] \in UNION {[T -> Nat] : T \in SUBSET Modules}
  <2>1. [m \in M |-> CountIn(chain, m)] \in [M -> Nat] /\ M \in SUBSET Modules
    BY CountsTyped
  <2> HIDE DEF M
  <2> QED
    BY <2>1
<1>2. [o \in S |-> chain[o].stuck] \in UNION {[T -> Nat] : T \in SUBSET Operators}
  <2>1. [o \in S |-> chain[o].stuck] \in [S -> Nat] /\ S \in SUBSET Operators
    BY CountsTyped
  <2> HIDE DEF S
  <2> QED
    BY <2>1
<1>3. [o \in E |-> chain[o].exited] \in UNION {[T -> Nat] : T \in SUBSET Operators}
  <2>1. [o \in E |-> chain[o].exited] \in [E -> Nat] /\ E \in SUBSET Operators
    BY CountsTyped
  <2> HIDE DEF E
  <2> QED
    BY <2>1
<1>4. now \in Nat
  BY DEF Typed
<1> QED
  BY <1>1, <1>2, <1>3, <1>4 DEF Observation, ReportData

\* The sums of what OperatorsInv says of each operator.
LEMMA SeenBounds ==
  ASSUME Typed, OperatorsInv
  PROVE  \A m : /\ TotalExited(m) <= SeenIn(m) /\ SeenIn(m) <= CountIn(chain, m)
                /\ SeenIn(m) <= TotalDeposited(m)
<1> SUFFICES ASSUME NEW m
             PROVE  /\ TotalExited(m) <= SeenIn(m) /\ SeenIn(m) <= CountIn(chain, m)
                    /\ SeenIn(m) <= TotalDeposited(m)
  OBVIOUS
<1> DEFINE S == OperatorsOf(m)
           a == [o \in Operators |-> op[o].exited]
           b == [o \in Operators |-> op[o].deposited]
           c == [o \in Operators |-> ExitedAt(o)]
           d == [o \in Operators |-> chain[o].exited]
<1>1. ASSUME NEW o \in Operators
      PROVE  /\ op[o].exited <= ExitedAt(o) /\ ExitedAt(o) <= chain[o].exited
             /\ ExitedAt(o) <= op[o].deposited
  <2>1. /\ op[o].exited <= ExitedAt(o) /\ ExitedAt(o) <= chain[o].exited
        /\ ExitedAt(o) + StuckAt(o) <= op[o].deposited
    BY DEF OperatorsInv
  <2>2. ExitedAt(o) \in Nat /\ StuckAt(o) \in Nat /\ op[o].deposited \in Nat
    BY CountsTyped
  <2> QED
    BY <2>1, <2>2
<1>2. \A x \in S : /\ a[x] \in Int /\ b[x] \in Int /\ c[x] \in Int /\ d[x] \in Int
                   /\ a[x] <= c[x] /\ c[x] <= d[x] /\ c[x] <= b[x]
  <2>1. S \subseteq Operators
    BY SelfFacts
  <2>2. \A o \in Operators : /\ ExitedAt(o) \in Int /\ op[o].exited \in Int
                             /\ op[o].deposited \in Int /\ chain[o].exited \in Int
    BY CountsTyped
  <2> HIDE DEF S
  <2> QED
    BY <1>1, <2>1, <2>2
<1>3. IsFiniteSet(S)
  BY SelfFacts
<1> HIDE DEF S, a, b, c, d
<1>4. SumOver(a, S) <= SumOver(c, S)
  BY <1>2, <1>3, SumOverMonotone
<1>5. SumOver(c, S) <= SumOver(d, S)
  BY <1>2, <1>3, SumOverMonotone
<1>6. SumOver(c, S) <= SumOver(b, S)
  BY <1>2, <1>3, SumOverMonotone
<1> QED
  BY <1>4, <1>5, <1>6 DEF S, a, b, c, d, TotalExited, TotalDeposited, SeenIn, CountIn

\* What the invariant says of the properties.
LEMMA CountsAlwaysAccepted ==
  ASSUME Inv
  PROVE  MainDataNeverRefused
<1> SUFFICES ASSUME stored.hash # ZeroHash, now <= stored.deadline
             PROVE  CountsAccepted(agreed.modules)
  BY DEF MainDataNeverRefused, stored
<1>1. agreed = observed
  BY CurrentReport DEF Inv
<1> SUFFICES ASSUME NEW m \in DOMAIN observed.modules
             PROVE  /\ observed.modules[m] >= exitedByModule[m]
                    /\ observed.modules[m] <= TotalDeposited(m)
  BY <1>1 DEF CountsAccepted
<1>2. m \in Modules
  BY DEF Inv, Typed, ReportData
<1>3. observed.modules[m] = SeenIn(m) /\ exitedByModule[m] <= SeenIn(m)
  BY <1>2 DEF Inv, ModulesInv
<1>4. exitedByModule[m] \in Nat /\ SeenIn(m) \in Nat
  BY <1>2, CountsTyped DEF Inv, Typed
<1> QED
  BY <1>3, <1>4, SeenBounds DEF Inv

LEMMA CanDeliver ==
  ASSUME Inv, NEW f, CanSubmitExtraData(f)
  PROVE  MainDataIn /\ extra.data = observed /\ extra.refSlot = observed.refSlot
<1>1. stored.hash # ZeroHash /\ now <= stored.deadline /\ extra.refSlot = stored.refSlot
  BY DEF CanSubmitExtraData, stored
<1>2. stored.refSlot = observed.refSlot /\ stored.refSlot # 0
  BY <1>1, CurrentReport DEF Inv
<1> QED
  BY <1>1, <1>2 DEF Inv, ReportsInv, MainDataIn

LEMMA ItemsAlwaysAccepted ==
  ASSUME Inv
  PROVE  ExtraDataNeverRefused
<1> SUFFICES ASSUME CanSubmitExtraData(LIST) PROVE ItemsAccepted(extra.data)
  BY DEF ExtraDataNeverRefused
<1>1. extra.data = observed
  BY CanDeliver
<1> SUFFICES ASSUME NEW o \in Operators
             PROVE  /\ o \in DOMAIN observed.stuck => StuckAccepted(op[o], observed.stuck[o])
                    /\ o \in DOMAIN observed.exited
                         => ExitedAccepted(WithStuck(o, observed), observed.exited[o])
  BY <1>1 DEF ItemsAccepted
<1>2. /\ ExitedAt(o) \in Nat /\ StuckAt(o) \in Nat /\ op[o].exited \in Nat
      /\ op[o].stuck \in Nat /\ op[o].deposited \in Nat
  BY CountsTyped DEF Inv
<1>3. op[o].exited <= ExitedAt(o) /\ ExitedAt(o) + StuckAt(o) <= op[o].deposited
  BY DEF Inv, OperatorsInv
<1>4. op[o] \in [deposited : Nat, exited : Nat, stuck : Nat]
  BY DEF Inv, Typed
<1>5. o \in DOMAIN observed.stuck => StuckAccepted(op[o], observed.stuck[o])
  BY <1>2, <1>3 DEF StuckAccepted, StuckAt
<1>6. /\ WithStuck(o, observed).exited = op[o].exited
      /\ WithStuck(o, observed).deposited = op[o].deposited
      /\ WithStuck(o, observed).stuck = StuckAt(o)
  BY <1>4 DEF WithStuck, StuckAt
<1>7. o \in DOMAIN observed.exited => observed.exited[o] = ExitedAt(o)
  BY DEF ExitedAt
<1> QED
  BY <1>2, <1>3, <1>5, <1>6, <1>7 DEF ExitedAccepted

-------------------------------------------------------------------------------
\* Steps

\* Counts that do not change.
LEMMA CountsKept ==
  ASSUME Inv, UNCHANGED <<chain, observed, extra, modulesVars>>,
         now' \in Nat, now' <= MaxSlot, oracle' \in [Processors -> OracleState],
         agreed' \in ReportData
  PROVE  Typed' /\ OperatorsInv' /\ ModulesInv'
<1>1. Typed'
  BY DEF Inv, Typed, modulesVars, ReportData
<1>2. OperatorsInv'
  BY DEF Inv, OperatorsInv, modulesVars, ExitedAt, StuckAt
<1>3. ModulesInv'
  BY DEF Inv, ModulesInv, modulesVars, MainDataIn, ReportCompletes, TotalExited, CountIn, SeenIn,
         ExitedAt
<1> QED
  BY <1>1, <1>2, <1>3

\* Reports that do not change.
LEMMA ReportKept ==
  ASSUME Inv, UNCHANGED <<now, oracle, observed, agreed>>,
         extra'.refSlot = extra.refSlot, extra'.data = extra.data,
         extra'.dataFormat = extra.dataFormat
  PROVE  ReportsInv' /\ DeadlineInv'
BY DEF Inv, ReportsInv, DeadlineInv, MainDataIn, CurrentRefSlot, stored, IsEmpty

\* A new observation takes every count as it is on the chain; the router's
\* count of a module that is not in it is already the observed one.
LEMMA NewObservation ==
  ASSUME Inv, UNCHANGED <<chain, extra, modulesVars>>, observed' = Observation, ~MainDataIn'
  PROVE  OperatorsInv' /\ ModulesInv'
<1>1. op' = op /\ exitedByModule' = exitedByModule /\ undistributed' = undistributed
  BY DEF modulesVars
<1>2. ASSUME NEW o \in Operators
      PROVE  ExitedAt(o)' = chain[o].exited /\ StuckAt(o)' = chain[o].stuck
  BY <1>1 DEF ExitedAt, StuckAt, Observation
<1>3. ASSUME NEW m PROVE SeenIn(m)' = CountIn(chain, m)
  <2>1. [o \in Operators |-> ExitedAt(o)]' = [o \in Operators |-> chain[o].exited]
    BY <1>2
  <2> QED
    BY <2>1 DEF SeenIn, CountIn
<1>4. OperatorsInv'
  <2> SUFFICES ASSUME NEW o \in Operators
               PROVE  /\ op[o].exited <= chain[o].exited
                      /\ op[o].exited + op[o].stuck <= op[o].deposited
                      /\ chain[o].exited + chain[o].stuck <= op[o].deposited
    BY <1>1, <1>2, CountsTyped DEF OperatorsInv, Inv
  <2> QED
    BY CountsTyped DEF Inv, OperatorsInv
<1>5. ASSUME NEW m \in Modules
      PROVE  /\ TotalExited(m) <= exitedByModule[m] /\ exitedByModule[m] <= CountIn(chain, m)
             /\ m \in DOMAIN Observation.modules => Observation.modules[m] = CountIn(chain, m)
             /\ m \notin DOMAIN Observation.modules => exitedByModule[m] = CountIn(chain, m)
  <2>1. /\ TotalExited(m) \in Nat /\ exitedByModule[m] \in Nat /\ SeenIn(m) \in Nat
        /\ CountIn(chain, m) \in Nat
    BY CountsTyped DEF Inv, Typed
  <2>2. /\ TotalExited(m) <= exitedByModule[m] /\ exitedByModule[m] <= SeenIn(m)
        /\ SeenIn(m) <= CountIn(chain, m)
    BY SeenBounds DEF Inv, ModulesInv
  <2>3. /\ m \in DOMAIN Observation.modules <=> CountIn(chain, m) > TotalExited(m)
        /\ m \in DOMAIN Observation.modules => Observation.modules[m] = CountIn(chain, m)
    BY DEF Observation
  <2> QED
    BY <2>1, <2>2, <2>3
<1>6. ASSUME NEW m PROVE TotalExited(m)' = TotalExited(m)
  BY <1>1 DEF TotalExited, CountIn
<1>7. ReportCompletes'
  BY <1>1, <1>6 DEF Inv, ModulesInv, ReportCompletes
<1>8. ModulesInv'
  BY <1>1, <1>3, <1>5, <1>6, <1>7 DEF ModulesInv
<1> QED
  BY <1>4, <1>8

\* A slot passes: a new observation finds every older report expired.
LEMMA TickInv ==
  ASSUME Inv, Tick
  PROVE  Inv'
<1>1. /\ now' = now + 1 /\ UNCHANGED <<oracle, chain, agreed, extra, modulesVars>>
      /\ observed' = IF FrameStarted(now + 1, Config) /\ RefSlotAt(now + 1, Config) = now
                     THEN Observation ELSE observed
  BY DEF Tick
<1>2. /\ now \in Nat /\ now' \in Nat /\ now' <= MaxSlot /\ Config \in FrameConfig
      /\ stored' = stored
      /\ CurrentRefSlot' = RefSlotAt(now + 1, Config)
      /\ observed.refSlot \in Nat /\ stored.refSlot \in Nat /\ stored.deadline \in Nat
      /\ stored.lastProcessing \in Nat
  <2>1. now \in Nat /\ now < MaxSlot /\ MaxSlot \in Nat
    BY AccountingAssumption DEF Tick, Inv, Typed
  <2> QED
    BY <1>1, <2>1, SelfFacts, StoredFacts DEF Inv, stored, CurrentRefSlot
<1>3. ASSUME observed' = observed, ReportsInv', DeadlineInv' PROVE Inv'
  <2>1. UNCHANGED <<chain, observed, extra, modulesVars>> /\ oracle' \in [Processors -> OracleState]
        /\ agreed' \in ReportData
    BY <1>1, <1>3 DEF Inv, Typed
  <2> QED
    BY <1>2, <1>3, <2>1, CountsKept DEF Inv
<1>4. CASE ~FrameStarted(now + 1, Config)
  <2>1. ~FrameStarted(now, Config)
    BY <1>2, <1>4, now + 1 \in Nat, now <= now + 1, RefSlotGrowsWithTime
  <2>2. stored.hash = ZeroHash
    BY <2>1 DEF Inv, DeadlineInv
  <2>3. observed' = observed
    BY <1>1, <1>4
  <2>4. ReportsInv' /\ DeadlineInv'
    BY <1>1, <1>2, <1>4, <2>1, <2>2, <2>3 DEF Inv, ReportsInv, DeadlineInv, MainDataIn, IsEmpty
  <2> QED
    BY <1>3, <2>3, <2>4
<1>5. CASE FrameStarted(now, Config) /\ RefSlotAt(now + 1, Config) = CurrentRefSlot
  <2>1. FrameStarted(now + 1, Config)
    BY <1>2, <1>5, now + 1 \in Nat, now <= now + 1, RefSlotGrowsWithTime
  <2>2. CurrentRefSlot < now /\ CurrentRefSlot \in Nat
    BY <1>2, <1>5, SlotInFrame DEF CurrentRefSlot
  <2>3. observed' = observed
    BY <1>1, <1>2, <1>5, <2>2
  <2>4. now' <= stored.deadline => now <= stored.deadline
    BY <1>1, <1>2
  <2>5. ReportsInv'
    BY <1>1, <1>2, <1>5, <2>1, <2>3 DEF Inv, ReportsInv, MainDataIn, IsEmpty
  <2>6. DeadlineInv'
    BY <1>1, <1>2, <1>5, <2>1, <2>4 DEF Inv, DeadlineInv
  <2> QED
    BY <1>3, <2>3, <2>5, <2>6
<1>6. CASE /\ FrameStarted(now + 1, Config) /\ RefSlotAt(now + 1, Config) = now
           /\ FrameStarted(now, Config) => /\ CurrentRefSlot < now
                                           /\ now >= CurrentRefSlot + FrameLength(Config)
  <2>1. observed' = Observation /\ observed'.refSlot = now
    BY <1>1, <1>6 DEF Observation
  <2>2. now # 0 => observed.refSlot < now
    BY <1>2, <1>6 DEF Inv, ReportsInv
  <2>3. /\ agreed.refSlot = stored.refSlot /\ stored.refSlot <= observed.refSlot
        /\ extra.refSlot = stored.lastProcessing /\ stored.lastProcessing <= stored.refSlot
    BY DEF Inv, ReportsInv
  <2>4. ~MainDataIn'
    BY <1>1, <1>2, <2>1, <2>2, <2>3 DEF MainDataIn
  <2>5. stored.hash # ZeroHash =>
          /\ stored.hash = stored.refSlot /\ stored.refSlot # 0
          /\ stored.deadline = stored.refSlot + FrameLength(Config)
          /\ ~(now + 1 <= stored.deadline)
    <3> SUFFICES ASSUME stored.hash # ZeroHash, now + 1 <= stored.deadline PROVE FALSE
      BY DEF Inv, DeadlineInv
    <3>1. now <= stored.deadline
      BY <1>2
    <3>2. /\ FrameStarted(now, Config) /\ stored.refSlot = CurrentRefSlot
          /\ stored.deadline = stored.refSlot + FrameLength(Config)
      BY <3>1 DEF Inv, DeadlineInv
    <3> QED
      BY <1>2, <1>6, <3>2
  <2>6. DeadlineInv'
    BY <1>1, <1>2, <1>6, <2>5 DEF DeadlineInv
  <2>7. 0 <= now /\ stored.refSlot <= now /\ (agreed.refSlot = now => now = 0)
    BY <1>2, <1>6, <2>2, <2>3 DEF Inv, ReportsInv
  <2>8. ReportsInv'
    BY <1>1, <1>2, <1>6, <2>1, <2>3, <2>4, <2>7 DEF Inv, ReportsInv, IsEmpty
  <2>9. observed' \in ReportData
    BY <2>1, ObservationTyped DEF Inv
  <2>10. OperatorsInv' /\ ModulesInv'
    BY <1>1, <2>1, <2>4, NewObservation
  <2>11. Typed'
    BY <1>1, <1>2, <2>9 DEF Inv, Typed, modulesVars
  <2> QED
    BY <2>6, <2>8, <2>10, <2>11 DEF Inv
<1> QED
  BY <1>2, <1>4, <1>5, <1>6, NextSlot DEF CurrentRefSlot

\* A deposit changes no count of exits.
LEMMA DepositInv ==
  ASSUME Inv, NEW o \in Operators, Deposit(o)
  PROVE  Inv'
<1>1. /\ op' = [op EXCEPT ![o].deposited = @ + 1]
      /\ UNCHANGED <<now, oracle, chain, observed, agreed, extra, exitedByModule, undistributed>>
  BY DEF Deposit
<1>2. op \in [Operators -> [deposited : Nat, exited : Nat, stuck : Nat]]
  BY DEF Inv, Typed
<1>3. op' \in [Operators -> [deposited : Nat, exited : Nat, stuck : Nat]]
  BY <1>1, <1>2
<1>4. \A x \in Operators : /\ op'[x].exited = op[x].exited /\ op'[x].stuck = op[x].stuck
                           /\ op'[x].deposited >= op[x].deposited
  BY <1>1, <1>2
<1>5. \A x \in Operators : ExitedAt(x)' = ExitedAt(x) /\ StuckAt(x)' = StuckAt(x)
  BY <1>1, <1>4 DEF ExitedAt, StuckAt
<1>6. \A m : TotalExited(m)' = TotalExited(m) /\ SeenIn(m)' = SeenIn(m)
  <2>1. /\ [x \in Operators |-> op[x].exited]' = [x \in Operators |-> op[x].exited]
        /\ [x \in Operators |-> ExitedAt(x)]' = [x \in Operators |-> ExitedAt(x)]
    BY <1>4, <1>5
  <2> QED
    BY <2>1 DEF TotalExited, CountIn, SeenIn
<1>7. Typed'
  BY <1>1, <1>3 DEF Inv, Typed
<1>8. OperatorsInv'
  <2> SUFFICES ASSUME NEW x \in Operators
               PROVE  /\ op[x].exited <= ExitedAt(x) /\ ExitedAt(x) <= chain[x].exited
                      /\ ExitedAt(x) + StuckAt(x) <= op'[x].deposited
                      /\ op[x].exited + op[x].stuck <= op'[x].deposited
                      /\ chain[x].exited + chain[x].stuck <= op'[x].deposited
    BY <1>1, <1>4, <1>5 DEF OperatorsInv
  <2>1. /\ ExitedAt(x) \in Nat /\ StuckAt(x) \in Nat /\ op[x].exited \in Nat
        /\ op[x].stuck \in Nat /\ op[x].deposited \in Nat /\ op'[x].deposited \in Nat
        /\ chain[x].exited \in Nat /\ chain[x].stuck \in Nat
    BY <1>3, CountsTyped DEF Inv
  <2>2. op'[x].deposited >= op[x].deposited
    BY <1>4
  <2> QED
    BY <2>1, <2>2 DEF Inv, OperatorsInv
<1>9. ModulesInv'
  BY <1>1, <1>6 DEF Inv, ModulesInv, ReportCompletes, MainDataIn
<1>10. ReportsInv' /\ DeadlineInv'
  BY <1>1, ReportKept
<1> QED
  BY <1>7, <1>8, <1>9, <1>10 DEF Inv

\* The chain's exited counts only grow.
LEMMA ChangeChainInv ==
  ASSUME Inv, NEW o \in Operators, ChangeChain(o)
  PROVE  Inv'
<1>1. PICK e \in 0..op[o].deposited, z \in 0..op[o].deposited :
        /\ chain' = [chain EXCEPT ![o] = [exited |-> e, stuck |-> z]]
        /\ e \in {chain[o].exited, chain[o].exited + 1} /\ e + z <= op[o].deposited
  BY DEF ChangeChain
<1>2. UNCHANGED <<now, oracle, observed, agreed, extra, modulesVars>>
  BY DEF ChangeChain
<1>3. chain \in [Operators -> [exited : Nat, stuck : Nat]]
  BY DEF Inv, Typed
<1>4. e \in Nat /\ z \in Nat /\ chain' \in [Operators -> [exited : Nat, stuck : Nat]]
  BY <1>1, <1>3, CountsTyped DEF Inv
<1>5. Typed'
  BY <1>2, <1>4 DEF Inv, Typed, modulesVars
<1>6. /\ \A x : ExitedAt(x)' = ExitedAt(x) /\ StuckAt(x)' = StuckAt(x)
      /\ \A m : TotalExited(m)' = TotalExited(m) /\ SeenIn(m)' = SeenIn(m)
  BY <1>2 DEF ExitedAt, StuckAt, TotalExited, CountIn, SeenIn, modulesVars
<1>7. OperatorsInv'
  <2> SUFFICES ASSUME NEW x \in Operators
               PROVE  /\ op[x].exited <= ExitedAt(x) /\ ExitedAt(x) <= chain'[x].exited
                      /\ ExitedAt(x) + StuckAt(x) <= op[x].deposited
                      /\ op[x].exited + op[x].stuck <= op[x].deposited
                      /\ chain'[x].exited + chain'[x].stuck <= op[x].deposited
    BY <1>2, <1>6 DEF OperatorsInv, modulesVars
  <2>1. CASE x # o
    BY <1>1, <1>3, <2>1 DEF Inv, OperatorsInv
  <2>2. CASE x = o
    <3>1. chain'[x].exited = e /\ chain'[x].stuck = z /\ e >= chain[x].exited
      BY <1>1, <1>3, <2>2
    <3>2. ExitedAt(x) \in Nat /\ chain[x].exited \in Nat
      BY CountsTyped DEF Inv
    <3> QED
      BY <1>1, <1>4, <2>2, <3>1, <3>2 DEF Inv, OperatorsInv
  <2> QED
    BY <2>1, <2>2
<1>8. ModulesInv'
  BY <1>2, <1>6 DEF Inv, ModulesInv, ReportCompletes, MainDataIn, modulesVars
<1>9. ReportsInv' /\ DeadlineInv'
  BY <1>2, ReportKept
<1> QED
  BY <1>5, <1>7, <1>8, <1>9 DEF Inv

\* An agreed report is the one observed.
LEMMA AgreeInv ==
  ASSUME Inv, Agree
  PROVE  Inv'
<1> DEFINE r == observed.refSlot
           d == FrameAt(now, Config).deadlineSlot
<1>1. /\ FrameStarted(now, Config) /\ r > stored.lastProcessing
      /\ oracle' = [oracle EXCEPT ![Self].hash = r, ![Self].refSlot = r, ![Self].deadline = d]
      /\ agreed' = observed
      /\ UNCHANGED <<now, chain, observed, extra, modulesVars>>
  BY DEF Agree, SubmitConsensusReport, SubmitAccepted, stored
<1>2. /\ r = CurrentRefSlot /\ r \in Nat /\ FrameLength(Config) \in Nat
      /\ d = r + FrameLength(Config) /\ r < now /\ now \in Nat
  BY <1>1, SelfFacts, SlotInFrame DEF Inv, Typed, ReportsInv, CurrentRefSlot
<1> HIDE DEF d
<1>3. r \in Hashes
  <2>1. now <= MaxSlot
    BY DEF Inv, Typed
  <2> QED
    BY <1>2, <2>1, AccountingAssumption
<1>4. /\ Self \in Processors /\ stored \in OracleState /\ d \in Nat
      /\ oracle \in [Processors -> OracleState] /\ stored.lastProcessing \in Nat
  BY <1>2, SelfFacts, StoredFacts DEF Inv, Typed
<1>5. oracle' \in [Processors -> OracleState]
  BY <1>1, <1>2, <1>3, <1>4 DEF OracleState
<1>6. stored' = [stored EXCEPT !.hash = r, !.refSlot = r, !.deadline = d]
  BY <1>1, <1>4 DEF stored
<1>7. /\ stored'.hash = r /\ stored'.refSlot = r /\ stored'.deadline = d
      /\ stored'.lastProcessing = stored.lastProcessing
  BY <1>4, <1>6 DEF OracleState
<1>8. r # 0 /\ CurrentRefSlot' = CurrentRefSlot
  BY <1>1, <1>2, <1>4 DEF CurrentRefSlot
<1>9. ReportsInv'
  BY <1>1, <1>2, <1>4, <1>7, <1>8 DEF Inv, ReportsInv, MainDataIn, IsEmpty
<1>10. DeadlineInv'
  BY <1>1, <1>2, <1>7, <1>8 DEF DeadlineInv
<1>11. Typed' /\ OperatorsInv' /\ ModulesInv'
  BY <1>1, <1>2, <1>5, CountsKept DEF Inv, Typed
<1> QED
  BY <1>9, <1>10, <1>11 DEF Inv

\* A report that is lost leaves the rest as it is.
LEMMA DisagreeInv ==
  ASSUME Inv, Disagree
  PROVE  Inv'
<1>1. /\ UNCHANGED <<now, chain, observed, agreed, extra, modulesVars>>
      /\ oracle' = oracle \/ oracle' = [oracle EXCEPT ![Self].hash = ZeroHash]
  BY DEF Disagree, DiscardConsensusReport
<1>2. CurrentRefSlot' = CurrentRefSlot
  BY <1>1 DEF CurrentRefSlot
<1>3. /\ Self \in Processors /\ stored \in OracleState /\ oracle \in [Processors -> OracleState]
      /\ now \in Nat /\ now <= MaxSlot /\ agreed \in ReportData
  BY SelfFacts, StoredFacts DEF Inv, Typed
<1>4. CASE oracle' = oracle
  <2>1. Typed' /\ OperatorsInv' /\ ModulesInv'
    BY <1>1, <1>3, <1>4, CountsKept
  <2>2. ReportsInv' /\ DeadlineInv'
    BY <1>1, <1>4, ReportKept
  <2> QED
    BY <2>1, <2>2 DEF Inv
<1>5. CASE oracle' = [oracle EXCEPT ![Self].hash = ZeroHash]
  <2>1. stored' = [stored EXCEPT !.hash = ZeroHash] /\ oracle' \in [Processors -> OracleState]
    BY <1>3, <1>5 DEF stored, OracleState
  <2>2. /\ stored'.hash = ZeroHash /\ stored'.refSlot = stored.refSlot
        /\ stored'.lastProcessing = stored.lastProcessing
    BY <1>3, <2>1 DEF OracleState
  <2>3. Typed' /\ OperatorsInv' /\ ModulesInv'
    BY <1>1, <1>3, <2>1, CountsKept
  <2>4. ReportsInv' /\ DeadlineInv'
    BY <1>1, <1>2, <2>2 DEF Inv, ReportsInv, DeadlineInv, MainDataIn, IsEmpty
  <2> QED
    BY <2>3, <2>4 DEF Inv
<1> QED
  BY <1>1, <1>4, <1>5

\* The main data bring the router's counts to those observed.
LEMMA SubmitReportDataInv ==
  ASSUME Inv, SubmitReportData
  PROVE  Inv'
<1>1. /\ stored.hash # ZeroHash /\ now <= stored.deadline
      /\ oracle' = [oracle EXCEPT ![Self].lastProcessing = stored.refSlot]
      /\ UNCHANGED <<now, chain, observed, agreed, op>>
      /\ exitedByModule' = [m \in Modules |-> IF m \in DOMAIN agreed.modules THEN agreed.modules[m]
                                              ELSE exitedByModule[m]]
      /\ extra' = [refSlot |-> agreed.refSlot,
                   dataFormat |-> IF IsEmpty(agreed) THEN EMPTY ELSE LIST,
                   submitted |-> FALSE, data |-> agreed]
      /\ \E rewarded \in SUBSET Modules : undistributed' = undistributed \cup rewarded
  BY DEF SubmitReportData, StartProcessing, UpdateExitedValidatorsCountByStakingModule, stored
<1>2. /\ FrameStarted(now, Config) /\ stored.refSlot # 0
      /\ stored.refSlot = observed.refSlot /\ agreed = observed
  BY <1>1, CurrentReport DEF Inv
<1>3. /\ Self \in Processors /\ stored \in OracleState /\ stored.refSlot \in Nat
      /\ oracle \in [Processors -> OracleState]
  BY SelfFacts, StoredFacts DEF Inv, Typed
<1>4. /\ stored' = [stored EXCEPT !.lastProcessing = stored.refSlot]
      /\ oracle' \in [Processors -> OracleState]
  BY <1>1, <1>3 DEF stored, OracleState
<1>5. /\ stored'.hash = stored.hash /\ stored'.refSlot = stored.refSlot
      /\ stored'.deadline = stored.deadline /\ stored'.lastProcessing = stored.refSlot
  BY <1>3, <1>4 DEF OracleState
<1>6. CurrentRefSlot' = CurrentRefSlot
  BY <1>1 DEF CurrentRefSlot
<1>7. /\ extra'.refSlot = observed.refSlot /\ extra'.data = observed /\ ~extra'.submitted
      /\ extra'.dataFormat = IF IsEmpty(observed) THEN EMPTY ELSE LIST
      /\ extra' \in [refSlot : Nat, dataFormat : {EMPTY, LIST}, submitted : BOOLEAN,
                    data : ReportData]
  BY <1>1, <1>2, StoredFacts DEF Inv, Typed
<1>8. /\ \A x : ExitedAt(x)' = ExitedAt(x) /\ StuckAt(x)' = StuckAt(x)
      /\ \A m : TotalExited(m)' = TotalExited(m) /\ SeenIn(m)' = SeenIn(m)
  BY <1>1 DEF ExitedAt, StuckAt, TotalExited, CountIn, SeenIn
<1>9. ASSUME NEW m \in Modules PROVE exitedByModule'[m] = SeenIn(m)
  BY <1>1, <1>2, <1>9 DEF Inv, ModulesInv
<1>10. exitedByModule' \in [Modules -> Nat]
  <2>1. \A m \in Modules : exitedByModule'[m] \in Nat
    BY <1>9, CountsTyped DEF Inv
  <2> QED
    BY <1>1, <2>1
<1>11. Typed'
  BY <1>1, <1>4, <1>7, <1>10 DEF Inv, Typed
<1>12. ReportsInv'
  BY <1>1, <1>2, <1>3, <1>5, <1>6, <1>7 DEF Inv, ReportsInv, MainDataIn, IsEmpty
<1>13. DeadlineInv'
  BY <1>1, <1>2, <1>5, <1>6 DEF Inv, DeadlineInv
<1>14. OperatorsInv'
  BY <1>1, <1>8 DEF Inv, OperatorsInv
<1>15. ModulesInv'
  <2>1. ASSUME NEW m \in Modules
        PROVE  /\ TotalExited(m)' <= exitedByModule'[m] /\ exitedByModule'[m] <= SeenIn(m)'
               /\ m \in DOMAIN observed'.modules => observed'.modules[m] = SeenIn(m)'
               /\ exitedByModule'[m] = SeenIn(m)'
    <3>1. TotalExited(m) <= SeenIn(m) /\ SeenIn(m) \in Nat
      BY SeenBounds, CountsTyped DEF Inv
    <3> QED
      BY <1>1, <1>8, <1>9, <3>1 DEF Inv, ModulesInv
  <2> QED
    BY <1>7, <2>1 DEF ModulesInv, ReportCompletes
<1> QED
  BY <1>11, <1>12, <1>13, <1>14, <1>15 DEF Inv

\* The extra data bring the operators' counts to those observed, and with them
\* the modules' to the router's.
LEMMA DeliveredInv ==
  ASSUME Inv, NEW f, CanSubmitExtraData(f),
         op' \in [Operators -> [deposited : Nat, exited : Nat, stuck : Nat]],
         \A o \in Operators : /\ op'[o].exited = ExitedAt(o) /\ op'[o].stuck = StuckAt(o)
                              /\ op'[o].deposited = op[o].deposited,
         extra' = [extra EXCEPT !.submitted = TRUE], ReportingFinished,
         UNCHANGED <<now, oracle, chain, observed, agreed, exitedByModule>>
  PROVE  Inv'
<1>1. MainDataIn /\ extra.data = observed
  BY CanDeliver
<1>2. /\ extra' \in [refSlot : Nat, dataFormat : {EMPTY, LIST}, submitted : BOOLEAN,
                    data : ReportData]
      /\ extra'.refSlot = extra.refSlot /\ extra'.data = extra.data
      /\ extra'.dataFormat = extra.dataFormat
  BY DEF Inv, Typed
<1>3. ASSUME NEW o \in Operators
      PROVE  ExitedAt(o)' = ExitedAt(o) /\ StuckAt(o)' = StuckAt(o)
  BY DEF ExitedAt, StuckAt
<1>4. ASSUME NEW m
      PROVE  SeenIn(m)' = SeenIn(m) /\ TotalExited(m)' = SeenIn(m) /\ CountIn(op', m) = SeenIn(m)
  <2>1. [o \in Operators |-> ExitedAt(o)]' = [o \in Operators |-> ExitedAt(o)]
    BY <1>3
  <2>2. [o \in Operators |-> op'[o].exited] = [o \in Operators |-> ExitedAt(o)]
    OBVIOUS
  <2> QED
    BY <2>1, <2>2 DEF SeenIn, TotalExited, CountIn
<1>5. \A m \in Modules : exitedByModule[m] = SeenIn(m)
  BY <1>1 DEF Inv, ModulesInv
<1>6. undistributed' \subseteq Unreliable /\ undistributed' \subseteq Modules
  <2>1. Complete = Modules
    BY <1>4, <1>5 DEF Complete
  <2> QED
    BY <2>1 DEF ReportingFinished, Inv, Typed
<1>7. Typed'
  BY <1>2, <1>6 DEF Inv, Typed
<1>8. OperatorsInv'
  <2> SUFFICES ASSUME NEW o \in Operators
               PROVE  /\ ExitedAt(o) <= ExitedAt(o) /\ ExitedAt(o) <= chain[o].exited
                      /\ ExitedAt(o) + StuckAt(o) <= op[o].deposited
                      /\ chain[o].exited + chain[o].stuck <= op[o].deposited
    BY <1>3 DEF OperatorsInv
  <2>1. ExitedAt(o) \in Nat
    BY CountsTyped DEF Inv
  <2> QED
    BY <2>1 DEF Inv, OperatorsInv
<1>9. ModulesInv'
  <2>1. ASSUME NEW m \in Modules
        PROVE  /\ TotalExited(m)' <= exitedByModule'[m] /\ exitedByModule'[m] <= SeenIn(m)'
               /\ m \in DOMAIN observed'.modules => observed'.modules[m] = SeenIn(m)'
               /\ exitedByModule'[m] = SeenIn(m)' /\ TotalExited(m)' = exitedByModule'[m]
    <3>1. SeenIn(m) \in Nat
      BY CountsTyped DEF Inv
    <3> QED
      BY <1>4, <1>5, <3>1 DEF Inv, ModulesInv
  <2> QED
    BY <1>6, <2>1 DEF ModulesInv, ReportCompletes
<1>10. ReportsInv' /\ DeadlineInv'
  BY <1>2, ReportKept
<1> QED
  BY <1>7, <1>8, <1>9, <1>10 DEF Inv

\* Empty extra data: the counts are the observed ones already.
LEMMA EmptyInv ==
  ASSUME Inv, SubmitReportExtraDataEmpty
  PROVE  Inv'
<1>1. /\ CanSubmitExtraData(EMPTY) /\ extra' = [extra EXCEPT !.submitted = TRUE]
      /\ UNCHANGED <<op, now, oracle, chain, observed, agreed, exitedByModule>>
      /\ ReportingFinished
  BY DEF SubmitReportExtraDataEmpty
<1>2. extra.data = observed
  BY <1>1, CanDeliver
<1>3. IsEmpty(observed)
  BY <1>1, <1>2 DEF CanSubmitExtraData, Inv, ReportsInv, EMPTY, LIST
<1>4. \A o \in Operators : op'[o].exited = ExitedAt(o) /\ op'[o].stuck = StuckAt(o)
                           /\ op'[o].deposited = op[o].deposited
  BY <1>1, <1>3 DEF IsEmpty, ExitedAt, StuckAt
<1>5. op' \in [Operators -> [deposited : Nat, exited : Nat, stuck : Nat]]
  BY <1>1 DEF Inv, Typed
<1> QED
  BY <1>1, <1>4, <1>5, DeliveredInv

\* A list: every operator in it is brought to what was observed.
LEMMA ListInv ==
  ASSUME Inv, SubmitReportExtraDataList
  PROVE  Inv'
<1>1. /\ CanSubmitExtraData(LIST) /\ extra' = [extra EXCEPT !.submitted = TRUE]
      /\ op' = [o \in Operators |-> WithExited(WithStuck(o, extra.data), o, extra.data)]
      /\ UNCHANGED <<now, oracle, chain, observed, agreed, exitedByModule>>
      /\ ReportingFinished
  BY DEF SubmitReportExtraDataList
<1>2. extra.data = observed
  BY <1>1, CanDeliver
<1>3. ASSUME NEW o \in Operators
      PROVE  /\ op'[o] \in [deposited : Nat, exited : Nat, stuck : Nat]
             /\ op'[o].exited = ExitedAt(o) /\ op'[o].stuck = StuckAt(o)
             /\ op'[o].deposited = op[o].deposited
  <2> DEFINE s == WithStuck(o, observed)
  <2>1. op[o] \in [deposited : Nat, exited : Nat, stuck : Nat]
    BY DEF Inv, Typed
  <2>2. ExitedAt(o) \in Nat /\ StuckAt(o) \in Nat
    BY CountsTyped DEF Inv
  <2>3. /\ s \in [deposited : Nat, exited : Nat, stuck : Nat]
        /\ s.deposited = op[o].deposited /\ s.exited = op[o].exited /\ s.stuck = StuckAt(o)
    BY <2>1, <2>2 DEF WithStuck, StuckAt
  <2>4. op'[o] = WithExited(s, o, observed)
    BY <1>1, <1>2
  <2> HIDE DEF s
  <2> QED
    BY <2>2, <2>3, <2>4 DEF WithExited, ExitedAt
<1>4. op' \in [Operators -> [deposited : Nat, exited : Nat, stuck : Nat]]
  BY <1>1, <1>3
<1> QED
  BY <1>1, <1>3, <1>4, DeliveredInv

\* Initially nothing is deposited, reported or stored.
LEMMA InitInv == Init => Inv
<1> SUFFICES ASSUME Init PROVE Inv
  OBVIOUS
<1> DEFINE v == CHOOSE w \in Versions : TRUE
<1>1. v \in Versions
  <2>1. 0 \in Hashes /\ DataVersion[0] \in Versions
    BY AccountingAssumption, HashAssumption
  <2> QED
    BY <2>1
<1> HIDE DEF v
<1>2. oracle = [p \in Processors |-> InitialOracle(v, 0)]
  BY DEF Init, v
<1>3. oracle \in [Processors -> OracleState] /\ stored = InitialOracle(v, 0)
  BY <1>1, <1>2, SelfFacts DEF InitialOracle, OracleState, stored
<1>4. NothingObserved \in ReportData
  <2> DEFINE e == << >>
  <2>1. e \in [{} -> Nat] /\ {} \in SUBSET Modules /\ {} \in SUBSET Operators
    OBVIOUS
  <2>2. /\ e \in UNION {[T -> Nat] : T \in SUBSET Modules}
        /\ e \in UNION {[T -> Nat] : T \in SUBSET Operators}
    <3> HIDE DEF e
    <3> QED
      BY <2>1
  <2> QED
    BY <2>2 DEF NothingObserved, ReportData
<1>5. Typed
  BY <1>3, <1>4, AccountingAssumption DEF Init, Typed
<1>6. ~FrameStarted(now, Config)
  BY SlotsAssumption, SelfFacts DEF Init, FrameStarted, EpochAt, FrameConfig
<1>7. stored.hash = ZeroHash /\ stored.refSlot = 0 /\ stored.lastProcessing = 0
  BY <1>3 DEF InitialOracle
<1>8. IsEmpty(NothingObserved)
  BY DEF IsEmpty, NothingObserved
<1>9. ReportsInv /\ DeadlineInv
  BY <1>6, <1>7, <1>8 DEF Init, ReportsInv, DeadlineInv, MainDataIn, NothingObserved
<1>10. \A o \in Operators : /\ ExitedAt(o) = 0 /\ StuckAt(o) = 0
                            /\ op[o].exited = 0 /\ op[o].stuck = 0 /\ op[o].deposited = 0
                            /\ chain[o].exited = 0 /\ chain[o].stuck = 0
  BY DEF Init, ExitedAt, StuckAt, NothingObserved
<1>11. OperatorsInv
  BY <1>10 DEF OperatorsInv
<1>12. ASSUME NEW m \in Modules
       PROVE  TotalExited(m) = 0 /\ SeenIn(m) = 0 /\ exitedByModule[m] = 0
  <2> DEFINE S == OperatorsOf(m)
             z == [o \in Operators |-> 0]
             a == [o \in Operators |-> op[o].exited]
             c == [o \in Operators |-> ExitedAt(o)]
  <2>1. a = z /\ c = z
    BY <1>10
  <2>2. S \subseteq Operators /\ IsFiniteSet(S)
    BY SelfFacts
  <2>3. \A x \in S : z[x] \in Int /\ z[x] = z[x] - z[x]
    BY <2>2
  <2>4. SumOver(z, S) = SumOver(z, S) + SumOver(z, S) /\ SumOver(z, S) \in Int
    <3> HIDE DEF S, z
    <3> QED
      BY <2>2, <2>3, SumOverDifference, SumOverType
  <2> HIDE DEF S, z
  <2>5. SumOver(z, S) = 0
    <3> DEFINE s == SumOver(z, S)
    <3>1. s = s + s /\ s \in Int
      BY <2>4
    <3> HIDE DEF s
    <3>2. s = 0
      BY <3>1
    <3> QED
      BY <3>2 DEF s
  <2>6. SumOver(a, S) = 0 /\ SumOver(c, S) = 0
    BY <2>1, <2>5
  <2> QED
    BY <2>6 DEF S, TotalExited, CountIn, SeenIn, Init
<1>13. ModulesInv
  BY <1>12 DEF Init, ModulesInv, ReportCompletes, MainDataIn, NothingObserved
<1> QED
  BY <1>5, <1>9, <1>11, <1>13 DEF Inv

\* Every step keeps the invariant.
LEMMA NextInv == Inv /\ [Next]_vars => Inv'
<1> SUFFICES ASSUME Inv, [Next]_vars PROVE Inv'
  OBVIOUS
<1>1. CASE UNCHANGED vars
  <2>1. /\ UNCHANGED <<now, oracle, chain, observed, agreed, extra, modulesVars>>
        /\ now' \in Nat /\ now' <= MaxSlot
        /\ oracle' \in [Processors -> OracleState] /\ agreed' \in ReportData
    BY <1>1 DEF vars, Inv, Typed
  <2> QED
    BY <2>1, CountsKept, ReportKept DEF Inv
<1> QED
  BY <1>1, TickInv, DepositInv, ChangeChainInv, AgreeInv, DisagreeInv, SubmitReportDataInv,
     EmptyInv, ListInv DEF Next

-------------------------------------------------------------------------------
\* The theorems

\* The inductive invariant holds of every reachable state.
THEOREM Invariant == Spec => []Inv
<1>1. Init => Inv
  BY InitInv
<1>2. Inv /\ [Next]_vars => Inv'
  BY NextInv
<1> QED
  BY <1>1, <1>2, PTL DEF Spec

\* Counts are natural numbers, and an operator never has more exited and stuck
\* validators than deposits.
THEOREM TypeCorrect == Spec => []TypeOK
<1>1. Inv => TypeOK
  BY DEF Inv, Typed, OperatorsInv, TypeOK
<1> QED
  BY <1>1, Invariant, PTL

\* The router's counts lead the modules', neither is ahead of the chain, and the
\* extra data of one report bring them together and release the rewards, also
\* when the extra data of earlier reports never came.
THEOREM CountsAlwaysSettle == Spec => []CountsSettle
<1>1. Inv => CountsSettle
  <2> SUFFICES ASSUME Inv PROVE RouterLeads /\ ReportCompletes
    BY DEF CountsSettle
  <2>1. ASSUME NEW m \in Modules
        PROVE  TotalExited(m) <= exitedByModule[m] /\ exitedByModule[m] <= CountIn(chain, m)
    <3>1. /\ TotalExited(m) <= exitedByModule[m] /\ exitedByModule[m] <= SeenIn(m)
          /\ SeenIn(m) <= CountIn(chain, m)
      BY SeenBounds DEF Inv, ModulesInv
    <3>2. exitedByModule[m] \in Nat /\ SeenIn(m) \in Nat /\ CountIn(chain, m) \in Nat
      BY CountsTyped DEF Inv, Typed
    <3> QED
      BY <3>1, <3>2
  <2> QED
    BY <2>1 DEF RouterLeads, Inv, ModulesInv
<1> QED
  BY <1>1, Invariant, PTL

\* Neither phase of an honest report is refused within its deadline, whatever
\* was deposited, reported or lost before.
THEOREM ReportsAlwaysAccepted == Spec => []ReportsNeverRefused
<1>1. Inv => ReportsNeverRefused
  BY CountsAlwaysAccepted, ItemsAlwaysAccepted DEF ReportsNeverRefused
<1> QED
  BY <1>1, Invariant, PTL

\* Data reach the modules only before the next reference slot is observed.
THEOREM DeliveredInTime == Spec => NeverAfterNextObservation
<1>1. Inv /\ [Next]_vars
        => [exitedByModule' # exitedByModule \/ extra'.submitted # extra.submitted
              => extra'.refSlot = observed.refSlot]_vars
  <2> SUFFICES ASSUME Inv, Next,
                      exitedByModule' # exitedByModule \/ extra'.submitted # extra.submitted
               PROVE  extra'.refSlot = observed.refSlot
    OBVIOUS
  <2>1. CASE SubmitReportData
    <3>1. /\ stored.hash # ZeroHash /\ now <= stored.deadline
          /\ extra'.refSlot = agreed.refSlot
      BY <2>1 DEF SubmitReportData, StartProcessing, stored
    <3> QED
      BY <3>1, CurrentReport DEF Inv
  <2>2. ASSUME NEW f, CanSubmitExtraData(f), extra' = [extra EXCEPT !.submitted = TRUE]
        PROVE  extra'.refSlot = observed.refSlot
    BY <2>2, CanDeliver DEF Inv, Typed
  <2> QED
    BY <2>1, <2>2 DEF Next, Tick, Deposit, ChangeChain, Agree, Disagree,
                      SubmitReportExtraDataEmpty, SubmitReportExtraDataList, modulesVars
<1> QED
  BY <1>1, Invariant, PTL DEF Spec, NeverAfterNextObservation
===================================================================================
