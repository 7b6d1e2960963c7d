----------------------------- MODULE AccountingOracle -----------------------------
(***************************************************************************)
(* AccountingOracle.sol with the counts of exited validators it moves into *)
(* StakingRouter.sol and the staking modules.                              *)
(*                                                                         *)
(* A report is delivered in two transactions.  The main data carry the     *)
(* exited validators of each module, which the router keeps; the extra     *)
(* data, submitted later or never, carry the stuck and exited validators   *)
(* of single operators, which the modules keep.  What a report says is     *)
(* what an honest committee sees at its reference slot, and may be stale   *)
(* when it is delivered.                                                   *)
(*                                                                         *)
(* Of an operator only the counts a report is checked against are kept.    *)
(* What the main data do to the withdrawal queue and to Lido is not part   *)
(* of this module; the limits of the sanity checker are not reached.       *)
(***************************************************************************)
EXTENDS Frames, BaseOracle, Totals

CONSTANTS Self,          \* the address of the accounting oracle
          Config,        \* the committee's frame configuration, which stays
          ModuleOf,      \* ModuleOf[o]: the staking module of operator o
          MaxKeys,       \* bound: MaxKeys[o] deposits of operator o
          Unreliable,    \* modules whose callbacks may revert
          MaxSlot        \* bound: the clock stops here

Operators == DOMAIN ModuleOf
Modules   == {ModuleOf[o] : o \in Operators}

ASSUME AccountingAssumption ==
  /\ Processors = {Self} /\ Hashes = 0..MaxSlot
  /\ Config \in FrameConfig /\ ValidConfig(Config)
  /\ IsFiniteSet(Operators)
  /\ MaxKeys \in [Operators -> Nat]
  /\ Unreliable \subseteq Modules
  /\ MaxSlot \in Nat

VARIABLES now,           \* block.timestamp, in slots
          chain,         \* external: chain[o] = [exited, stuck] on the consensus layer
          observed,      \* external: what a report for the last reference slot says
          agreed,        \* what the data behind oracle[Self].hash say
          extra,         \* ExtraDataProcessingState and the data behind dataHash
          exitedByModule,      \* StakingModule.exitedValidatorsCount in the router
          op,                  \* op[o] = [deposited, exited, stuck] in its module
          undistributed        \* modules with rewards not yet handed to operators

modulesVars == <<exitedByModule, op, undistributed>>
vars == <<now, oracle, chain, observed, agreed, extra, modulesVars>>

-------------------------------------------------------------------------------
\* Counts

OperatorsOf(m) == {o \in Operators : ModuleOf[o] = m}

CountIn(c, m) == SumOver([o \in Operators |-> c[o].exited], OperatorsOf(m))

\* getStakingModuleSummary
TotalExited(m)    == CountIn(op, m)
TotalDeposited(m) == SumOver([o \in Operators |-> op[o].deposited], OperatorsOf(m))

\* What the oracle daemon reports for the reference slot now: modules and
\* operators whose counts are outdated (AccountingOracle.sol:192-200 and 343-345).
Observation ==
  [refSlot |-> now,
   modules |-> [m \in {m \in Modules : CountIn(chain, m) > TotalExited(m)} |-> CountIn(chain, m)],
   stuck   |-> [o \in {o \in Operators : chain[o].stuck # op[o].stuck} |-> chain[o].stuck],
   exited  |-> [o \in {o \in Operators : chain[o].exited # op[o].exited} |-> chain[o].exited]]

NothingObserved == [refSlot |-> 0, modules |-> << >>, stuck |-> << >>, exited |-> << >>]

IsEmpty(data) == DOMAIN data.stuck = {} /\ DOMAIN data.exited = {}

EMPTY == 0    \* EXTRA_DATA_FORMAT_EMPTY
LIST  == 1    \* EXTRA_DATA_FORMAT_LIST

Init ==
  /\ now = 0
  /\ oracle = [p \in Processors |-> InitialOracle(CHOOSE v \in Versions : TRUE, 0)]
  /\ chain = [o \in Operators |-> [exited |-> 0, stuck |-> 0]]
  /\ observed = NothingObserved /\ agreed = NothingObserved
  /\ extra = [refSlot |-> 0, dataFormat |-> EMPTY, submitted |-> FALSE, data |-> NothingObserved]
  /\ exitedByModule = [m \in Modules |-> 0]
  /\ op = [o \in Operators |-> [deposited |-> 0, exited |-> 0, stuck |-> 0]]
  /\ undistributed = {}

-------------------------------------------------------------------------------
\* The world

\* A report covers the block of its reference slot, so it is taken at its end.
Tick ==
  /\ now < MaxSlot
  /\ now' = now + 1
  /\ observed' = IF FrameStarted(now + 1, Config) /\ RefSlotAt(now + 1, Config) = now
                 THEN Observation ELSE observed
  /\ UNCHANGED <<oracle, chain, agreed, extra, modulesVars>>

\* External: a deposit in the operator's module.
Deposit(o) ==
  /\ op[o].deposited < MaxKeys[o]
  /\ op' = [op EXCEPT ![o].deposited = @ + 1]
  /\ UNCHANGED <<now, oracle, chain, observed, agreed, extra, exitedByModule, undistributed>>

\* External: a validator exits, one that was late or another; one becomes
\* late, or is not late any more.
ChangeChain(o) ==
  /\ \E e, s \in 0..op[o].deposited :
       /\ chain' = [chain EXCEPT ![o] = [exited |-> e, stuck |-> s]]
       /\ e \in {chain[o].exited, chain[o].exited + 1}
       /\ e + s <= op[o].deposited
  /\ UNCHANGED <<now, oracle, observed, agreed, extra, modulesVars>>

\* The committee of HashConsensus.tla agrees on the report, or loses it again.
Agree ==
  /\ FrameStarted(now, Config)
  /\ SubmitConsensusReport(Self, observed.refSlot, observed.refSlot,
                           FrameAt(now, Config).deadlineSlot, now)
  /\ agreed' = observed
  /\ UNCHANGED <<now, chain, observed, extra, modulesVars>>

Disagree ==
  /\ FrameStarted(now, Config)
  /\ DiscardConsensusReport(Self, observed.refSlot)
  /\ UNCHANGED <<now, chain, observed, agreed, extra, modulesVars>>

-------------------------------------------------------------------------------
\* First phase

CountsAccepted(counts) ==
  \A m \in DOMAIN counts : counts[m] >= exitedByModule[m] /\ counts[m] <= TotalDeposited(m)

\* Fault: the new exits are stored in place of all.
UpdateExitedValidatorsCountByStakingModule_Fault(counts) ==
  /\ CountsAccepted(counts)
  /\ exitedByModule' = [m \in Modules |-> IF m \in DOMAIN counts
                                          THEN counts[m] - exitedByModule[m]
                                          ELSE exitedByModule[m]]

\* StakingRouter.updateExitedValidatorsCountByStakingModule
UpdateExitedValidatorsCountByStakingModule(counts) ==
  /\ CountsAccepted(counts)
  /\ exitedByModule' = [m \in Modules |-> IF m \in DOMAIN counts THEN counts[m]
                                          ELSE exitedByModule[m]]

\* submitReportData.  The rewards that Lido may mint go to modules that have
\* active validators, any set of them here.
SubmitReportData ==
  /\ StartProcessing(Self, agreed.refSlot, now)
  /\ \A m \in DOMAIN agreed.modules : agreed.modules[m] # 0
  /\ UpdateExitedValidatorsCountByStakingModule(agreed.modules)
  /\ extra' = [refSlot    |-> agreed.refSlot,
               dataFormat |-> IF IsEmpty(agreed) THEN EMPTY ELSE LIST,
               submitted  |-> FALSE,
               data       |-> agreed]
  /\ \E rewarded \in SUBSET Modules : undistributed' = undistributed \cup rewarded
  /\ UNCHANGED <<now, chain, observed, agreed, op>>

-------------------------------------------------------------------------------
\* Second phase

\* Fault: no deadline.
CanSubmitExtraData_Late(format) ==
  /\ oracle[Self].hash # ZeroHash
  /\ extra.refSlot = oracle[Self].refSlot
  /\ extra.dataFormat = format

\* _checkCanSubmitExtraData
CanSubmitExtraData(format) ==
  /\ oracle[Self].hash # ZeroHash
  /\ extra.refSlot = oracle[Self].refSlot
  /\ now <= oracle[Self].deadline
  /\ extra.dataFormat = format

\* onValidatorsCountsByNodeOperatorReportingFinished: modules whose own count
\* is the router's get the callback that distributes their rewards; one that
\* reverts in it is skipped.

Complete == {m \in Modules : CountIn(op', m) = exitedByModule[m]}

ReportingFinished ==
  \E failing \in SUBSET Unreliable :
    undistributed' = undistributed \ (Complete \ failing)

SubmitReportExtraDataEmpty ==
  /\ CanSubmitExtraData(EMPTY)
  /\ ~extra.submitted
  /\ extra' = [extra EXCEPT !.submitted = TRUE]
  /\ UNCHANGED op
  /\ ReportingFinished
  /\ UNCHANGED <<now, oracle, chain, observed, agreed, exitedByModule>>

\* External, NodeOperatorsRegistry.sol: an operator after a stuck, an exited count.

StuckAccepted(s, n) == n = s.stuck \/ n <= s.deposited - s.exited
ExitedAccepted(s, n) == n = s.exited \/ (n > s.exited /\ n + s.stuck <= s.deposited)

\* The items sorted by type first: an operator's stuck count comes before its
\* exited count, and it has at most one of each.

WithStuck(o, data) == IF o \in DOMAIN data.stuck THEN [op[o] EXCEPT !.stuck = data.stuck[o]]
                      ELSE op[o]

\* Fault: the operator's record from before its stuck count is written back.
WithExited_Fault(s, o, data) ==
  IF o \in DOMAIN data.exited THEN [op[o] EXCEPT !.exited = data.exited[o]] ELSE s

WithExited(s, o, data) == IF o \in DOMAIN data.exited THEN [s EXCEPT !.exited = data.exited[o]]
                          ELSE s

ItemsAccepted_Fault(data) ==    \* fault: exited counts come first
  \A o \in Operators :
    /\ o \in DOMAIN data.exited => ExitedAccepted(op[o], data.exited[o])
    /\ o \in DOMAIN data.stuck  => StuckAccepted(WithExited(op[o], o, data), data.stuck[o])
ItemsAccepted(data) ==
  \A o \in Operators :
    /\ o \in DOMAIN data.stuck  => StuckAccepted(op[o], data.stuck[o])
    /\ o \in DOMAIN data.exited => ExitedAccepted(WithStuck(o, data), data.exited[o])

SubmitReportExtraDataList ==
  /\ CanSubmitExtraData(LIST)
  /\ ~extra.submitted
  /\ ItemsAccepted(extra.data)
  /\ op' = [o \in Operators |-> WithExited(WithStuck(o, extra.data), o, extra.data)]
  /\ extra' = [extra EXCEPT !.submitted = TRUE]
  /\ ReportingFinished
  /\ UNCHANGED <<now, oracle, chain, observed, agreed, exitedByModule>>

-------------------------------------------------------------------------------
Next ==
  \/ Tick
  \/ \E o \in Operators : Deposit(o)
  \/ \E o \in Operators : ChangeChain(o)
  \/ Agree
  \/ Disagree
  \/ SubmitReportData
  \/ SubmitReportExtraDataEmpty
  \/ SubmitReportExtraDataList

Spec == Init /\ [][Next]_vars

-------------------------------------------------------------------------------
\* Properties

TypeOK ==
  /\ now \in Nat
  /\ oracle \in [Processors -> OracleState]
  /\ chain \in [Operators -> [exited : Nat, stuck : Nat]]
  /\ exitedByModule \in [Modules -> Nat]
  /\ op \in [Operators -> [deposited : Nat, exited : Nat, stuck : Nat]]
  /\ undistributed \subseteq Modules
  /\ \A o \in Operators : op[o].exited + op[o].stuck <= op[o].deposited

\* A module's own count of exited validators is never ahead of the one the
\* router shares out stake and fees by, and neither is ahead of the chain.
RouterLeads ==
  \A m \in Modules : /\ TotalExited(m) <= exitedByModule[m]
                     /\ exitedByModule[m] <= CountIn(chain, m)

\* The main data of an honest report are never refused.
MainDataNeverRefused ==
  /\ oracle[Self].hash # ZeroHash
  /\ oracle[Self].lastProcessing # oracle[Self].refSlot
  /\ now <= oracle[Self].deadline
  => CountsAccepted(agreed.modules)

\* Nor are its extra data, whatever arrived before them and whatever happened
\* on the chain meanwhile: one refused item would keep all operators' counts
\* back for a frame.
ExtraDataNeverRefused ==
  CanSubmitExtraData(LIST) /\ ~extra.submitted => ItemsAccepted(extra.data)

\* Once the extra data are in, all operators' counts are those of the reference
\* slot, so that every module agrees with the router and has distributed its
\* rewards, unless its callback failed; also when the extra data of earlier
\* reports never came (StakingRouter.sol:333-361, step 4).
ReportCompletes ==
  extra.submitted => /\ \A m \in Modules : TotalExited(m) = exitedByModule[m]
                     /\ undistributed \subseteq Unreliable

\* The router's counts and the modules' never part further than one delivery of
\* extra data, and it brings them together.
CountsSettle == RouterLeads /\ ReportCompletes

\* No phase of an honest report is ever refused within its deadline.
ReportsNeverRefused == MainDataNeverRefused /\ ExtraDataNeverRefused

\* Data reach the modules before the next reference slot is observed: no report
\* is computed from counts that an older report changes afterwards.
NeverAfterNextObservation ==
  [][exitedByModule' # exitedByModule \/ extra'.submitted # extra.submitted
       => extra'.refSlot = observed.refSlot]_vars
===================================================================================
