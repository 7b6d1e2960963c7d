# TaoLSD in TLA+

A verification development for TaoLSD, a liquid staking protocol: users deposit
ether and hold shares, node operators run validators with it, a committee of
oracle members reports the state of the consensus layer frame by frame, and
withdrawal requests are paid in FIFO order. It covers the three kinds of program
in this repository: the contracts (`src/contracts`), the scripts that deploy
and provision them (`src/scripts`, `src/lib`), and the client that prepares and
pushes oracle reports (`src/lib/protocol/helpers`).

It consists of TLA+ modules translated from the Solidity and TypeScript sources, TLC
configurations that check them on small instances, and proofs checked by TLAPS.
`PROJECT.json` holds, for every definition, the source lines it stands for; for
every property, the fault of the code that would break it; and the list of
hazards the properties are written against.

Running it, in this directory:

    tlc -workers 2 -config committee.cfg MCHashConsensus      # one line per run below
    tlapm HashConsensus_proofs.tla                            # the proofs

## 1. Inventory

### How the parts interact

    guardians -> DepositSecurityModule --deposit--> Lido --deposit--> StakingRouter --obtainDepositData--> NodeOperatorsRegistry
                                                                                   \--min-first allocation
    users ----submit / request / claim----> Lido / WithdrawalQueue

    oracle members --submitReport--> HashConsensus --submit/discardConsensusReport--> AccountingOracle | ValidatorsExitBusOracle
    anyone --report data--> AccountingOracle --exited counts--> StakingRouter --> NodeOperatorsRegistry
                                             --bunker mode----> WithdrawalQueue
                                             --report---------> Lido --checks-----> OracleReportSanityChecker, rebase limiter
                                                                     --vaults-----> WithdrawalVault, ELRewardsVault
                                                                     --finalize---> WithdrawalQueue
                                                                     --burn-------> Burner
                                                                     --mint fee---> StETH shares
    anyone --extra data (stuck, exited per operator)--> AccountingOracle --> StakingRouter --> NodeOperatorsRegistry

    migration steps --transactions--> chain (DAO template, proxies, contracts)
          \--read and write--> deployed-<network>.json --import--> discovery --> provisioning --> deposits and accounting reports
                                        \--read--> verify:deployed
    reporting client --votes, report data, extra data--> HashConsensus, AccountingOracle
          \--static calls (simulation, batches)--> Lido, WithdrawalQueue

A transaction is atomic: every external function, with all the calls it makes,
is one step, and a revert undoes it. Interleaving happens between transactions:
the order of votes, administration calls, processing, deposits, claims and the
passing of time is arbitrary. What is read off chain (an attestation, a
withdrawal batch, a checkpoint hint, a report) is used in a later transaction
and may be stale by then. Scripts and the client are sequences of awaited
calls: other actors, exceptions and restarts come between any two of them.

### Components

| Component | State | Operations | What makes it correct |
|---|---|---|---|
| **HashConsensus** | frame configuration, members and their last vote, quorum, report variants with support counters, reporting state, report processor | submit a report; add/remove members; set or disable the quorum; change frames; replace the processor | support counters are the votes; the processor holds the hash a quorum of current members agrees on, or none; at most one such hash; reference slots only grow; no call is blocked by the processor's checks |
| **BaseOracle** | stored report (hash, reference slot, deadline), last processed slot, contract and consensus version | report pushed, discarded, processing started, version changed | slots never go back; a report is processed once, before its deadline, and is frozen from then on |
| **AccountingOracle** | extra-data state of the last processed report: hash, counts, last sorting key, submitted flag | submit report data; submit extra data (empty or list) | main data once per frame; extra data only for the report in processing, before its deadline, sorted and complete |
| **ValidatorsExitBusOracle** | last requested validator per operator, total requests, pause | submit report data with exit requests, pause, resume | requests strictly ascending, per operator never repeated; totals equal what was emitted |
| **WithdrawalQueue(Base, ERC721)** | requests with cumulative ether and shares, checkpoints, last finalised id, locked ether, owners, bunker mode, pause | request, finalise, claim, transfer, bunker mode, pause | FIFO; each request claimed once by its owner, for at most its ether at the finalisation rate; locked ether covers all finalised unclaimed requests |
| **Lido / StETH** | shares, buffered ether, deposited and reported validators, CL balance, stop flag | submit, deposit, oracle report, receive rewards and withdrawals | ether is conserved between buffer, queue, transient validators and CL balance; shares change only by submit, fee, burn; a report cannot move the share rate beyond the limit |
| **Burner** | cover and non-cover shares requested, totals burnt | request, commit, recover excess | requested shares are held; cover burnt first; recovering never touches requested shares |
| **OracleReportSanityChecker, rebase limiter** | limits | check a report, smoothen a rebase | limits respected, ether before shares |
| **StakeLimitUtils** | packed limit state | consume, pause, resume, change | never more than the maximum in the window, monotone replenishment |
| **StakingRouter** | modules: status, fees, share limits, exited counts; withdrawal credentials | add/update modules, deposit, exited reports, mint notifications | deposits bounded by target share and capacity, exited counts never decrease by reports, fee split sums up |
| **NodeOperatorsRegistry** | per operator: key counts, stuck/refunded/penalty, target limits; module totals; nonce | keys, operators, limits, counts, deposit data, rewards | exited + stuck <= deposited <= max <= vetted <= total; totals are sums; deposits take keys once, in order; nonce changes with the deposit data |
| **MinFirstAllocationStrategy** | none (pure) | allocate | never above capacity or size; the smallest bucket first |
| **DepositSecurityModule** | guardians, quorum, last deposit block, pause intents' validity, parameters | deposit with attestations, pause, unpause, guardian set | a deposit needs a quorum of distinct current guardians on fresh root and nonce, with a minimal block distance |
| **PausableUntil** | resume time | pauseFor, pauseUntil, resume | paused exactly up to the resume time |
| **Deployment steps, state file** | `deployed-<network>.json`, the copy a step holds, memory of the process | sixteen steps of transactions and file writes; reset; skip when deployed | the file is a true record of one deployment; no step is refused; roles pass from the deployer to the Agent and are never lost |
| **Discovery, provisioning** | cached import of the file, contracts found | discover; ensure epoch, unpause, operators, keys, limits | what is found is what was deployed; helpers can be repeated, also after an interruption, and leave the protocol ready for deposits, withdrawals and accounting reports |
| **Verification** | none | list the contracts of the file, submit each | every contract the scripts recorded is submitted |
| **Reporting client** | numbers read and not yet used: report, simulation, batch calculation | report, finalize the queue, ensure members | a report is accepted although the chain moved on; bunker mode fits the report; draining ends |
| **LegacyOracle, WstETH, access control, proxies** | see PROJECT.json | | facades and plumbing |

### The hard behaviours

* *Stale support.* A member's vote, its removal, the start of processing and the
  replacement of the processor all touch the same support counter.
* *Two clocks.* The committee computes frames from its configuration; the
  processor remembers slots and deadlines of what it was given.
* *Counts set by several callers in any order.* Exited, stuck, refunded, vetted
  and target counts of an operator all bound each other.
* *Rounding.* Share rates at 1e27 precision, per request and per batch.
* *Off-chain data used later.* Attestations, batches, hints, hashes.
* *Half-done deployments.* A step fails between a transaction and the record of
  it; the next run meets what is there, on the chain, in the file, in memory.
* *Simulated, then done.* The client decides on a static call of a report with
  other arguments than the one it submits later.
* *Overlap of two reports.* Extra data of one report and main data of the next.

The full list, each with its source line and the properties aimed at it, is
"hazards" in `PROJECT.json`.

## 2. Architecture and plan

### Modules

    Frames            committee clock: epochs, frames, fast lane          (operators)
    BaseOracle        a report processor's stored report                  (operators)
    HashConsensus     EXTENDS Frames, BaseOracle: committee + processors  (state machine)
    AccountingOracle  EXTENDS Frames, BaseOracle, Totals: the two phases of a report,
                      with the router's and the modules' counts           (state machine)
    ValidatorsExitBus EXTENDS Frames, BaseOracle, PausableUntil           (state machine)
    CommitteeVoting   what the committee promises                         (abstract)

    Totals            sums over sequences and sets                        (operators)
    MinFirstAllocation  EXTENDS Totals: the allocation loop as a recursive
                      function, and one item at a time                    (operators)
    NodeOperatorsRegistry  EXTENDS MinFirstAllocation                     (state machine)

    PausableUntil     pause with a resume time                            (actions)
    FinalizationBatches  share rates, batches, ether to lock              (operators)
    BatchCalculation  the oracle's repeated calls                         (state machine)
    WithdrawalQueue   EXTENDS FinalizationBatches, PausableUntil          (state machine)
    WithdrawalEscrow  what the queue promises to a request's holder       (abstract)

    TokenRebaseLimiter  the limiter and smoothenTokenRebase               (operators)
    Lido              EXTENDS TokenRebaseLimiter, FinalizationBatches: shares,
                      buffer, burner, vaults, fees, checks                (operators)
    Reporting         EXTENDS Lido, Frames: users, committee, client      (state machine)

    StateFile         the JSON file of a network                          (operators)
    DeploymentChain   EXTENDS StateFile: what a mined transaction does    (operators)
    ScratchSteps      EXTENDS DeploymentChain: the migration scripts      (operators)
    Provisioning      EXTENDS DeploymentChain: discovery and helpers      (operators)
    ScratchDeployment EXTENDS ScratchSteps, Provisioning: the process     (state machine)

    MC*               instances for TLC: constants, symmetry, views
    *_proofs          theorems
    Foundations       EXTENDS Frames: the theorems on the clock and the fast lane, and the
                      facts on sums and recursive functions all proofs share

`HashConsensus` is the composition of the committee with the report processors:
every call it makes to a processor (`submitConsensusReport`,
`discardConsensusReport`) happens in the same action, as in the contracts. The
registry calls the allocation library in the same way, and the withdrawal queue
is run by reports that compose `onOracleReport`, the price of the batches and
`finalize`, as `AccountingOracle` and `Lido` do in one transaction. `Reporting`
composes the client, call by call, with the committee, the accounting oracle and
all that one report settles; it takes the batches from the same module as the
queue. `ScratchDeployment` interprets the scripts: a step is a sequence of
operations, and one action is one transaction or one write of the file.

Three abstract specifications state what a component promises and are checked as
properties: `CommitteeVoting` (one agreed hash per slot, of a quorum of current
members), `WithdrawalEscrow` (first come, first settled, settled amounts never
change, paid once), and, for the pure algorithms, the definitions in the comments
of the contracts: one item at a time to a least filled bucket
(`ItemByItem` in `MinFirstAllocation`) and the longest payable prefix of the queue
(`BatchCalculation!LastPayable`). `WithdrawalEscrow` does not say who is paid: that a
claim is its owner's is a guard of the code, and what could go wrong with it is the index by
owner (`OwnersIndexed`).

Operators whose name ends in `_Fault`, `_Never`, `_Late`, `_FromNow` or
`_FromInitial` are not part of a specification. Each stands next to the definition
it is a faulty version of; `PROJECT.json` says which property notices it.

### Order of work

Done: the committee (the input of everything else), the registry with its
allocation, the withdrawal queue, the two phases of the accounting report, the exit
bus; then the deployment from scratch with discovery, provisioning and verification;
then the settlement of a report in `Lido` with the client that prepares it. What is left:

1. `StakeLimitUtils` beside `Lido.submit`, and `unsafeChangeDepositedValidators`.
2. `DepositSecurityModule` over `StakingRouter` and the registry: deposits by
   attestations that may be stale, pause intents. Theorem: a deposit uses the nonce
   that was attested.
3. More proofs: the file of a deployment (`RecordIsTrue`), which needs a specification of
   any script rather than of these sixteen.

## 3. The committee: Frames, BaseOracle, HashConsensus

| TLA+ | Code |
|---|---|
| `now` | the slot of the current block (`_getTime`, `_computeSlotAtTimestamp`) |
| `frameConfig` | `_frameConfig` |
| `members`, `memberState`, `quorum` | `_memberAddresses` in array order (it decides the fast lane), `_memberStates`, `_quorum`; `_memberIndices1b` is derived from the array |
| `variants` | `_reportVariants` and its length, with the support counters |
| `reporting` | `_reportingState` |
| `processor` | `_reportProcessor`; `switches` bounds how often it is replaced |
| `oracle[p]` | storage of processor `p`: stored report and deadline, last processing slot, consensus version |
| `Tick` | one slot passes |
| `UpdateInitialEpoch`, `SetFrameConfig`, `SetFastLaneLengthSlots` | administration of frames; a change of the frame length moves the initial epoch to the frame that has begun |
| `AddMember`, `RemoveMember`, `SetQuorum`, `DisableConsensus`, `SetReportProcessor` | each with the consensus check it ends in and the calls that makes |
| `SubmitReport` | a vote: reference slot, variant and version checks, fast lane, change of mind, consensus reached or lost |
| `ProcessReport`, `ChangeConsensusVersion` | `_checkConsensusData` + `_startProcessing` of a processor, `_setConsensusVersion` |

The interval between a reference slot and its processing deadline is that of the
code, integer division included. Report contents are model values;
`DataVersion` gives each the consensus version its data carry.

Runs:

* **committee**: three addresses that join and leave, two hashes of different
  versions, quorums 1 to 3, two slots per epoch, frames of one epoch, slots up to
  4, one processor, fast lane of no or one slot; members are symmetric. Two
  hashes and three members are the least that make a minority, a tie, a change of
  mind that loses a quorum, and a member who leaves a quorum behind. With two
  frames, votes, a held report and a processed one can all be of the frame before.
  It shows (`VotesCounted`) that support counters are the votes of the current
  members, that the processor holds exactly the agreed hash and that the fast lane
  is made of `quorum` members, and that all of it implements `CommitteeVoting`. The
  window of the fast lane needs as many frames as there are members to go around, more than
  the slots reach: `FastLaneIsQuorum` looks at the lanes of the frames to come as well, which
  are computed from the state and the index of the frame.
* **reconfiguration**: two processors, one of which may replace the other once,
  frame lengths 1 and 2, slots up to 3, two symmetric addresses and hashes. It
  shows that slots never go back through reconfiguration or replacement
  and that a started report stays as it is (`SlotsOnlyAdvance`, `OraclesNotAhead`),
  and that no vote or consensus is blocked by the processor's checks
  (`CommitteeNeverBlocked`, stated with ENABLED, and as its first part
  `CommitteeChecksHold` the same check by check).
* **ghost_support**, on the same instance, shows a disagreement with a comment of
  the code, by which a variant's support is the number of current members that reported
  it (`HashConsensus.sol:165`). The support of a member removed after the processor has started
  the slot is kept (743-747). Nothing happens when the processor is then replaced:
  `_setReportProcessor` (1012-1034) makes no check and pushes nothing, as the old processor has
  started. But if the new one has not, the frame's votes are open again. In the
  counterexample the only member has left; a member is added with a quorum of two, whose
  check drops the consensus, and removed with a quorum of one, whose check finds the stale
  support of one and pushes the report to the new processor. The committee is empty then.

`VotesCounted` is therefore a property of a deployment with one processor. A second
observation has no run: a change of the frame length changes the deadline that
`getCurrentFrame` announces (`HashConsensus.sol:302`), but not the one stored with
a report that is already held (340-349).

## 4. The registry: NodeOperatorsRegistry, MinFirstAllocation

| TLA+ | Code |
|---|---|
| `op[i]` | `_nodeOperators[i]`: `active`; `exited`, `total`, `vetted`, `deposited` of `signingKeysStats`; `stuck`, `refunded`, `penaltyEnd` of `stuckPenaltyStats`; `limited`, `target`, `max` of `targetValidatorsStats` |
| `summary` | `_nodeOperatorSummary` |
| `activeCount`, `nonce`, `stuckPenaltyDelay` | the unstructured storage of those names |
| `now` | block timestamp |
| `Refreshed` | `_updateSummaryMaxValidatorsCount`; with `StoreOperator` the totals move by the difference, as in the code |
| `StuckAccepted`, `ExitedAccepted`, `WithStuck`, `WithExited`, `PenaltyEndAfter` | the checks and effects of the `_update...Count` functions |
| actions | the external functions of the same names; the two bulk updates take a report for every operator or some of them and are one transaction |
| `AllocatedKeys`, `ObtainDepositData` | `_getSigningKeysAllocationData`, `_loadAllocatedSigningKeys` with `MinFirstAllocationStrategy.allocate` |
| `RewardShares`, `Payout` | `getRewardsDistribution`, `_distributeRewards`: pure, so a property and no action |

Key contents are left out: a key is its position, and the order of keys is what
the counters say. An operator is removed never, only deactivated, as in the code.

Runs:

* **registry**: two operators with up to two and one keys, targets 0 and 1, a
  penalty delay of 0 or 1, two time steps. Two operators are what sums,
  differences and the allocation need; two keys allow exited, stuck, refunded and
  deposited to be all different; one step of delay and two of time let a penalty
  begin, expire and be cleared. `VIEW WithoutNonce` leaves the nonce out of the
  identity of a state: no guard reads it, and the properties about it are about
  steps. Rewards up to 4 shares give every remainder. Among the results: the counts
  of an operator stay ordered, the totals are their sums, the cached limit is
  current and the arrays of an allocation are long enough (`CountsConsistent`); a
  report of true counts is never refused (`TrueReportAccepted`), the announced
  depositable count can be obtained (`DepositableIsObtainable`), and payouts never
  exceed the rewards (`PayoutsCovered`). The allocation has no state: in the empty
  registry `ResultIsMinFirst` compares it, for every argument with three buckets
  (`MaxBuckets`), fills and capacities up to 3 (`MaxFill`) and sizes up to 5
  (`MaxSize`), with placing one item after the other; three buckets give ties of two
  among three, a fuller open one and a full one.
* **registry_nonce** shows that `updateRefundedValidatorsCount` changes the set of
  keys ready to deposit without the nonce, which the comment of `getNonce`
  (`NodeOperatorsRegistry.sol:1287`) excludes; `NonceFollowsKeysButRefunds` is what
  holds of every other operation.

## 5. The withdrawal queue: PausableUntil, FinalizationBatches, BatchCalculation, WithdrawalQueue

| TLA+ | Code |
|---|---|
| `queue` | the requests 1 .. `lastRequestId`, cumulative stETH and shares included; request 0, the dummy, is the case `pre = 0` |
| `checkpoints`, `lastFinalizedRequestId`, `lockedEtherAmount`, `requestsByOwner`, `lastReportTimestamp`, `bunkerModeSince` | the storage of those names; the index by owner is a set |
| `resumeSince`, `now` | `PausableUntil` and the clock |
| `pool` | external: the stETH pool, whose ether and shares give the shares of an amount; moved by reports |
| `sent`, `mixed` | history variables, see below |
| `RequestWithdrawals` | `_requestWithdrawal` and `_enqueue` of one request of a call |
| `TransferFrom` | `WithdrawalQueueERC721._transfer` |
| `Search`, `FindCheckpointHint`, `HintAccepted`, `Claim`, `ClaimWithdrawal` | `_findCheckpointHint`, the checks of `_calculateClaimableEther`, `_claim` with a given hint and with the one found |
| `OracleReport` | `onOracleReport`, then `prefinalize` and `finalize` of the batches that `calculateFinalizationBatches` gives, in one step |
| `TakeRequest`, `CalculateFinalizationBatches` | one turn and one call of the batch calculation |
| `ChangePause` | `resume`, `pauseFor`, `pauseUntil` |

Runs:

* **withdrawals**: two symmetric owners, three requests of 3 or 4, pools with 1/1
  and 4/5 ether per share, rate precision 11, time 1 to 4 and so up to three
  reports and three checkpoints. Three checkpoints make the binary search turn
  more than once; three requests and two batches per report allow a batch of two
  requests, two batches in a report and a request left over. The low precision
  makes rounding frequent: at 1e27 a difference of a wei between a batch and its
  requests needs very particular rates, at 11 it is common. Bunker mode's start
  and the end of a pause that is over are read by nothing and left out of the
  state's identity (`VIEW WithoutBunkerMode`). Report timestamps grow from report
  to report, bunker mode begins at the one before, and requests younger than the
  report are not finalized (the margin of the sanity checker is 0): this is what
  the accounting oracle guarantees. The simulated share rate is the rate of the
  pool after the report.
* **batches**: every queue of four requests of 41 or 1000 over up to four reports and
  three pools, three maximal rates, three budgets, calls of one or two requests,
  at most two batches. Four requests and two batches make the array full before
  the queue ends; calls of one request cut the calculation at every point. At rate
  precision 10 000 a request of 41 is rounded far enough to land on the other side of the
  line than the large request of the same report, as one of a few wei does at 1e27.

Both stop at their bounds, so deadlock is not looked for.

What they show, beyond the properties' comments:

* `ClaimsCovered` has an exact price. A batch is discounted or not as a whole; a
  request in it, rounded on its own, may fall on the other side. Only then can the
  ether locked for a batch be less than its claims, by at most one wei for that
  batch: `mixed` counts these batches.
* A call that uses up its budget exactly without being finished leaves a state
  the next call refuses (`WithdrawalQueueBase.sol:221`), although the comment at
  207-213 asks for calls until `finished`. The batches are the right ones at this
  point, which is why `LongestPrefixFound` speaks of refused states.
* The price of the batches follows the budget from one side only (`EtherMatchesBudget`).
  Neighbouring requests of one report count as equal whatever their rounded rates, and a
  batch is discounted or not as a whole. A tiny request whose rounding puts it on the other side
  of the line than its report joins large ones of both sides: 1000 ether at rate 1.0, 100 wei of
  the same report (99 shares), 1000 ether at 1.2, and a line at 1.005 make one
  discounted batch, for which some 1842.5 ether are asked although the calculation took
  1837.5 off the budget. It is still no more than the stETH in the batch, which is all that
  `_finalize` checks; `OneSided` says when it cannot happen.
* When the array of batches is full, the request that did not fit is already taken
  off the budget; the remaining budget in the returned state is not meaningful
  then, and nothing reads it.

## 6. The accounting report: AccountingOracle

| TLA+ | Code |
|---|---|
| `oracle[Self]` | the stored report of `BaseOracle`; its hash is the reference slot, since an honest report is determined by it |
| `agreed` | the data behind that hash: `ReportData`, as far as the counts of validators go, with the extra data it commits to |
| `extra` | `ExtraDataProcessingState`; `submitted` stands for `itemsProcessed` too, all items come in one transaction |
| `exitedByModule` | `StakingModule.exitedValidatorsCount` in the router |
| `op` | external: an operator's counts in its module, with the checks of `NodeOperatorsRegistry` |
| `undistributed` | external: modules that hold rewards until `onExitedAndStuckValidatorsCountsUpdated` |
| `chain`, `observed`, `now` | external: the validators of an operator on the consensus layer, what the oracle daemons saw at the last reference slot, the clock |
| `SubmitReportData` | `submitReportData` with `_processStakingRouterExitedValidatorsByModule` and the router's update |
| `SubmitReportExtraDataEmpty`, `SubmitReportExtraDataList` | the second phase with its items and `onValidatorsCountsByNodeOperatorReportingFinished` |
| `Agree`, `Disagree` | what `HashConsensus` calls on the processor; section 3 shows the calls it makes |

The two documents that a report consists of are observed at one slot and delivered
later, separately, or not at all. Meanwhile validators are deposited, become late and
exit. The properties say that the second-phase checks, written to keep exited + stuck
below deposited, never refuse an honest report, however late and whatever was missed
before (`ReportsNeverRefused`); that the router, whose counts the fees and deposits follow, is
never behind a module, and that a delivered second phase leaves nothing open (`CountsSettle`).

The frame configuration is constant here. `NeverAfterNextObservation` depends on
that: the deadline of a report is the last slot before the next report's reference
slot has been seen, and `setFrameConfig` would part the two (section 3).

Run **accounting**: two modules, one of two operators and one of a single operator
whose callback may revert; one validator per operator, which may be stuck and exit, and
frames of two slots over eight, that is three reports. Three reports let a second phase
be missed between two that are delivered. It stops at the last slot, so deadlock is not
looked for.

## 7. The exit bus: ValidatorsExitBus

| TLA+ | Code |
|---|---|
| `oracle[Self]` | the stored report; the list of requests stands for its hash |
| `lastIndex` | `lastRequestedValidatorIndices`, with -1 for "never requested" as in the getter |
| `totalRequestsProcessed`, `dataState` | the storage of those names; `requestsProcessed` always equals `requestsCount` |
| `resumeSince` | `PausableUntil` |
| `observed` | external: the last reference slot and the indices reports are computed from |
| `requested` | history: the events `ValidatorExitRequest` |
| `SubmitReportData`, `TakeRequest` | `submitReportData`, and one turn of the loop of `_processExitRequestsList` with the index it keeps aside |

Run **exits**: every list of up to three requests for two validators of two operators,
sorted or not, one of four, which is above the limit, and one of module 0; three frames of two slots; an
infinite pause at the start, pauses by duration and by end. Index 0 is among the
validators, because "not requested" and "index 0" are easily confused. It stops at the
last slot, so deadlock is not looked for.

The committee may agree on any list here, also one that repeats validators: that no
validator is requested twice is the contract's doing. `AttestedIndicesHold` needs more than
the deadline check: a report pushed in one frame is processed in that frame or never, so
that at most one report changes the indices between two observations.

## 8. Deployment: StateFile, DeploymentChain, ScratchSteps, Provisioning, ScratchDeployment

| TLA+ | Code |
|---|---|
| `file`, `held` | `deployed-<network>.json`, and the copy a script read (`state` of its `main`); an entry names the contract whose address it holds, the deployment it is of, and whether path and arguments come with it |
| `Merge`, `Readable`, `IncrementGasUsed`, `ResetStateFile` | `updateObjectInState`, `readNetworkState`, `incrementGasUsed`, `resetStateFile` of `lib/state-file.ts` |
| `chain`, `Mined` | external to the scripts: contracts with code, ENS owners, roles, initialised proxies, the template's progress, the router's modules and their operators; a transaction is mined or reverts |
| `ScratchStep` | the sixteen scripts of `scripts/scratch/steps`, each as the sequence of its transactions and file operations, with the branches the defaults and the environment choose |
| `StartDeployment`, `BeginStep`, `FinishStep` | `deployScratchProtocol`, `applyMigrationScript` |
| `RunTx`, `CountGas`, `UseFile` | one transaction of `makeTx`, the gas counted after it, one write of the file |
| `DiscoverProtocol` | `getProtocolContext`: `getLocalNetworkConfig`, `discover` |
| `BeginStage`, `FinishStage` | the helpers `provision` awaits, and the expectations they end with |
| `deployedSteps`, `imported` | memory of the process: the steps it has applied, the module cache of `import()` |
| `Throw`, `Die` | an exception, after which the process goes on; the end of the process |
| `VerifyDeployed` | the task `verify:deployed` |

Runs:

* **deployment**: six prepared environments that hold every value, and every pair of
  values of two choices, of: a deposit contract given or deployed, a gate seal given,
  from a factory or none, a predefined deposit security module, a base URI, a MiniMe
  factory. Three runs of the process, so two interruptions at any point: one of them
  can hit a deployment that follows an interrupted one. Three token holders in
  transactions of two make a full and a partial one; two operators with two keys make
  the helpers repeat. Deadlock is looked for: a finished process may stay idle for
  ever, a refused one would be stuck.
  `RecordIsTrue` says that the file names live contracts of this deployment and counts
  every transaction once, and that roles are granted to contracts that exist; `StepsNeverRefused` that nothing the scripts send reverts;
  `ProtocolIsWired` that what discovery finds is what was deployed, with the roles the
  contracts' own calls need; `PowerPassesToAgent` that the deployer is left without
  power and no contract without an administrator at any moment; `SkipFindsProtocol`
  that a process that skips the deployment finds a complete one; `RunsEndProvisioned`
  that a run nobody interrupts ends with what provisioning is for, whatever an
  interrupted one before it left half done.
* **verify_deployed** shows that `verify:deployed` ends at the first proxy that step
  0020 recorded without a path, and would never list the proxy of simple-dvt.

What the run also shows: a process interrupted between granting itself
`RESUME_ROLE` of the queue and revoking it (`withdrawal.ts:24-29`) keeps the role,
because the next run finds the queue open and skips the helper; `PowerPassesToAgent`
asks for its absence only where nothing was interrupted. LidoTemplate keeps the
permission to publish versions of simple-dvt, whose repository `finalizeDAO` does not
hand over; the deployer keeps the ENS node `eth` of its test network.

`Provisioned` states what a finished run leaves, and it is less than the sources say.
`provision.ts:12` makes the protocol "fully operational", and `docs/scratch-deploy.md:183-189`
lists for that an initial epoch for the consensus contracts of both oracles. The run shows that
only the accounting oracle's has one (`chain.epochs = {Consensus}`), and that the exit bus,
paused for ever by its initialisation (`ValidatorsExitBusOracle.sol:108`), is the one
contract still paused (`chain.paused = {ExitBus}`): no helper resumes it, nor does the
list in the document. Deposits, withdrawals and accounting reports can begin; exit
requests cannot.

## 9. Reporting: TokenRebaseLimiter, Lido, Reporting

| TLA+ | Code |
|---|---|
| `pool` | one record with the storage of `Lido`, `StETH`, `Burner`, both vaults and the part of `WithdrawalQueue` a report finalizes, so that `handleOracleReport` can be applied as a transaction or evaluated as a static call |
| `HandleOracleReport` | `_handleOracleReport`: CL state, checks, burn requests, smoothening, collection, finalization, fees, burn, share rate check; a set with one outcome, accepted or not |
| `SmoothenTokenRebase`, `IncreaseEther`, `GetSharesToBurnLimit` | `smoothenTokenRebase` and the limiter |
| `committee`, `votes`, `processed`, `extraSubmitted` | external to the client: what it meets of `HashConsensus` and `AccountingOracle`, cut down to one frame; sections 3 and 6 have them in full |
| `UserActs`, `PassTime` | submit, request, deposit, burn requests, gifts to the vaults and to the burner, recovery of the excess, and time between two operations |
| `Report`, `WaitNextAvailableReportTime`, `Read`, `Simulate`, `Budget`, `Calculate`, `Bunker` | `report` of `accounting.ts` up to the data: each await that decides what comes next |
| `ReachConsensus`, `ConsensusExpected`, `SubmitReportData`, `SubmitReportExtraData` | `submitReport` with `reachConsensus`, vote by vote |
| `FinalizeWithdrawalQueue`, `HolderExpected` | `finalizeWithdrawalQueue` up to its loop: the holder's submit, then the expectation on the holder's balance and the first look at the queue |
| `ReadQueue`, `TopUp`, `LastTopUp` | after the report of each turn of the loop: the ends of the queue are read, then ether is submitted, then the loop decides on what was read; and the submit after the loop |
| `HandleReportDirectly`, `EnsureOracleCommitteeMembers` | `handleOracleReport`, `ensureOracleCommitteeMembers` |
| `work`, `pc`, `failure` | the client's local variables, where it is, and why it threw |
| `touched` | history: did somebody act since the client read the chain |

Run **reporting**: up to two operations of the client and two transactions of others,
at any point between two of its calls. Two of each are needed for a request made
before a report and a deposit or a second request inside it, and for a second report
that meets what the first left. Amounts are small and chosen to be awkward: a share
rate of 855/700, rate precision 10 000, a rebase limit of 2 % at precision 300, so
that caps and rounding decide; a submit of 375, requests of 45 and 350, one that the budget
pays and one it does not; calls of one request, so that the batch calculation takes several;
reports of a gain, of a gain above the rebase limit with a validator that appears, a small
loss, a loss beyond the limit, without withdrawals, without vaults, and as a dry run; a committee of none or of four
members; a drain by a holder without stETH and by one that has 50 shares. The deviation
allowed of the simulated share rate (250 basis points) is half the one-off decrease
allowed of the consensus layer's balance (500), as in the deployment's defaults, and a submit of
375 moves the rate after a report by more than that. The client stops at its bounds, so
deadlock is not looked for.

* `Conserved`: shares belong to accounts down to the last rounding of the fee, the
  buffer is the contract's ether, burner and queue hold what they owe.
* `Solvent`: neither the pool nor what a report takes out of the queue is ever worth
  nothing. Requests that cost no ether would have their shares burnt and stay in the
  queue, because it is paid only if there is ether to lock (`Lido.sol:833`).
* `RebaseBounded` has two parts. `LiftedWithinLimit`: a report lifts the share rate by no more
  than the limit, apart from what the consensus layer earned above it (`CLExcess`): that
  is booked in full, while the limiter counts it up to the cap only. The bound has to
  be on the ether without that excess. A bound that adds the excess to the rate is
  too tight: when requests are finalized in the same report, the limiter lets shares
  be burnt as if the gain had stopped at the cap, and the excess is spread over the
  fewer shares that remain. `LoweredByLossOnly`: only a loss lowers the rate.
* `BunkerIsLoss`: the mode decided on a simulation without withdrawals fits the report
  that was submitted with them, if nobody acted in between.
* `FailsOnlyForCause` names every reason for which an operation throws, in three parts.
  `ExpectationsMet`: where the client expects something of the clock, of the committee or
  of the report just processed, it finds it, unless there are no members. `BalanceMet`: the
  expectation of a drain on the balance of its holder (`withdrawal.ts:51-52`) fails only for
  a holder that had stETH before, for instance by an earlier drain. `RefusedForCause`:
  why the contracts refuse a call. A frame already reported is one reason, numbers the
  sanity checks exclude are another; a push that
  failed half-way leaves the members' votes behind, and a second one for the very same data
  is refused as a duplicate (`HashConsensus.sol:877`). Three reasons are
  the client's own. A budget used up to the last wei with requests left makes the
  next call revert (`accounting.ts:484`, `WithdrawalQueueBase.sol:221`). The age of
  a request is measured from the current block (`accounting.ts:448`) while the checker
  measures it from the reference slot. And the share rate is simulated (`StaleRate`): it
  deviates too far from the one after the report if users submit or request in
  between, and also without them if shares are requested to be burnt, which the
  simulation leaves out (`accounting.ts:364`). All of them occur in the run. If
  nobody acts in between and nothing is to be burnt for others than the queue, the rate is
  accepted.
* `DrainEnds`: the loop over the queue comes to its end, also when users keep adding
  requests while they may.

## 10. Fairness and liveness

No fairness is assumed of the contracts. Nothing in them runs by itself: a
committee may never vote, a report may never come, an owner may never claim.
What can be said is that nothing is blocked, and that is stated as safety:
`CommitteeNeverBlocked`, `TrueReportAccepted`, `DepositableIsObtainable`,
`ClaimsCovered`, `OneHintAndFound`, `ReportsNeverRefused`.

The scripts and the client do run by themselves, once started: each awaits one call
after the other, and the development network mines a transaction when it is sent. So
`ScratchDeployment` assumes `WF_vars(ScriptStep)` and `Reporting` assumes
`WF_vars(ClientStep)`, and nothing of users, interruptions or the start of the next
operation. Weak fairness is enough because such a step stays enabled until it is taken
or the operation is interrupted. Two liveness properties rest on it:
`RunsEndProvisioned` and `DrainEnds`.

## 11. Proofs

TLC checks small instances. The theorems below hold for every value of the
constants that satisfies the named assumptions (`SlotsAssumption`,
`HashAssumption`, `ParameterAssumption`, `RegistryAssumption`, `BatchesAssumption`,
`CalculationAssumption`, `AmountAssumption`, `WithdrawalAssumption`, `AccountingAssumption`,
`ExitBusAssumption`, `LimiterAssumption`, `LidoAssumption`, `ReportingAssumption`: numbers are
naturals, there is a processor, the zero hash is not a report, the start pool is balanced, and
so on); every run of the component evaluates them. `AmountAssumption` alone is about
magnitudes: a request is worth a wei at any line, and the queue holds fewer than 10^27 shares.

| Theorem | Module | Says |
|---|---|---|
| `RefSlotGrowsWithTime`, `SetFrameConfigKeepsOrGrows` | Foundations | the reference slot is monotone in time, and across a change of the frame length it stays or moves on by a whole frame |
| `NextSlot` | Foundations | a frame begins only after the deadline of the last, at the slot after its reference slot |
| `TypeCorrect`, `OraclesStayBehind` | HashConsensus_proofs | types; no processor is ahead of the committee's clock or behind what it processed |
| `RefSlotGrows`, `ReportsFrozen`, `SlotsAlwaysAdvance` | HashConsensus_proofs | the action property of the **reconfiguration** run and its two parts |
| `FastLaneCounts` | Foundations | for any number of members and any frame, the fast lane is as large as the quorum, or holds everybody |
| `ChecksAlwaysHold` | HashConsensus_proofs | the part `CommitteeChecksHold` of `CommitteeNeverBlocked`, for any committee, frames and replaced processors |
| `VotesAlwaysCounted` | HashConsensus_proofs | `VotesCounted` of the **committee** run, for any committee, hashes and frames, while the processor is not replaced |
| `CommitteeImplementsVoting` | HashConsensus_proofs | the committee implements `CommitteeVoting`, with one frame length and one processor |
| `AllocatePlaces`, `AllocationIsMinFirst`, `ResultAlwaysMinFirst` | NodeOperatorsRegistry_proofs | for any number of buckets, the result keeps what was there, stays below the size and places what it says; and it is one that placing the items one by one may give |
| `RegistryTypeCorrect`, `CountsAlwaysConsistent` with its parts `KeyCountsAlwaysOrdered`, `SummaryAlwaysSum`, `MaxAlwaysCurrent`, `ArraysLongEnough`; `DepositableAlwaysObtainable`, `PayoutsAlwaysCovered`, `TrueReportsAccepted` | NodeOperatorsRegistry_proofs | the invariants of the **registry** run, for any number of operators and keys and any reward |
| `DepositsAlwaysAllowed`, `NonceAlwaysFollowsButRefunds` | NodeOperatorsRegistry_proofs | a deposit takes only keys that are allowed (not in a run); the run's action property about the nonce |
| `TypeCorrect`, `ReportsAlwaysAccepted`, `CountsAlwaysSettle`, `DeliveredInTime` | AccountingOracle_proofs | the properties of the **accounting** run, for any operators, modules and frame length |
| `TypeCorrect`, `AttestedIndicesAlwaysHold`, `AlwaysRequestedOnce` | ValidatorsExitBus_proofs | the properties of the **exits** run, for any lists and frame lengths |
| `TypeCorrect`, `OwnersAlwaysIndexed`, `OneHintAlwaysFound`, `ClaimsAlwaysCovered`, `QueueImplementsEscrow` | WithdrawalQueue_proofs | the properties of the **withdrawals** run, for any requests, pools, rates and budgets; the fourth while fewer than 10^27 shares wait |
| `FindsLongestPrefix`, `AskedMatchesBudget` | BatchCalculation_proofs | the properties of the **batches** run, for any queue, line, budget and size of the calls |
| `ReportingTyped`, `AlwaysConserved` | Reporting_proofs | `TypeOK` and `Conserved` of the **reporting** run, for any modules, fees, limits, amounts, committees and options, while `Solvent` holds |
| `BunkerModeIsLoss` | Reporting_proofs | `BunkerIsLoss` of the **reporting** run, under the same hypothesis |
| `ReportsLiftWithinLimit` | Reporting_proofs | the part `LiftedWithinLimit` of `RebaseBounded`, under the same hypothesis |
| `ExpectationsAlwaysMet` | Reporting_proofs | the part `ExpectationsMet` of `FailsOnlyForCause`, without a hypothesis on the pool |
| `RebaseStaysWithinLimit` | Reporting_proofs | for any pool, limit, vaults and burn requests: the vaults give what they hold and what the cap leaves, no more is burnt than was asked for, and the share rate stays within the limit |

*What the proofs share.* `Foundations.tla` holds the induction that can be stated
without an operator as a parameter: a set of naturals that holds 0 and is closed under
adding 1 holds them all (`SetInduction`), by the well-foundedness of `<`. From it come
the facts on iterated functions (`IterationExists`: the CHOOSE by which a recursive
function is defined meets an actual function), on sums of sequences (one changed element,
one appended, a difference of sums, a common factor), on the fold behind `SumOver`, and
on sums that telescope. Every loop in the code that a theorem is about is first turned
into a sequence of states, one a round, by these, and then argued about round by round.

*Committee.* `TypeOK` is not inductive: `_setReportProcessor` reads the
hash of a variant at a stored index without looking at the number of variants. `SlotsInv` adds what makes that index valid (a consensus for the slot being
reported is on one of its variants), that a reference slot of a report never lies
after the current one, and that nothing is reported before the first frame.
`Inv == TypeOK /\ SlotsInv` is inductive; one step per action, with a lemma for
each call to a processor (`SubmitPushes`, `DiscardPushes`). `ReportsFrozen` follows
because every step makes at most one such call (`StepCalls`).

*Votes.* `CountInv` says what the counters mean. A vote refers to a variant of the slot
it is cast for, members who left have none, and every hash has one variant
(`VoteRecords`); a quorum is a majority (`QuorumIsMajority`), so that two variants cannot
both have one; and as long as the processor is the first, the support of a variant is the
number of its voters (`SupportIsCount`), and a consensus is recorded exactly if some
variant has a quorum, and then the processor holds its hash (`HeldIsSupported`). Removing
a member whose report is being processed leaves its support standing: what makes that
harmless is that no vote for this slot follows, unless the processor is replaced. This
is the hypothesis `switches = 0`, and **ghost_support** shows that it is needed. The
refinement adds `DeadlineInv`: a held report expires with its frame. It is proved for
`OneDeployment` (`MaxSwitches = 0`, one frame length), because a change of the frame
length parts the deadline from the frame. These are the conditions under which
`ImplementsVoting` is checked as well.

*Nothing reverts.* `CommitteeChecksHold` lists what a vote or a change of the committee
relies on after it was accepted. It needs no `switches = 0`: counters may be above the votes
(the ghost support), and must only never be below, or `--support` would revert and lock
the member out. `SupportCovers` says so for the last slot voted on, whichever frame it is, so
that time and reconfigurations leave it as it is; a vote and a removal change the counter
and the reporters together. That a removal takes support back only where the member is a
reporter is again `VoteRecords` with the order of the slots in `SlotsInv`. The processor's
two checks follow from `OraclesNotAhead`.

*Registry.* `RegistryInv` strengthens the run's invariants by two facts: an
inactive operator has `vetted = deposited`, without which activating an operator
could make the array of allocations too short; and the cached limit equals
`Limit`, an expression without the clock. The second is what makes time harmless:
the code computes the limit with the current time, but a penalty that has begun
is ended only by `clearNodeOperatorPenalty`, so a limit does not become stale when
a delay passes. It needs the clock to be past 0, as every block timestamp is. Totals are kept by
differences in the code; the proofs follow it with the facts on sums of
`Foundations.tla`. A deposit takes what the allocation gives, so that
`DepositableAlwaysObtainable` is `AllocateExhausts` (the loop ends short only when no
bucket is open) with the sum of what is open. A payout is a rounded quotient of each
operator's validators, penalties halved; the sums of the rounded parts are compared
after multiplying by the number of validators (`SumScaled`, `SumCounts`).

*Min-first.* That no bucket ends more than one item above one that is left open does not
carry over from round to round, since a round moves many items. `Levelled` does: the
items left suffice to lift every open bucket to one item below any bucket that was filled.
A round keeps it (`RoundLevels`) because its share is the rounded part of what is left
for equally filled buckets (`ShareArithmetic`), and no more than the next level. At the end
nothing is left or nothing is open, and so the result is level. A level result is then
reached item by item: as long as the fills lie below it and items are missing, one of
the least filled open buckets is still below its end (`CandidateToward`).

*Withdrawal queue.* `IndexInv` is `OwnersIndexed` with the types a new request is
made of. A request is appended, or one entry is replaced; a lemma for each of
the two says what must happen to the index, and every action is one of them or
leaves the requests alone. `EscrowInv` adds a queue whose cumulative amounts rise,
checkpoints that ascend from the first request to below the last finalized one, and that
only finalized requests are claimed. From the second follows that each finalized request
has one hint (`OneHint`), and with the loop invariant of the binary search (the hint is
in the range that is left) that the search finds it (`SearchFinds`, `HintFound`).

*What the queue owes.* A batch is priced as a whole, its requests one by one, and each
price is rounded down (`PriceBounds`). If the batch is discounted and all of its requests
are, the rounded parts add up to no more than the rounded whole; if the batch is nominal, a
request is worth at most its nominal amount; only a discounted batch with a nominal request
can cost more, by less than the number of its shares over 10^27, rounded up: a wei
(`BatchCovers`, `BatchesCover`). This is the hypothesis `FewShares`: there are some 10^26
wei of ether, and a share is worth about one or more. A claim takes from both sides what
the request is worth (`ClaimCovered`), and a new checkpoint leaves the worth of the others
(`WorthStays`). The refinement maps the entries, worths and payments of `WithdrawalEscrow`
to functions of the queue and the checkpoints; every action is one of the escrow's or a
stutter.

*Batches.* `CalcInv` describes a state between two calls by how far the calculation has come:
the batches are the ends (`BatchEnds`) of the requests taken, in ascending order, the budget
left is the budget less what they cost one by one, and the calculation has stopped only where one more
request does not fit, being too young, too expensive, or in need of a batch the array
has no room for. `TurnFinds` carries that through one request, `CallFinds` through the loop of a
call, whose turns are states of a sequence. A budget used up exactly ends the calculation as well: the next
request has a positive price (`AmountAssumption`), so it does not fit. What fits is
closed under shorter prefixes (`PricesGrow`, `PrefixFits`), hence the place where it stopped is the
longest payable prefix (`TakenIsLast`). For the price, `BatchSpan` says that the requests of
a batch are pairwise one report's or one side's, and `SpanBound` adds up bounds per
request. A nominal batch asks for its stETH, and a discounted one for its shares at the line, rounded once
instead of at each request (`DiscountedBatch`, `NominalBatch`). In a mixed batch a nominal
request that is priced by its shares may be asked for less than its stETH by less than a
wei, because the whole batch has fewer than 10^27 shares (`BatchNotLess`); in the other
direction there is no such bound, which is what `OneSided` excludes.

*Accounting report.* `Inv` places every count between two others. What an operator's
module knows lies between nothing and what the last observation saw, and that below what
is true now and what is deposited (`OperatorsInv`); the router's count of a module lies between
the module's own and the one observed (`ModulesInv`), whatever was delivered late or
never. A report of the last reference slot is what was observed there (`ReportsInv`), and
may be processed only until the next is (`DeadlineInv`, `NextSlot`). With these no check
refuses it, and after the second phase both bounds meet. The router adds up differences per
module; `SumOver` facts turn them into sums over operators.

*Exit bus.* The invariant says that the deadline of a stored report is one frame after its
reference slot, so that a report which may still be processed is one of the current
frame; and that the indices differ from the observed ones only if a report of the
current frame was processed, after which `BaseOracle` refuses another. The slot that
ends a frame (`NextSlot`) is where both are needed. `RequestsInv` says that the stored index
of an operator is above or at all that was requested of it. The loop over the list keeps
the index of the operator at hand aside and stores it when the next begins
(`_processExitRequestsList`), so the invariant of a turn is about the index kept aside and the
stored ones together; that the list is ascending makes it that each operator is met once.

*Limiter.* `IncreaseEther` stops at `pre + floor(pre * limit)` (`CapBounds`,
`IncreaseBounds`), and the number of shares that may be burnt is rounded so that the
rate of what is left misses the limit by less than one unit of its precision
(`BurnLimitKeeps`, on the multiplied-out inequality `BurnArithmetic`). Less ether
leaves room for more shares (`BurnLimitAntitone`), so that `simulatedSharesToBurn`
never exceeds `sharesToBurn` and the subtraction at `Lido.sol:1263` cannot revert.
The theorem is about the operator every report applies and needs no induction. It
speaks of the ether the limiter counts, in which a gain of the consensus layer above
the cap is cut off although the report books it in full. `ReportsLiftWithinLimit` carries
it over to the pool: what `_handleOracleReport` leaves in the pool is the ether the limiter
counted and the excess (`GainCounted`, `EtherSettled`), and no fewer shares are left than it
reckoned with, because the fee only adds some.

*Pool.* `Sound` joins `Conserved` with the facts its parts rest on: the cumulative
amounts of the queue rise (`Growing`), what is finalized is in it, and no more validators are
reported than deposited. Each operation of `Lido.tla` gets a lemma that it keeps `Sound`,
and `handleOracleReport` one for each of its parts, in the order of the code: what the
batches name is what the queue holds of their requests (`FinalizedTyped`, by
`RangeSplit`), moving these shares to the burner leaves the sum (`BurnMoves`), the
vaults and the buffer change by the same ether (`CollectKeeps`), the burner burns no more
than it was asked to (`CommitKeeps`), and the fee (`DistributeSound`). Minted shares are
divided by rounded quotients among the modules and the treasury gets the rest; that the
rest is not negative is a sum of quotients with one denominator against their whole
(`SplitWithin`, `RewardsAddUp`). With `Sound`, `Inv` has the types of the client's
variables and that a simulated report has no withdrawals; each step of the client is a
lemma. The hypothesis `[]Solvent` is twofold. A pool without ether or shares has no rate:
the contracts divide by it and revert, and the initial holder's shares, minted at
initialisation and never burnt, keep it from being empty. And a report whose requests cost nothing
breaks `Conserved` in the code as well: the smallest request is 100 wei
(`MIN_STETH_WITHDRAWAL_AMOUNT`), so the rate would have to fall below a hundredth.
The run checks `Solvent` on its instance.

*Bunker mode.* What the vaults pay in depends on the balances reported, and neither on
the shares to burn nor on the requests to finalize (`ExpectedFromBalances`). So a
report leads to the same pooled ether, what the queue is paid included, in the simulation and
in the transaction (`EtherSettled`). `Foreseen` says where the client keeps that: as long
as nobody else has acted, first what was simulated and then the mode of the report
agree with the pool. Anybody's transaction in between sets `touched`.

*Expectations.* The client of `Reporting.tla` waits for a frame, lets the members of the fast
lane vote until they agree and reads back what was processed. `Agreed` says what it
may count on between two calls. The fast lane has a quorum's size whatever the frame
(`FastLaneCounts`), so a whole lane that voted for one report is a consensus
(`LaneAgrees`). A frame is processed only after a quorum voted in it, and a fast lane
without a voter is then impossible, because the two together are more than the members
(`LaneHasVoter`): the client is refused at a vote, and never finds that all have voted
and there is no consensus. Members may be added after a frame was processed; they raise
total and quorum by the same number, which keeps that argument (`EnsureAgreed`). That the clock has
moved to the next frame after waiting is `NextFrame`. None of
this depends on the pool, so the theorem has no hypothesis `[]Solvent`.
`ReportingAssumption` asks that the reference slot of the first frame is positive: for slot 0
the committee takes no votes (`HashConsensus.sol:821`).

What only TLC checks:

* The parts of `CommitteeNeverBlocked` that are stated with ENABLED, which the prover does
  not handle. That the checks behind them hold is `ChecksAlwaysHold`; what is left is that the
  actions have no further guard.
* `RunsEndProvisioned` and `DrainEnds`: liveness.
* The properties of the deployment: its instance is the scripts themselves, a fixed
  sequence of operations, which TLC runs through with every interruption.
* `Solvent` of the reporting client, the parts `BalanceMet` and `RefusedForCause` of
  `FailsOnlyForCause` and the part `LoweredByLossOnly` of `RebaseBounded`. `BalanceMet` and
  `RefusedForCause` need the numbers of their instance: in a tiny pool rounding alone may
  take the holder's balance out of its tolerance, or the simulated share rate farther from
  the one after the report than the checker allows. The last is true of pools like the one checked and not
  of every pool: a report that pays out nearly all of it while the limit holds back
  the burning of the shares leaves, with the fee on top, a lower rate until a later
  report burns the rest.

## 12. Not modelled

* Roles, approvals, allowances and permits, except in the deployment. Elsewhere an
  action is a call by someone who may make it, and no property depends on who calls. The
  deployment model has the roles that its transactions need (section 8), and
  `StepsNeverRefused`, `PowerPassesToAgent` and `ProtocolIsWired` are about them. The body
  of `Lido._auth` (`Lido.sol:1113-1115`) and the role check in `WithdrawalQueue.resume`
  (`WithdrawalQueue.sol:96-97`) are commented out in this repository, so `Resume` and
  `SetStakingLimit` of `DeploymentChain` ask for no role.
* Field widths of packed storage. Counters are unbounded integers, and every
  bound is a named constant; the casts of the code revert on overflow.
* Names, reward addresses, key bytes, token metadata, events, ABI encoding.
* One-time initialisation after an upgrade (`finalizeUpgrade_v2` and the like), proxies,
  the vendored deposit contract, encoders and fixtures of unit tests, the placeholder
  upgrade step.
* In deployment: amounts, names, network parameters, gas prices, and discovery on a fork
  of mainnet. `provision` is modelled as the library offers it; its call in
  `context.ts:43` is commented out. It adds no committee members:
  `ensureOracleCommitteeMembers` does, in section 9.
* In reporting: the stake limit, pauses of Lido and of the queue, extra data, and amounts
  in gwei (the unit of a consensus layer balance is the unit of the model).
* Components listed as `not_modelled` in `PROJECT.json`; those whose note says
  so are in the plan of section 2.
