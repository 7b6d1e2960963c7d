------------------------- MODULE ScratchDeployment -------------------------
(***************************************************************************)
(* A process that deploys the protocol from scratch (lib/scratch.ts, or     *)
(* scripts/dao-deploy.sh with scripts/utils/migrate.ts), discovers it and   *)
(* provisions it.  Everything is awaited in sequence, so one action is one  *)
(* transaction or one write of the state file; what can come between any    *)
(* two of them is an exception, after which the same process may try again, *)
(* or the end of the process, after which another one starts.               *)
(***************************************************************************)
EXTENDS ScratchSteps, Provisioning

CONSTANTS
  Configs,   \* ways to prepare the defaults and the environment
  MaxRuns    \* bound: how often a deployment or a test suite is started

ASSUME RunsAssumption == MaxRuns \in Nat \ {0}

VARIABLES
  conf,           \* the configuration of this network
  file,           \* deployed-<network>.json
  chain,          \* the chain, as the deployment in progress sees it
  deployment,     \* number of deployments started
  runs,           \* number of runs started
  status,         \* "idle", "deploying", "provisioning", "ready", "failed"
  phase,          \* within "deploying" or "provisioning": "between", "op", "mined"
  step,           \* the migration script or the helper that runs, or ran last
  held,           \* the copy of the file the running script holds
  ops,            \* what the running script has left to do
  deployedSteps,  \* memory of the process: steps completed
  imported,       \* memory of the process: the file as discovery imported it
  ctx,            \* the contracts and signers discovered
  txs,            \* transactions of this deployment, as mined
  verdict         \* outcome of verify:deployed

vars == <<conf, file, chain, deployment, runs, status, phase, step, held, ops,
          deployedSteps, imported, ctx, txs, verdict>>

scriptVars == <<held, ops, phase, step>>
processVars == <<deployedSteps, imported, ctx>>
runVars == <<conf, deployment, runs>>

NotYet == <<>>
NumSteps == Len(ScratchStepNames)

-----------------------------------------------------------------------------
(* What comes with the network: fields of the defaults, fields that step    *)
(* 0000 takes from the environment, and contracts that exist beforehand.    *)
Predefined(puts) == Merge(EmptyFile, puts, 0).entries

DefaultPuts(c) ==
  (IF c.gateSeal = "given" THEN {Put(C("gateSeal"), C("gateSeal"), FALSE)} ELSE {})
  \cup (IF c.miniMe THEN {Put(C("miniMeTokenFactory"), C("miniMeTokenFactory"), FALSE)} ELSE {})

EnvironmentPuts(c) ==
  (IF c.depositContract
     THEN {Put(<<"chainSpec", "depositContract">>, C("depositContract"), FALSE)} ELSE {})
  \cup (IF c.gateSeal = "factory"
          THEN {Put(<<"gateSeal", "factoryAddress">>, C("gateSealFactory"), FALSE)} ELSE {})
  \cup (IF c.baseUri
          THEN {Put(<<"withdrawalQueueERC721", "baseUri">>, Nothing, FALSE)} ELSE {})
  \cup (IF c.predefinedDSM
          THEN {Put(C("depositSecurityModule"), C("depositSecurityModule"), FALSE),
                Put(<<"depositSecurityModule", "usePredefinedAddressInstead">>,
                    C("depositSecurityModule"), FALSE)} ELSE {})

PredefinedContracts(c) == {p.of : p \in DefaultPuts(c) \cup EnvironmentPuts(c)} \ {Nothing}

(* main() of step 0000. *)
PopulateState(copy, c) ==
  [Merge(copy, EnvironmentPuts(c), 0) EXCEPT !.deployer = TRUE, !.gas = 0]

-----------------------------------------------------------------------------
Init ==
  /\ conf \in Configs
  /\ file = EmptyFile /\ held = EmptyFile /\ chain = FreshChain({})
  /\ deployment = 0 /\ runs = 0 /\ status = "idle" /\ phase = "between" /\ step = 0
  /\ ops = <<>> /\ deployedSteps = {} /\ imported = NotYet /\ ctx = NotYet
  /\ txs = 0 /\ verdict = NotYet

AllDeployed == \A i \in 1..NumSteps : ScratchStepNames[i] \in deployedSteps

(* deployScratchProtocol, when a step is missing: everything starts anew.   *)
(* Contracts of an earlier deployment stay where they are; the new file     *)
(* knows none of them, and chain describes the new deployment only.         *)
StartDeployment ==
  /\ status = "idle" /\ runs < MaxRuns /\ ~AllDeployed
  /\ file' = ResetStateFile(Predefined(DefaultPuts(conf)))
  /\ chain' = FreshChain(PredefinedContracts(conf))
  /\ deployment' = deployment + 1 /\ runs' = runs + 1
  /\ status' = "deploying" /\ step' = 0 /\ txs' = 0 /\ verdict' = NotYet
  /\ UNCHANGED <<conf, phase, held, ops, processVars>>

(* Fault: a step counts as deployed when it begins. *)
BeginStep_Fault ==
  /\ status = "deploying" /\ phase = "between" /\ step < NumSteps
  /\ step' = step + 1 /\ held' = file /\ phase' = "op"
  /\ ops' = ScratchStep(ScratchStepNames[step + 1], file)
  /\ deployedSteps' = deployedSteps \cup {ScratchStepNames[step + 1]}
  /\ UNCHANGED <<runVars, imported, ctx, status, file, chain, txs, verdict>>

(* The next migration script begins: it reads the file, and refuses one     *)
(* that was written for another deployer; step 0000 has none to compare.    *)
BeginStep ==
  /\ status = "deploying" /\ phase = "between" /\ step < NumSteps
  /\ step' = step + 1
  /\ IF Readable(file, step > 0)
       THEN /\ held' = file
            /\ ops' = ScratchStep(ScratchStepNames[step + 1], file)
            /\ phase' = "op" /\ UNCHANGED status
       ELSE status' = "failed" /\ UNCHANGED <<held, ops, phase>>
  /\ UNCHANGED <<runVars, processVars, file, chain, txs, verdict>>

FinishStep ==
  /\ status = "deploying" /\ phase = "op" /\ ops = <<>>
  /\ deployedSteps' = deployedSteps \cup {ScratchStepNames[step]}
  /\ phase' = "between" /\ held' = EmptyFile
  /\ UNCHANGED <<runVars, status, step, ops, file, chain, imported, ctx, txs, verdict>>

-----------------------------------------------------------------------------
(* A transaction is mined, or refused: then the script throws. *)
RunTx ==
  /\ phase = "op" /\ status \in {"deploying", "provisioning"}
  /\ ops # <<>> /\ Head(ops).op = "tx"
  /\ IF Mined(chain, Head(ops)) = {}
       THEN status' = "failed" /\ UNCHANGED <<chain, phase, ops, txs>>
       ELSE /\ chain' \in Mined(chain, Head(ops))
            /\ IF status = "deploying"
                 THEN phase' = "mined" /\ txs' = txs + 1 /\ UNCHANGED ops
                 ELSE ops' = Tail(ops) /\ UNCHANGED <<phase, txs>>
            /\ UNCHANGED status
  /\ UNCHANGED <<runVars, processVars, file, step, held, verdict>>

(* makeTx and the deploy helpers add the gas once they have the receipt. *)
CountGas ==
  /\ status = "deploying" /\ phase = "mined"
  /\ file' = IncrementGasUsed(file)
  /\ phase' = "op" /\ ops' = Tail(ops)
  /\ UNCHANGED <<runVars, processVars, status, chain, step, held, txs, verdict>>

(* The operations on the file; needs are fields the expression dereferences. *)
FileAfter(op) ==
  CASE op.op = "save"     -> Merge(file, op.puts, deployment)
    [] op.op = "persist"  -> Merge(held, op.puts, deployment)
    [] op.op = "populate" -> PopulateState(held, conf)
    [] op.op = "reread"   -> file

UseFile ==
  /\ status = "deploying" /\ phase = "op" /\ ops # <<>> /\ Head(ops).op # "tx"
  /\ LET op == Head(ops)
     IN IF op.needs \subseteq DOMAIN file.entries
          THEN /\ file' = FileAfter(op) /\ ops' = Tail(ops)
               /\ held' = IF op.op = "save" THEN held ELSE FileAfter(op)
               /\ UNCHANGED status
          ELSE status' = "failed" /\ UNCHANGED <<file, ops, held>>
  /\ UNCHANGED <<runVars, processVars, chain, phase, step, txs, verdict>>

-----------------------------------------------------------------------------
(* discover(), once every step is deployed, in this run or in an earlier    *)
(* one.  import() of the file is evaluated once in the life of a process.   *)
DiscoverProtocol ==
  /\ \/ status = "deploying" /\ phase = "between" /\ step = NumSteps /\ UNCHANGED runs
     \/ status = "idle" /\ runs < MaxRuns /\ AllDeployed /\ runs' = runs + 1
  /\ LET config == IF imported = NotYet THEN LocalNetworkConfig(file) ELSE imported
     IN /\ imported' = config
        /\ IF CanDiscover(config, chain)
             THEN status' = "provisioning" /\ ctx' = Discover(config, chain)
             ELSE status' = "failed" /\ UNCHANGED ctx
  /\ step' = 0
  /\ UNCHANGED <<conf, deployment, file, chain, phase, held, ops, deployedSteps, txs, verdict>>

BeginStage ==
  /\ status = "provisioning" /\ phase = "between" /\ step < Len(Stages)
  /\ step' = step + 1 /\ phase' = "op"
  /\ ops' = StageTxs(Stages[step + 1], ctx, chain)
  /\ UNCHANGED <<runVars, processVars, file, chain, status, held, txs, verdict>>

FinishStage ==
  /\ status = "provisioning" /\ phase = "op" /\ ops = <<>>
  /\ IF ~Expected(Stages[step], ctx, chain) THEN status' = "failed"
     ELSE IF step = Len(Stages) THEN status' = "ready" ELSE UNCHANGED status
  /\ phase' = "between"
  /\ UNCHANGED <<runVars, processVars, file, chain, step, held, ops, txs, verdict>>

(* The next suite of the same process asks for the context again. *)
NextSuite ==
  /\ status = "ready" /\ runs < MaxRuns
  /\ status' = "idle" /\ ctx' = NotYet /\ verdict' = NotYet
  /\ UNCHANGED <<runVars, file, chain, phase, step, held, ops, deployedSteps, imported, txs>>

-----------------------------------------------------------------------------
(* Bound: only a run that may be followed by another one is interrupted. *)
Interrupted ==
  /\ status \in {"deploying", "provisioning"} /\ runs < MaxRuns
  /\ status' = "idle" /\ phase' = "between" /\ ops' = <<>> /\ held' = EmptyFile /\ step' = 0
  /\ ctx' = NotYet
  /\ UNCHANGED <<runVars, file, chain, txs, verdict>>

(* The provider or a file operation throws; the process lives on. *)
Throw == Interrupted /\ UNCHANGED <<deployedSteps, imported>>

(* The process ends, and the network with it or not. *)
Die == Interrupted /\ deployedSteps' = {} /\ imported' = NotYet

-----------------------------------------------------------------------------
(* verify:deployed lists the contracts of the file: both contracts of a     *)
(* proxy, or a contract that comes with its arguments.  The name it gives   *)
(* to the verifier is cut out of the contract's path, outside the try: an   *)
(* entry without a path ends the task.                                      *)
DeployedContracts(f) ==
  LET keys == {entry[1] : entry \in DOMAIN f.entries}
      both == {key \in keys : Has(f, key, "proxy") /\ Has(f, key, "implementation")}
  IN {P(key) : key \in both} \cup {I(key) : key \in both}
     \cup {entry \in DOMAIN f.entries \ {C(key) : key \in both} :
             entry[2] = "address" /\ f.entries[entry].described}

VerifyDeployed ==
  /\ status = "ready" /\ verdict = NotYet
  /\ LET listed == DeployedContracts(file)
     IN verdict' = [listed |-> listed,
                    aborted |-> \E entry \in listed : ~file.entries[entry].described]
  /\ UNCHANGED <<runVars, processVars, scriptVars, file, chain, status, txs>>

(* Nothing is left to do. *)
Idle == status = "ready" /\ runs = MaxRuns /\ verdict # NotYet /\ UNCHANGED vars

ScriptStep == \/ BeginStep \/ FinishStep \/ RunTx \/ CountGas \/ UseFile
              \/ DiscoverProtocol \/ BeginStage \/ FinishStage

Next == \/ StartDeployment \/ ScriptStep \/ NextSuite \/ Throw \/ Die \/ VerifyDeployed \/ Idle

(* A script that awaits a call goes on when the call returns. *)
Fairness == WF_vars(ScriptStep)

Spec == Init /\ [][Next]_vars /\ Fairness

-----------------------------------------------------------------------------
(* The types of the interpreter's state; contracts are entries of the file. *)
TypeOK ==
  /\ conf \in Configs /\ deployment \in 0..MaxRuns /\ runs \in 0..MaxRuns
  /\ status \in {"idle", "deploying", "provisioning", "ready", "failed"}
  /\ phase \in {"between", "op", "mined"} /\ step \in 0..NumSteps
  /\ file.gas \in Nat /\ txs \in Nat /\ chain.supply \in 0..NumHolders
  /\ deployedSteps \subseteq {ScratchStepNames[i] : i \in 1..NumSteps}
  /\ \A grant \in chain.roles : grant[3] \in chain.code

(* The contracts an entry may name besides the one it is called after. *)
MayName(entry) ==
  {entry} \cup
  CASE entry = <<"chainSpec", "depositContract">>           -> {C("depositContract")}
    [] entry = <<"gateSeal", "factoryAddress">>             -> {C("gateSealFactory")}
    [] entry = <<"depositSecurityModule", "usePredefinedAddressInstead">>
                                                            -> {C("depositSecurityModule")}
    [] entry = C("withdrawalVault")                         -> {P("withdrawalVault")}
    [] entry = <<"vestingParams", "agent">>                 -> {Agent}
    [] entry = I("lidoLocator")                             -> {C("dummyEmptyContract")}
    [] OTHER                                                -> {}

(* Whatever step runs and wherever an earlier run was interrupted, an entry *)
(* of the state file names the contract it is called after, one that exists *)
(* and belongs to the deployment in progress or was there before it; and    *)
(* the file is never ahead of the chain.                                    *)
FileNamesLiveContracts ==
  \A entry \in DOMAIN file.entries :
    LET value == file.entries[entry]
    IN \/ value.of = Nothing /\ entry[2] = "baseUri"
       \/ /\ value.of \in MayName(entry)
          /\ value.of \in chain.code
          /\ value.at \in {0, deployment}

(* scratchDeployGasUsed counts every transaction of the deployment once: no *)
(* script writes back a copy that is older than the last count.             *)
GasIsCounted ==
  status # "idle" => file.gas + (IF phase = "mined" THEN 1 ELSE 0) = txs

(* At any moment the file is a true record of what was sent and deployed,   *)
(* and roles are granted to existing contracts only.                        *)
RecordIsTrue == TypeOK /\ FileNamesLiveContracts /\ GasIsCounted

(* No step and no helper meets a transaction that reverts, an entry that is *)
(* missing or an expectation that fails, in any configuration and after any *)
(* interruption.                                                            *)
StepsNeverRefused == status # "failed"

-----------------------------------------------------------------------------
Discovered == status \in {"provisioning", "ready"}

(* Where the file keeps the contract behind a view of the locator. *)
EntryOfView ==
  [accountingOracle |-> Reporting, depositSecurityModule |-> C("depositSecurityModule"),
   elRewardsVault |-> C("executionLayerRewardsVault"), legacyOracle |-> Oracle, lido |-> Lido,
   oracleReportSanityChecker |-> C("oracleReportSanityChecker"),
   postTokenRebaseReceiver |-> Oracle, burner |-> C("burner"), stakingRouter |-> Router,
   treasury |-> Agent, validatorsExitBusOracle |-> ExitBus, withdrawalQueue |-> Queue,
   withdrawalVault |-> P("withdrawalVault"), oracleDaemonConfig |-> C("oracleDaemonConfig"),
   nor |-> Nor, sdvt |-> Sdvt, hashConsensus |-> Consensus, wstETH |-> C("wstETH"),
   agent |-> Agent, voting |-> Voting]

(* Every call between the contracts that is guarded by a role. *)
GuardedCalls ==
  {<<ctx.withdrawalQueue, "FINALIZE_ROLE", ctx.lido>>,
   <<ctx.withdrawalQueue, "ORACLE_ROLE", ctx.accountingOracle>>,
   <<ctx.stakingRouter, "REPORT_REWARDS_MINTED_ROLE", ctx.lido>>,
   <<ctx.stakingRouter, "REPORT_EXITED_VALIDATORS_ROLE", ctx.accountingOracle>>,
   <<ctx.stakingRouter, "STAKING_MODULE_PAUSE_ROLE", ctx.depositSecurityModule>>,
   <<ctx.stakingRouter, "STAKING_MODULE_RESUME_ROLE", ctx.depositSecurityModule>>}
  \cup {<<ctx.burner, "REQUEST_BURN_SHARES_ROLE", who>> : who \in {ctx.lido, ctx.nor, ctx.sdvt}}
  \cup {<<module, "STAKING_ROUTER_ROLE", ctx.stakingRouter>> : module \in {ctx.nor, ctx.sdvt}}

(* What discovery finds behind the locator and in the router is what the    *)
(* file names, and every contract holds the roles its own calls need.       *)
ProtocolIsWired ==
  Discovered =>
    /\ \A view \in DOMAIN EntryOfView :
         ctx[view] = Addr(file, EntryOfView[view][1], EntryOfView[view][2])
    /\ GuardedCalls \subseteq chain.roles

-----------------------------------------------------------------------------
AccessControlled ==
  {C("burner"), Consensus, C("hashConsensusForValidatorsExitBusOracle"),
   C("oracleDaemonConfig"), C("oracleReportSanityChecker"), Router, Reporting, ExitBus, Queue}
Ossifiable == {Locator, Router, Reporting, ExitBus, Queue}

(* step 0150 leaves the deployer without any power over the protocol, the   *)
(* Agent with all of it, and LidoTemplate with one permission: to publish   *)
(* versions of simple-dvt, whose repository finalizeDAO does not hand over. *)
HandedOver ==
  Discovered =>
    /\ \A grant \in chain.roles : grant[3] # Deployer
    /\ \A grant \in chain.roles : grant[3] = Template => grant[1] = <<"app:simple-dvt", "repo">>
    /\ \A contract \in AccessControlled : <<contract, "ADMIN", Agent>> \in chain.roles
    /\ \A proxy \in Ossifiable : <<proxy, "PROXY_ADMIN", Agent>> \in chain.roles
    /\ conf.predefinedDSM \/ <<C("depositSecurityModule"), "OWNER", Agent>> \in chain.roles
    /\ (status = "ready" /\ runs = 1) => <<Queue, "RESUME_ROLE", Agent>> \notin chain.roles

(* At no moment of the deployment is a contract without an administrator:   *)
(* an interruption anywhere leaves somebody who can finish by hand.         *)
AlwaysAdministered ==
  /\ \A contract \in AccessControlled \cap chain.code :
       contract \in Ossifiable \ chain.inited
         \/ \E who \in {Deployer, Agent} : <<contract, "ADMIN", who>> \in chain.roles
  /\ \A proxy \in Ossifiable \cap chain.code :
       \E who \in {Deployer, Agent} : <<proxy, "PROXY_ADMIN", who>> \in chain.roles

(* Power over the contracts passes from the deployer to the Agent, all of   *)
(* it, and there is always somebody who has it.                             *)
PowerPassesToAgent == HandedOver /\ AlwaysAdministered

(* A process that remembers every step as deployed skips the deployment:    *)
(* then the file describes a deployment that went through to its end, and   *)
(* the import it may have cached is still what the file says.               *)
SkipFindsProtocol ==
  AllDeployed =>
    /\ CanDiscover(LocalNetworkConfig(file), chain)
    /\ imported \in {NotYet, LocalNetworkConfig(file)}
    /\ \A contract \in AccessControlled : <<contract, "ADMIN", Agent>> \in chain.roles

(* What provisioning leaves: deposits, withdrawals and accounting reports    *)
(* can begin, apart from the committee's members, and exit requests cannot:  *)
(* no helper resumes the exit bus, which its initialisation paused           *)
(* (ValidatorsExitBusOracle.sol:108), or gives its committee an epoch to     *)
(* begin with.  provision.ts:12 calls that fully operational.                *)
Provisioned ==
  /\ status = "ready" /\ chain.limitSet
  /\ chain.epochs = {Consensus} /\ chain.paused = {ExitBus}
  /\ \A module \in {Nor, Sdvt} :
       /\ Len(chain.operators[module]) >= MinOperators
       /\ \A i \in 1..MinOperators : chain.operators[module][i].vetted >= MinKeys

(* A run that nothing interrupts ends with a provisioned protocol, also when *)
(* an earlier one was interrupted between two helpers or within one.         *)
RunsEndProvisioned ==
  status \in {"deploying", "provisioning"} ~> (Provisioned \/ status = "idle")

(* "Verifies deployed contracts based on state file" (the description of    *)
(* verify:deployed): it gets to the end, and has submitted every contract   *)
(* the scripts recorded.                                                    *)
VerifiesEveryDeployed ==
  verdict # NotYet =>
    /\ ~verdict.aborted
    /\ \A entry \in DOMAIN file.entries :
         file.entries[entry].at # 0 /\ file.entries[entry].described => entry \in verdict.listed

=============================================================================
