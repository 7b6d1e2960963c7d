---------------------------- MODULE ScratchSteps ----------------------------
(***************************************************************************)
(* The steps of scripts/scratch/steps, in the order of steps.json.  A step  *)
(* is a sequence of operations that depends on the file it read when it     *)
(* started; s is that copy, the constant `state` of the script.             *)
(*   tx       a transaction, followed by incrementGasUsed                   *)
(*   save     updateObjectInState or setValueInState: reads the file again  *)
(*   reread   state = readNetworkState()                                    *)
(*   persist  persistNetworkState(state): writes the copy the step holds    *)
(* A save or a persist that needs an entry the copy lacks throws.           *)
(***************************************************************************)
EXTENDS DeploymentChain

CONSTANTS
  NumHolders,      \* holders of vested DAO tokens, one token each
  HoldersInOneTx   \* MAX_HOLDERS_IN_ONE_TX

ASSUME HoldersAssumption == NumHolders \in Nat \ {0} /\ HoldersInOneTx \in Nat \ {0}

ScratchStepNames ==
  <<"0000", "0010", "0020", "0030", "0040", "0050", "0060", "0070", "0080", "0090",
    "0100", "0110", "0120", "0130", "0140", "0150">>

SaveNeeding(needs, puts) == [op |-> "save", needs |-> needs, puts |-> puts]
Save(puts) == SaveNeeding({}, puts)
Persist(needs, puts) == [op |-> "persist", needs |-> needs, puts |-> puts]
Reread == [op |-> "reread", needs |-> {}]
Populate == [op |-> "populate", needs |-> {}]

(* The deploy helpers of lib/deploy.ts: the transaction, then the entry.  *)
(* The address of what was just created comes from the receipt.           *)
DeployWithoutProxy(key, args) ==
  <<Call("create", C(key), args), Save({Put(C(key), C(key), TRUE)})>>
DeployImplementation(key) ==
  <<Call("create", I(key), <<>>), Save({Put(I(key), I(key), TRUE)})>>
DeployBehindOssifiableProxy(key, implementation, args) ==
  (IF implementation = I(key) THEN <<Call("create", I(key), args)>> ELSE <<>>)
  \o <<Call("create", P(key), <<implementation>>),
       Save({Put(P(key), P(key), TRUE), Put(I(key), implementation, TRUE)})>>
UpdateProxyImplementation(key, args) ==
  <<Call("create", I(key), args), Call("upgradeTo", P(key), <<I(key)>>),
    Save({Put(I(key), I(key), TRUE)})>>
AssignENSName(label, to) == [Call("assignName", C("ens"), <<to>>) EXCEPT !.role = label]

-----------------------------------------------------------------------------
Step0010(s) ==
  IF Has(s, "chainSpec", "depositContract") THEN <<>>
  ELSE DeployWithoutProxy("depositContract", <<>>)
       \o <<Save({Put(<<"chainSpec", "depositContract">>, C("depositContract"), FALSE)})>>

DeployEnsOrLoad(s) ==
  IF Has(s, "ens", "address") THEN <<>>
  ELSE DeployWithoutProxy("ensFactory", <<>>)
       \o <<Call("newENS", C("ensFactory"), <<Deployer>>), Save({Put(C("ens"), C("ens"), TRUE)})>>

DeployDaoFactoryOrLoad(s) ==
  IF Has(s, "daoFactory", "address") THEN <<>>
  ELSE DeployImplementation("aragon-kernel") \o DeployImplementation("aragon-acl")
       \o DeployWithoutProxy("evmScriptRegistryFactory", <<>>)
       \o DeployWithoutProxy("daoFactory",
            <<I("aragon-kernel"), I("aragon-acl"), C("evmScriptRegistryFactory")>>)

DeployAPM ==
  <<AssignENSName("aragonpm", C("apmRegistryFactory")),
    Call("newAPM", C("apmRegistryFactory"), <<Deployer>>),
    Save({}),
    Save({Put(P("aragon-apm-registry"), P("aragon-apm-registry"), FALSE)})>>

DeployAragonIdOrLoad(s) ==
  IF Has(s, "aragonID", "address") THEN <<>>
  ELSE DeployWithoutProxy("aragonID", <<C("ens")>>)
       \o <<AssignENSName("aragonid", C("aragonID")),
            [Call("register", C("aragonID"), <<Deployer>>) EXCEPT !.role = "owner"]>>

Step0020(s) ==
  DeployEnsOrLoad(s) \o DeployDaoFactoryOrLoad(s)
  \o DeployImplementation("aragon-apm-registry") \o DeployWithoutProxy("aragon-repo-base", <<>>)
  \o DeployImplementation("ensSubdomainRegistrar")
  \o DeployWithoutProxy("apmRegistryFactory", <<C("daoFactory"), C("ens")>>)
  \o DeployAPM
  \o (IF Has(s, "miniMeTokenFactory", "address") THEN <<>>
      ELSE DeployWithoutProxy("miniMeTokenFactory", <<>>))
  \o DeployAragonIdOrLoad(s)

Step0030(s) ==
  DeployImplementation("app:aragon-agent") \o DeployImplementation("app:aragon-finance")
  \o DeployImplementation("app:aragon-token-manager") \o DeployImplementation("app:aragon-voting")
  \o DeployImplementation("app:lido") \o DeployImplementation("app:oracle")
  \o DeployImplementation("app:node-operators-registry")
  \o DeployWithoutProxy("lidoTemplate",
       <<Addr(s, "daoFactory", "address"), Addr(s, "ens", "address"),
         Addr(s, "miniMeTokenFactory", "address"), Addr(s, "aragonID", "address"),
         Addr(s, "apmRegistryFactory", "address")>>)
  \o <<Save({})>>

Step0040(s) == <<AssignENSName("lidopm", Addr(s, "lidoTemplate", "address"))>>

Step0050(s) ==
  <<Call("deployLidoAPM", Addr(s, "lidoTemplate", "address"), <<>>),
    Save({}),
    Save({Put(C("lidoApm"), C("lidoApm"), FALSE)})>>

CreateReposOf(s, apps, impls) ==
  ("apps" :> apps) @@ Call("createRepos", Addr(s, "lidoTemplate", "address"),
                           [i \in DOMAIN impls |-> Addr(s, impls[i], "implementation")])

Step0060(s) ==
  <<CreateReposOf(s, {"app:lido", "app:node-operators-registry", "app:oracle", "app:simple-dvt"},
                  <<"app:lido", "app:node-operators-registry", "app:oracle">>),
    CreateReposOf(s, {"app:aragon-agent", "app:aragon-finance", "app:aragon-token-manager",
                      "app:aragon-voting"},
                  <<"app:aragon-agent", "app:aragon-finance", "app:aragon-token-manager",
                    "app:aragon-voting">>),
    Save({}), Save({})>>

(* Fault: the copy read before the transaction is written back. *)
SaveStateFromNewDAOTx_Fault ==
  <<SaveNeeding({I("aragon-kernel")}, {Put(P("aragon-kernel"), P("aragon-kernel"), TRUE)}),
    Persist({}, {Put(P(app), P(app), TRUE) : app \in Repos})>>

(* saveStateFromNewDAOTx: two whole-file writes from one copy, read after   *)
(* the transaction; the vesting placeholder becomes the Agent's address.    *)
SaveStateFromNewDAOTx ==
  <<Reread,
    SaveNeeding({I("aragon-kernel")}, {Put(P("aragon-kernel"), P("aragon-kernel"), TRUE)}),
    SaveNeeding({C("miniMeTokenFactory")}, {Put(C("ldo"), C("ldo"), TRUE)}),
    SaveNeeding({C("evmScriptRegistryFactory")},
                {Put(C("callsScript"), C("callsScript"), TRUE)}),
    Reread,
    Persist({}, {Put(P(app), P(app), TRUE) : app \in Repos}
                \cup {Put(<<"vestingParams", "agent">>, Agent, FALSE)}),
    Persist({}, {Put(P("aragon-acl"), P("aragon-acl"), TRUE),
                 Put(P("aragon-evm-script-registry"), P("aragon-evm-script-registry"), TRUE),
                 Put(I("aragon-evm-script-registry"), I("aragon-evm-script-registry"), TRUE)})>>

Step0070(s) ==
  <<Call("newDAO", Addr(s, "lidoTemplate", "address"), <<>>), Save({})>> \o SaveStateFromNewDAOTx

(* Batches of holders with the running total; the Agent is the last holder. *)
Step0080(s) ==
  LET inOneTx == IF HoldersInOneTx < NumHolders THEN HoldersInOneTx ELSE NumHolders
      total == (NumHolders + inOneTx - 1) \div inOneTx
      issued(i) == IF i * inOneTx < NumHolders THEN i * inOneTx ELSE NumHolders
  IN [i \in 1..total |->
        [n |-> issued(i) - issued(i - 1), expected |-> issued(i)]
        @@ Call("issueTokens", Addr(s, "lidoTemplate", "address"),
                IF i = total THEN <<Addr(s, "vestingParams", "agent")>> ELSE <<>>)]

-----------------------------------------------------------------------------
DepositSecurityModuleOrPredefined(s, lido, depositContract) ==
  IF Has(s, "depositSecurityModule", "usePredefinedAddressInstead") THEN <<>>
  ELSE DeployWithoutProxy("depositSecurityModule", <<lido, depositContract, Router>>)

(* Fault: two fields of the struct change places. *)
LocatorConfig_Fault(s, lido, legacyOracle, treasury) ==
  <<Reporting, C("depositSecurityModule"), C("executionLayerRewardsVault"), legacyOracle, lido,
    C("oracleReportSanityChecker"), legacyOracle, Router, C("burner"), treasury, ExitBus, Queue,
    P("withdrawalVault"), C("oracleDaemonConfig")>>

LocatorConfig(s, lido, legacyOracle, treasury) ==
  <<Reporting,
    IF Has(s, "depositSecurityModule", "usePredefinedAddressInstead")
      THEN Addr(s, "depositSecurityModule", "usePredefinedAddressInstead")
      ELSE C("depositSecurityModule"),
    C("executionLayerRewardsVault"), legacyOracle, lido, C("oracleReportSanityChecker"),
    legacyOracle, C("burner"), Router, treasury, ExitBus, Queue, P("withdrawalVault"),
    C("oracleDaemonConfig")>>

Step0090(s) ==
  LET lido == Addr(s, "app:lido", "proxy")
      legacyOracle == Addr(s, "app:oracle", "proxy")
      voting == Addr(s, "app:aragon-voting", "proxy")
      treasury == Addr(s, "app:aragon-agent", "proxy")
      depositContract == Addr(s, "chainSpec", "depositContract")
  IN DeployWithoutProxy("oracleDaemonConfig", <<Deployer>>)
     \o DeployWithoutProxy("dummyEmptyContract", <<>>)
     \o DeployBehindOssifiableProxy("lidoLocator", C("dummyEmptyContract"), <<>>)
     \o DeployWithoutProxy("oracleReportSanityChecker", <<Locator, Deployer>>)
     \o DeployWithoutProxy("eip712StETH", <<lido>>) \o DeployWithoutProxy("wstETH", <<lido>>)
     \o DeployBehindOssifiableProxy("withdrawalQueueERC721", I("withdrawalQueueERC721"),
                                    <<C("wstETH")>>)
     \o <<Call("create", I("withdrawalVault"), <<lido, treasury>>),
          Save({Put(I("withdrawalVault"), I("withdrawalVault"), TRUE)}),
          Call("create", P("withdrawalVault"), <<voting, I("withdrawalVault")>>),
          Save({Put(P("withdrawalVault"), P("withdrawalVault"), TRUE),
                Put(C("withdrawalVault"), P("withdrawalVault"), FALSE)})>>
     \o DeployWithoutProxy("executionLayerRewardsVault", <<lido, treasury>>)
     \o DeployBehindOssifiableProxy("stakingRouter", I("stakingRouter"), <<depositContract>>)
     \o DepositSecurityModuleOrPredefined(s, lido, depositContract)
     \o DeployBehindOssifiableProxy("accountingOracle", I("accountingOracle"),
                                    <<Locator, lido, legacyOracle>>)
     \o DeployWithoutProxy("hashConsensusForAccountingOracle", <<Deployer, Reporting>>)
     \o DeployBehindOssifiableProxy("validatorsExitBusOracle", I("validatorsExitBusOracle"),
                                    <<Locator>>)
     \o DeployWithoutProxy("hashConsensusForValidatorsExitBusOracle", <<Deployer, ExitBus>>)
     \o DeployWithoutProxy("burner", <<Deployer, treasury, lido>>)
     \o UpdateProxyImplementation("lidoLocator", LocatorConfig(s, lido, legacyOracle, treasury))

Step0100(s) ==
  IF Has(s, "gateSeal", "address") \/ ~Has(s, "gateSeal", "factoryAddress") THEN <<>>
  ELSE <<Call("createGateSeal", Addr(s, "gateSeal", "factoryAddress"),
              <<Addr(s, "withdrawalQueueERC721", "proxy"),
                Addr(s, "validatorsExitBusOracle", "proxy")>>),
         Save({Put(C("gateSeal"), C("gateSeal"), FALSE)})>>

Step0110(s) ==
  <<Call("finalizeDAO", Addr(s, "lidoTemplate", "address"), <<Addr(s, "stakingRouter", "proxy")>>)>>

-----------------------------------------------------------------------------
SetBaseURI(queue) ==
  <<Grant(queue, "MANAGE_TOKEN_URI_ROLE", Deployer),
    [Call("configure", queue, <<>>) EXCEPT !.role = "MANAGE_TOKEN_URI_ROLE"],
    Renounce(queue, "MANAGE_TOKEN_URI_ROLE")>>

(* The nine parameters are set by as many calls of one kind: one stands for all. *)
SetDaemonParameters(config) ==
  <<Grant(config, "CONFIG_MANAGER_ROLE", Deployer),
    [Call("configure", config, <<>>) EXCEPT !.role = "CONFIG_MANAGER_ROLE"],
    Renounce(config, "CONFIG_MANAGER_ROLE")>>

Step0120(s) ==
  LET locator == Addr(s, "lidoLocator", "proxy")
      init(key, args) == <<Call("initialize", Addr(s, key, "proxy"), args)>>
      queue == Addr(s, "withdrawalQueueERC721", "proxy")
  IN init("app:node-operators-registry", <<locator>>) \o init("app:simple-dvt", <<locator>>)
     \o init("app:lido", <<locator, Addr(s, "eip712StETH", "address")>>)
     \o init("app:oracle", <<locator, Addr(s, "hashConsensusForAccountingOracle", "address")>>)
     \o init("accountingOracle",
             <<Deployer, Addr(s, "hashConsensusForAccountingOracle", "address")>>)
     \o init("validatorsExitBusOracle",
             <<Deployer, Addr(s, "hashConsensusForValidatorsExitBusOracle", "address")>>)
     \o init("withdrawalQueueERC721", <<Deployer>>)
     \o (IF Has(s, "withdrawalQueueERC721", "baseUri") THEN SetBaseURI(queue) ELSE <<>>)
     \o init("stakingRouter",
             <<Deployer, Addr(s, "app:lido", "proxy"), Addr(s, "withdrawalVault", "proxy")>>)
     \o SetDaemonParameters(Addr(s, "oracleDaemonConfig", "address"))

Step0130(s) ==
  LET router == Addr(s, "stakingRouter", "proxy")
      queue == Addr(s, "withdrawalQueueERC721", "proxy")
      burner == Addr(s, "burner", "address")
      dsm == Addr(s, "depositSecurityModule", "address")
      seal(contract) == IF Has(s, "gateSeal", "address")
                          THEN <<Grant(contract, "PAUSE_ROLE", Addr(s, "gateSeal", "address"))>>
                          ELSE <<>>
  IN <<Grant(router, "STAKING_MODULE_PAUSE_ROLE", dsm),
       Grant(router, "STAKING_MODULE_RESUME_ROLE", dsm),
       Grant(router, "REPORT_EXITED_VALIDATORS_ROLE", Addr(s, "accountingOracle", "proxy")),
       Grant(router, "REPORT_REWARDS_MINTED_ROLE", Addr(s, "app:lido", "proxy")),
       Grant(router, "STAKING_MODULE_MANAGE_ROLE", Addr(s, "app:aragon-agent", "proxy"))>>
     \o seal(Addr(s, "validatorsExitBusOracle", "proxy")) \o seal(queue)
     \o <<Grant(queue, "FINALIZE_ROLE", Addr(s, "app:lido", "proxy")),
          Grant(queue, "ORACLE_ROLE", Addr(s, "accountingOracle", "proxy")),
          Grant(burner, "REQUEST_BURN_SHARES_ROLE",
                 Addr(s, "app:node-operators-registry", "proxy")),
          Grant(burner, "REQUEST_BURN_SHARES_ROLE", Addr(s, "app:simple-dvt", "proxy"))>>

(* Fault: the deployer does not take the role first. *)
Step0140_Fault(s) ==
  LET router == Addr(s, "stakingRouter", "proxy")
  IN <<Call("addStakingModule", router, <<Addr(s, "app:node-operators-registry", "proxy")>>),
       Call("addStakingModule", router, <<Addr(s, "app:simple-dvt", "proxy")>>)>>

Step0140(s) ==
  LET router == Addr(s, "stakingRouter", "proxy")
  IN <<Grant(router, "STAKING_MODULE_MANAGE_ROLE", Deployer),
       Call("addStakingModule", router, <<Addr(s, "app:node-operators-registry", "proxy")>>),
       Call("addStakingModule", router, <<Addr(s, "app:simple-dvt", "proxy")>>),
       Renounce(router, "STAKING_MODULE_MANAGE_ROLE")>>

(* Every contract administered through AccessControl, in the script's order. *)
OzAdminTransfers(s) ==
  <<Addr(s, "burner", "address"), Addr(s, "hashConsensusForAccountingOracle", "address"),
    Addr(s, "hashConsensusForValidatorsExitBusOracle", "address"),
    Addr(s, "stakingRouter", "proxy"), Addr(s, "accountingOracle", "proxy"),
    Addr(s, "validatorsExitBusOracle", "proxy"), Addr(s, "withdrawalQueueERC721", "proxy"),
    Addr(s, "oracleDaemonConfig", "address"), Addr(s, "oracleReportSanityChecker", "address")>>

OssifiableProxies(s) ==
  [i \in 1..5 |-> Addr(s, <<"lidoLocator", "stakingRouter", "accountingOracle",
                            "validatorsExitBusOracle", "withdrawalQueueERC721">>[i], "proxy")]

(* Fault: the deployer leaves first. *)
TransferAdmin_Fault(contract, agent) ==
  <<Renounce(contract, "ADMIN"), Grant(contract, "ADMIN", agent)>>

(* Agent first, deployer out second: an admin is there at every moment. *)
TransferAdmin(contract, agent) == <<Grant(contract, "ADMIN", agent), Renounce(contract, "ADMIN")>>

Step0150(s) ==
  LET agent == Addr(s, "app:aragon-agent", "proxy")
      oz == OzAdminTransfers(s)
      proxies == OssifiableProxies(s)
  IN [i \in 1..(2 * Len(oz)) |-> TransferAdmin(oz[(i + 1) \div 2], agent)[2 - (i % 2)]]
     \o [i \in DOMAIN proxies |-> Call("changeAdmin", proxies[i], <<agent>>)]
     \o (IF Has(s, "depositSecurityModule", "usePredefinedAddressInstead") THEN <<>>
         ELSE <<Call("setOwner", Addr(s, "depositSecurityModule", "address"), <<agent>>)>>)

-----------------------------------------------------------------------------
(* main() of a step, applied to the copy of the file it reads first. *)
ScratchStep(step, s) ==
  CASE step = "0000" -> <<Populate>>
    [] step = "0010" -> Step0010(s)
    [] step = "0020" -> Step0020(s)
    [] step = "0030" -> Step0030(s)
    [] step = "0040" -> Step0040(s)
    [] step = "0050" -> Step0050(s)
    [] step = "0060" -> Step0060(s)
    [] step = "0070" -> Step0070(s)
    [] step = "0080" -> Step0080(s)
    [] step = "0090" -> Step0090(s)
    [] step = "0100" -> Step0100(s)
    [] step = "0110" -> Step0110(s)
    [] step = "0120" -> Step0120(s)
    [] step = "0130" -> Step0130(s)
    [] step = "0140" -> Step0140(s)
    [] step = "0150" -> Step0150(s)

=============================================================================
