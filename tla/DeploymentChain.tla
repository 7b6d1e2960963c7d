-------------------------- MODULE DeploymentChain --------------------------
(***************************************************************************)
(* What the chain holds while the protocol is being deployed: the contracts *)
(* that exist, who owns which ENS name, who holds which role, and the       *)
(* progress of LidoTemplate, the contract that assembles the DAO.  A call   *)
(* is a record; Mined(chain, tx) is the set of chains it can lead to: the   *)
(* one after it, or none when the call reverts.                             *)
(***************************************************************************)
EXTENDS StateFile

C(key) == <<key, "address">>
P(key) == <<key, "proxy">>
I(key) == <<key, "implementation">>

Deployer == C("deployer")
Template == C("lidoTemplate")
Agent    == P("app:aragon-agent")
Voting   == P("app:aragon-voting")
Locator  == P("lidoLocator")
Lido     == P("app:lido")
Oracle   == P("app:oracle")
Nor      == P("app:node-operators-registry")
Sdvt     == P("app:simple-dvt")
Router   == P("stakingRouter")
Queue    == P("withdrawalQueueERC721")
Reporting == P("accountingOracle")
ExitBus  == P("validatorsExitBusOracle")
Consensus == C("hashConsensusForAccountingOracle")
Registrar == <<"ens", "registrar">>

Repos == {"app:lido", "app:node-operators-registry", "app:oracle", "app:simple-dvt",
          "app:aragon-agent", "app:aragon-finance", "app:aragon-token-manager",
          "app:aragon-voting"}

(* The views of LidoLocator in the order of its constructor's Config. *)
LocatorViews ==
  <<"accountingOracle", "depositSecurityModule", "elRewardsVault", "legacyOracle", "lido",
    "oracleReportSanityChecker", "postTokenRebaseReceiver", "burner", "stakingRouter",
    "treasury", "validatorsExitBusOracle", "withdrawalQueue", "withdrawalVault",
    "oracleDaemonConfig">>

(* A call by the deployer, unless another sender is given. *)
CallBy(by, call, on, role, args) ==
  [op |-> "tx", by |-> by, call |-> call, on |-> on, role |-> role, args |-> args]
Call(call, on, args) == CallBy(Deployer, call, on, "", args)
Grant(on, role, who) == CallBy(Deployer, "grantRole", on, role, <<who>>)
Renounce(on, role) == CallBy(Deployer, "renounceRole", on, role, <<Deployer>>)

(* Lido is stopped until it is resumed; the contracts with a time-boxed      *)
(* pause run until they are initialised.                                     *)
FreshChain(predefined) ==
  [code |-> predefined \cup {Deployer}, names |-> <<>>, roles |-> {}, inited |-> {},
   registry |-> FALSE, dao |-> FALSE, repos |-> {}, supply |-> 0,
   config |-> <<>>, locator |-> <<>>, consensus |-> Nothing, wsteth |-> Nothing,
   modules |-> <<>>, operators |-> <<>>, epochs |-> {},
   paused |-> {Lido}, limitSet |-> FALSE]

(* An Aragon app lets nobody act on it before it is initialised. *)
May(chain, tx, role) ==
  /\ <<tx.on, role, tx.by>> \in chain.roles
  /\ tx.on \in {Nor, Sdvt} => tx.on \in chain.inited

When(guard, next) == IF guard THEN {next} ELSE {}

OwnerOf(chain, node) == IF node \in DOMAIN chain.names THEN chain.names[node] ELSE Nothing

-----------------------------------------------------------------------------
(* Creation.  Constructors give the deployer, passed as admin, the admin    *)
(* role; the Burner also lets Lido request burns.                           *)
RolesAtBirth(contract) ==
  CASE contract \in {C("oracleDaemonConfig"), C("oracleReportSanityChecker"), Consensus,
                     C("hashConsensusForValidatorsExitBusOracle")}
         -> {<<contract, "ADMIN", Deployer>>}
    [] contract = C("burner")
         -> {<<contract, "ADMIN", Deployer>>, <<contract, "REQUEST_BURN_SHARES_ROLE", Lido>>}
    [] contract \in {Locator, Queue, Router, Reporting, ExitBus}
         -> {<<contract, "PROXY_ADMIN", Deployer>>}
    [] contract = C("depositSecurityModule") -> {<<contract, "OWNER", Deployer>>}
    [] OTHER -> {}

Create(chain, tx) ==
  {[chain EXCEPT !.code = @ \cup {tx.on},
                 !.roles = @ \cup RolesAtBirth(tx.on),
                 !.config = IF tx.on = I("lidoLocator") THEN tx.args ELSE @,
                 !.wsteth = IF tx.on = I("withdrawalQueueERC721") THEN tx.args[1] ELSE @]}

NewENS(chain, tx) ==
  {[chain EXCEPT !.code = @ \cup {C("ens")}, !.names = ("eth" :> tx.args[1]) @@ @]}

(* assignENSName and step 0040: the node itself or its parent must be ours. *)
AssignName(chain, tx) ==
  When(OwnerOf(chain, tx.role) = Deployer \/ OwnerOf(chain, "eth") = Deployer,
       [chain EXCEPT !.names = (tx.role :> tx.args[1]) @@ @])

NewAPM(chain, tx) ==
  When(OwnerOf(chain, "aragonpm") = tx.on,
       [chain EXCEPT !.code = @ \cup {P("aragon-apm-registry")},
                     !.names = ("aragonpm" :> Registrar) @@ @])

Register(chain, tx) ==
  When(OwnerOf(chain, "aragonid") = tx.on /\ OwnerOf(chain, tx.role) = Nothing,
       [chain EXCEPT !.names = (tx.role :> tx.args[1]) @@ @])

-----------------------------------------------------------------------------
(* LidoTemplate: each call needs what the one before it left. *)
DeployLidoAPM(chain, tx) ==
  When(~chain.registry /\ OwnerOf(chain, "lidopm") = Template,
       [chain EXCEPT !.registry = TRUE, !.code = @ \cup {C("lidoApm")},
                     !.names = ("lidopm" :> Registrar) @@ @])

CreateRepos(chain, tx, apps) ==
  When(chain.registry /\ apps \cap chain.repos = {},
       [chain EXCEPT !.repos = @ \cup apps,
                     !.roles = @ \cup {<<<<app, "repo">>, "CREATE_VERSION_ROLE", Template>> :
                                         app \in apps}])

TemplateRoles == {<<P("aragon-kernel"), "APP_MANAGER_ROLE", Template>>,
                  <<P("aragon-acl"), "CREATE_PERMISSIONS_ROLE", Template>>,
                  <<P("app:aragon-token-manager"), "ISSUE_ROLE", Template>>,
                  <<P("app:aragon-token-manager"), "ASSIGN_ROLE", Template>>}

NewDAO(chain, tx) ==
  When(chain.registry /\ ~chain.dao /\ Repos \subseteq chain.repos,
       [chain EXCEPT !.dao = TRUE, !.roles = @ \cup TemplateRoles,
                     !.operators = (Nor :> <<>>) @@ (Sdvt :> <<>>),
                     !.code = @ \cup {P(app) : app \in Repos} \cup
                       {P("aragon-kernel"), P("aragon-acl"),
                        P("aragon-evm-script-registry"), I("aragon-evm-script-registry"),
                        C("ldo"), C("callsScript")}])

(* issueTokens(n holders, expected total) *)
IssueTokens(chain, tx, n, expected) ==
  When(chain.dao /\ n > 0 /\ chain.supply + n = expected,
       [chain EXCEPT !.supply = expected])

(* _setupPermissions.  The repository of simple-dvt is not in its list. *)
DaoRoles(router) ==
  {<<<<app, "repo">>, "CREATE_VERSION_ROLE", Voting>> : app \in Repos \ {"app:simple-dvt"}}
  \cup {<<Nor, role, Voting>> : role \in {"MANAGE_SIGNING_KEYS", "SET_NODE_OPERATOR_LIMIT_ROLE"}}
  \cup {<<Nor, "STAKING_ROUTER_ROLE", router>>, <<Nor, "MANAGE_NODE_OPERATOR_ROLE", Agent>>}
  \cup {<<Sdvt, role, Voting>> : role \in {"MANAGE_SIGNING_KEYS", "SET_NODE_OPERATOR_LIMIT_ROLE",
                                           "MANAGE_NODE_OPERATOR_ROLE"}}
  \cup {<<Sdvt, "STAKING_ROUTER_ROLE", who>> : who \in {router, Agent}}
  \cup {<<Lido, role, Voting>> : role \in {"PAUSE_ROLE", "RESUME_ROLE", "STAKING_PAUSE_ROLE",
                                           "STAKING_CONTROL_ROLE"}}
  \cup {<<P("app:aragon-token-manager"), "ASSIGN_ROLE", Voting>>,
        <<P("aragon-kernel"), "APP_MANAGER_ROLE", Voting>>,
        <<P("aragon-acl"), "CREATE_PERMISSIONS_ROLE", Voting>>,
        <<P("aragon-acl"), "SDVT_KEYS_MANAGER", Voting>>}

FinalizeDAO(chain, tx) ==
  When(chain.dao /\ OwnerOf(chain, "lido-dao") = Nothing,
       [chain EXCEPT !.dao = FALSE, !.registry = FALSE,
                     !.names = ("lido-dao" :> P("aragon-kernel")) @@ @,
                     !.roles = (@ \ (TemplateRoles \cup
                                  {<<<<app, "repo">>, "CREATE_VERSION_ROLE", Template>> :
                                     app \in Repos \ {"app:simple-dvt"}}))
                               \cup DaoRoles(tx.args[1])])

-----------------------------------------------------------------------------
(* Proxies, initialisers and access control of the protocol's contracts. *)
UpgradeTo(chain, tx) ==
  When(May(chain, tx, "PROXY_ADMIN"),
       [chain EXCEPT !.locator = [v \in {LocatorViews[i] : i \in DOMAIN LocatorViews} |->
          chain.config[CHOOSE i \in DOMAIN LocatorViews : LocatorViews[i] = v]]])

ChangeAdmin(chain, tx, role) ==
  When(May(chain, tx, role),
       [chain EXCEPT !.roles = (@ \ {<<tx.on, role, tx.by>>}) \cup {<<tx.on, role, tx.args[1]>>}])

(* The Aragon apps read the locator while they initialise; the withdrawal   *)
(* queue and the exit bus pause themselves, until somebody resumes them.    *)
Initialize(chain, tx) ==
  When(/\ tx.on \notin chain.inited
       /\ tx.on \in {Lido, Oracle, Nor, Sdvt} => chain.locator # <<>>,
       [chain EXCEPT !.inited = @ \cup {tx.on},
                     !.paused = @ \cup ({tx.on} \cap {Queue, ExitBus}),
                     !.consensus = IF tx.on = Reporting THEN tx.args[2] ELSE @,
                     !.roles = IF tx.on \in {Router, Queue, Reporting, ExitBus}
                                 THEN @ \cup {<<tx.on, "ADMIN", tx.args[1]>>} ELSE @])

GrantRole(chain, tx) ==
  When(May(chain, tx, "ADMIN"),
       [chain EXCEPT !.roles = @ \cup {<<tx.on, tx.role, tx.args[1]>>}])

RevokeRole(chain, tx) ==
  When(May(chain, tx, "ADMIN"),
       [chain EXCEPT !.roles = @ \ {<<tx.on, tx.role, tx.args[1]>>}])

RenounceRole(chain, tx) ==
  {[chain EXCEPT !.roles = @ \ {<<tx.on, tx.role, tx.by>>}]}

AddStakingModule(chain, tx) ==
  When(May(chain, tx, "STAKING_MODULE_MANAGE_ROLE")
         /\ \A i \in DOMAIN chain.modules : chain.modules[i] # tx.args[1],
       [chain EXCEPT !.modules = Append(@, tx.args[1])])

-----------------------------------------------------------------------------
(* What makes the deployed protocol operational. *)
UpdateInitialEpoch(chain, tx) ==
  When(May(chain, tx, "ADMIN") /\ tx.on \notin chain.epochs,
       [chain EXCEPT !.epochs = @ \cup {tx.on}])

(* Of Lido and the withdrawal queue.  Neither they nor SetStakingLimit look  *)
(* at the caller: the lines that would are commented out                     *)
(* (WithdrawalQueue.sol:97, Lido.sol:1114).                                  *)
Resume(chain, tx) ==
  When(tx.on \in chain.paused, [chain EXCEPT !.paused = @ \ {tx.on}])

SetStakingLimit(chain, tx) == {[chain EXCEPT !.limitSet = TRUE]}

AddNodeOperator(chain, tx) ==
  When(May(chain, tx, "MANAGE_NODE_OPERATOR_ROLE"),
       [chain EXCEPT !.operators[tx.on] = Append(@, [keys |-> 0, vetted |-> 0])])

(* The holder of MANAGE_SIGNING_KEYS, or the operator's own reward address. *)
AddSigningKeys(chain, tx, operator, count) ==
  When(operator \in DOMAIN chain.operators[tx.on] /\ count > 0
         /\ (May(chain, tx, "MANAGE_SIGNING_KEYS") \/ tx.by = <<"operator", "rewards">>),
       [chain EXCEPT !.operators[tx.on][operator].keys = @ + count])

SetStakingLimitOf(chain, tx, operator, limit) ==
  When(May(chain, tx, "SET_NODE_OPERATOR_LIMIT_ROLE")
         /\ operator \in DOMAIN chain.operators[tx.on],
       LET keys == chain.operators[tx.on][operator].keys
       IN  [chain EXCEPT !.operators[tx.on][operator].vetted =
              IF limit < keys THEN limit ELSE keys])

-----------------------------------------------------------------------------
(* Every call: the contract must exist, and no address may be undefined. *)
Effect(chain, tx) ==
  CASE tx.call = "create"            -> Create(chain, tx)
    [] tx.call = "newENS"            -> NewENS(chain, tx)
    [] tx.call = "assignName"        -> AssignName(chain, tx)
    [] tx.call = "newAPM"            -> NewAPM(chain, tx)
    [] tx.call = "register"          -> Register(chain, tx)
    [] tx.call = "deployLidoAPM"     -> DeployLidoAPM(chain, tx)
    [] tx.call = "createRepos"       -> CreateRepos(chain, tx, tx.apps)
    [] tx.call = "newDAO"            -> NewDAO(chain, tx)
    [] tx.call = "issueTokens"       -> IssueTokens(chain, tx, tx.n, tx.expected)
    [] tx.call = "finalizeDAO"       -> FinalizeDAO(chain, tx)
    [] tx.call = "upgradeTo"         -> UpgradeTo(chain, tx)
    [] tx.call = "changeAdmin"       -> ChangeAdmin(chain, tx, "PROXY_ADMIN")
    [] tx.call = "setOwner"          -> ChangeAdmin(chain, tx, "OWNER")
    [] tx.call = "initialize"        -> Initialize(chain, tx)
    [] tx.call = "grantRole"         -> GrantRole(chain, tx)
    [] tx.call = "revokeRole"        -> RevokeRole(chain, tx)
    [] tx.call = "renounceRole"      -> RenounceRole(chain, tx)
    [] tx.call = "configure"         -> When(May(chain, tx, tx.role), chain)
    [] tx.call = "createGateSeal"    -> {[chain EXCEPT !.code = @ \cup {C("gateSeal")}]}
    [] tx.call = "addStakingModule"  -> AddStakingModule(chain, tx)
    [] tx.call = "updateInitialEpoch" -> UpdateInitialEpoch(chain, tx)
    [] tx.call = "resume"            -> Resume(chain, tx)
    [] tx.call = "setStakingLimit"   -> SetStakingLimit(chain, tx)
    [] tx.call = "addNodeOperator"   -> AddNodeOperator(chain, tx)
    [] tx.call = "addSigningKeys"    -> AddSigningKeys(chain, tx, tx.operator, tx.n)
    [] tx.call = "setLimit"          -> SetStakingLimitOf(chain, tx, tx.operator, tx.n)
    [] tx.call = "grantPermission"   -> When(May(chain, tx, tx.role), chain)

Mined(chain, tx) ==
  IF /\ tx.call # "create" => tx.on \in chain.code
     /\ \A i \in DOMAIN tx.args : tx.args[i] # Nothing
    THEN Effect(chain, tx)
    ELSE {}

=============================================================================
