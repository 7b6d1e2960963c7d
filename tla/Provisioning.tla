---------------------------- MODULE Provisioning ----------------------------
(***************************************************************************)
(* What happens to a deployed protocol before it is used:                   *)
(* discovery (lib/protocol/networks.ts, discover.ts), which finds every     *)
(* contract from three addresses of the state file, and the helpers that    *)
(* provision() awaits one after another.  A helper reads the chain and      *)
(* sends the transactions still missing; its expectations come last.        *)
(***************************************************************************)
EXTENDS DeploymentChain, SequencesExt

CONSTANTS
  MinOperators,   \* operators every staking module needs
  MinKeys         \* signing keys every one of them needs

ASSUME ProvisioningAssumption == MinOperators \in Nat \ {0} /\ MinKeys \in Nat \ {0}

-----------------------------------------------------------------------------
(* getLocalNetworkConfig: the voting contract stands in for Easy Track. *)
LocalNetworkConfig(file) ==
  [locator |-> Addr(file, "lidoLocator", "proxy"),
   agent |-> Addr(file, "app:aragon-agent", "proxy"),
   voting |-> Addr(file, "app:aragon-voting", "proxy"),
   easyTrack |-> Addr(file, "app:aragon-voting", "proxy")]

(* guard: discovery needs the four addresses, and code behind the first. *)
CanDiscover(config, chain) ==
  /\ \A name \in DOMAIN config : config[name] # Nothing
  /\ config.locator \in chain.code /\ chain.locator # <<>>
  /\ Len(chain.modules) >= 2

(* The modules are taken by position: [nor, sdvt] = getStakingModules(). *)
Discover(config, chain) ==
  chain.locator @@ config @@
  [nor |-> chain.modules[1], sdvt |-> chain.modules[2], hashConsensus |-> chain.consensus,
   wstETH |-> chain.wsteth, kernel |-> P("aragon-kernel"), acl |-> P("aragon-acl")]

-----------------------------------------------------------------------------
Stages ==
  <<"initialEpoch", "unpauseStaking", "unpauseQueue", "norOperators", "norKeys", "norLimits",
    "sdvtOperators", "sdvtKeys", "sdvtLimits", "stakeLimit">>

If(condition, txs) == IF condition THEN txs ELSE <<>>

EnsureHashConsensusInitialEpoch(ctx, chain) ==
  If(ctx.hashConsensus \notin chain.epochs,
     <<CallBy(ctx.agent, "updateInitialEpoch", ctx.hashConsensus, "", <<>>)>>)

(* Fault: the condition is turned around. *)
UnpauseStaking_Fault(ctx, chain) ==
  If(ctx.lido \notin chain.paused, <<CallBy(ctx.voting, "resume", ctx.lido, "", <<>>)>>)

UnpauseStaking(ctx, chain) ==
  If(ctx.lido \in chain.paused, <<CallBy(ctx.voting, "resume", ctx.lido, "", <<>>)>>)

(* The role is taken for the time of one call. *)
UnpauseWithdrawalQueue(ctx, chain) ==
  If(ctx.withdrawalQueue \in chain.paused,
     <<CallBy(ctx.agent, "grantRole", ctx.withdrawalQueue, "RESUME_ROLE", <<ctx.agent>>),
       CallBy(ctx.agent, "resume", ctx.withdrawalQueue, "", <<>>),
       CallBy(ctx.agent, "revokeRole", ctx.withdrawalQueue, "RESUME_ROLE", <<ctx.agent>>)>>)

EnsureStakeLimit(ctx, chain) ==
  If(~chain.limitSet, <<CallBy(ctx.voting, "setStakingLimit", ctx.lido, "", <<>>)>>)

-----------------------------------------------------------------------------
(* Operators, keys and limits: the missing ones only, in order of their id. *)
Repeat(txs, count) == [i \in 1..(Len(txs) * count) |-> txs[((i - 1) % Len(txs)) + 1]]

MissingOperators(registry, chain) ==
  LET before == Len(chain.operators[registry])
  IN  IF before < MinOperators THEN MinOperators - before ELSE 0

NorEnsureMinOperators(ctx, chain) ==
  Repeat(<<CallBy(ctx.agent, "addNodeOperator", ctx.nor, "", <<>>)>>,
         MissingOperators(ctx.nor, chain))

SdvtEnsureMinOperators(ctx, chain) ==
  Repeat(<<CallBy(ctx.easyTrack, "addNodeOperator", ctx.sdvt, "", <<>>),
           CallBy(ctx.easyTrack, "grantPermission", ctx.acl, "SDVT_KEYS_MANAGER", <<ctx.sdvt>>)>>,
         MissingOperators(ctx.sdvt, chain))

(* One transaction for each of the first MinOperators that lacks something. *)
ForOperators(registry, chain, lacking(_), tx(_)) ==
  LET all == [i \in 1..MinOperators |->
                If(lacking(chain.operators[registry][i]), <<tx(i)>>)]
  IN FlattenSeq(all)

KeysTx(by, registry, chain) ==
  LET lacking(operator) == operator.keys < MinKeys
      add(i) == [operator |-> i, n |-> MinKeys - chain.operators[registry][i].keys]
                @@ CallBy(by, "addSigningKeys", registry, "", <<>>)
  IN  ForOperators(registry, chain, lacking, add)

LimitsTx(by, registry, chain) ==
  LET lacking(operator) == operator.vetted < operator.keys
      limit(i) == [operator |-> i, n |-> chain.operators[registry][i].keys]
                  @@ CallBy(by, "setLimit", registry, "", <<>>)
  IN  ForOperators(registry, chain, lacking, limit)

(* The reward address of an operator adds the keys of Simple DVT.  No key   *)
(* is deposited meanwhile: unused keys are all keys.                        *)
NorEnsureKeys(ctx, chain) == KeysTx(ctx.voting, ctx.nor, chain)
SdvtEnsureKeys(ctx, chain) == KeysTx(<<"operator", "rewards">>, ctx.sdvt, chain)
NorEnsureLimits(ctx, chain) == LimitsTx(ctx.voting, ctx.nor, chain)
SdvtEnsureLimits(ctx, chain) == LimitsTx(ctx.easyTrack, ctx.sdvt, chain)

StageTxs(stage, ctx, chain) ==
  CASE stage = "initialEpoch"   -> EnsureHashConsensusInitialEpoch(ctx, chain)
    [] stage = "unpauseStaking" -> UnpauseStaking(ctx, chain)
    [] stage = "unpauseQueue"   -> UnpauseWithdrawalQueue(ctx, chain)
    [] stage = "norOperators"   -> NorEnsureMinOperators(ctx, chain)
    [] stage = "norKeys"        -> NorEnsureKeys(ctx, chain)
    [] stage = "norLimits"      -> NorEnsureLimits(ctx, chain)
    [] stage = "sdvtOperators"  -> SdvtEnsureMinOperators(ctx, chain)
    [] stage = "sdvtKeys"       -> SdvtEnsureKeys(ctx, chain)
    [] stage = "sdvtLimits"     -> SdvtEnsureLimits(ctx, chain)
    [] stage = "stakeLimit"     -> EnsureStakeLimit(ctx, chain)

(* The expect() calls at the end of a helper. *)
Expected(stage, ctx, chain) ==
  LET registry == IF stage \in {"norOperators", "norKeys", "norLimits"} THEN ctx.nor ELSE ctx.sdvt
      operators == chain.operators[registry]
  IN CASE stage \in {"norOperators", "sdvtOperators"} -> Len(operators) >= MinOperators
       [] stage \in {"norKeys", "sdvtKeys"} ->
            \A i \in 1..MinOperators : operators[i].keys >= MinKeys
       [] stage \in {"norLimits", "sdvtLimits"} ->
            \A i \in 1..MinOperators : operators[i].vetted = operators[i].keys
       [] OTHER -> TRUE

=============================================================================
