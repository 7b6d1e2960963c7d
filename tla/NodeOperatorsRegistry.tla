-------------------------- MODULE NodeOperatorsRegistry ---------------------------
(***************************************************************************)
(* NodeOperatorsRegistry.sol: the curated staking module.  Per operator it *)
(* keeps counts of signing keys, of stuck and refunded validators and a    *)
(* target limit, and the number `max` of keys that may be deposited, which *)
(* is derived from them and cached; per module it keeps totals and a nonce.*)
(*                                                                         *)
(* op[i] is the operator with id i - 1:                                    *)
(*   active                               NodeOperator.active              *)
(*   vetted, exited, total, deposited     signingKeysStats                 *)
(*   stuck, refunded, penaltyEnd          stuckPenaltyStats                *)
(*   limited, target, max                 targetValidatorsStats            *)
(* Keys are counted, not named: keys 0 .. deposited - 1 are used, those up *)
(* to max - 1 are ready to deposit.                                        *)
(***************************************************************************)
EXTENDS MinFirstAllocation

CONSTANTS MAX_NODE_OPERATORS_COUNT,
          MAX_STUCK_PENALTY_DELAY,
          Targets,     \* target limits the admins choose from
          MaxKeys,     \* bound: MaxKeys[i] keys of operator i
          MaxTime,     \* bound: the clock stops here
          MaxReward,   \* bound: reward shares looked at
          MaxBuckets, MaxFill, MaxSize   \* bounds: allocations looked at

ASSUME RegistryAssumption ==
  /\ {MAX_NODE_OPERATORS_COUNT, MAX_STUCK_PENALTY_DELAY} \subseteq Nat
  /\ {MaxTime, MaxReward, MaxBuckets, MaxFill, MaxSize} \subseteq Nat
  /\ Targets \subseteq Nat
  /\ MaxKeys \in [1..MAX_NODE_OPERATORS_COUNT -> Nat]

VARIABLES now, op, summary, activeCount, nonce, stuckPenaltyDelay

vars == <<now, op, summary, activeCount, nonce, stuckPenaltyDelay>>

OperatorState ==
  [active : BOOLEAN,
   vetted : Nat, exited : Nat, total : Nat, deposited : Nat,
   stuck : Nat, refunded : Nat, penaltyEnd : Nat,
   limited : BOOLEAN, target : Nat, max : Nat]

NewOperator ==
  [active |-> TRUE,
   vetted |-> 0, exited |-> 0, total |-> 0, deposited |-> 0,
   stuck |-> 0, refunded |-> 0, penaltyEnd |-> 0,
   limited |-> FALSE, target |-> 0, max |-> 0]

Summary == [max : Int, exited : Int, total : Int, deposited : Int]

Larger(a, b) == IF a >= b THEN a ELSE b

-------------------------------------------------------------------------------
\* Penalties and limits

IsPenalized(o) == o.refunded < o.stuck \/ now <= o.penaltyEnd

IsPenaltyCleared(o) == ~IsPenalized(o) /\ o.penaltyEnd = 0

MaxOf(o) ==
  CASE ~IsPenaltyCleared(o) -> o.deposited
    [] IsPenaltyCleared(o) /\ o.limited  ->
         Larger(o.deposited, Smaller(o.vetted, o.exited + o.target))
    [] IsPenaltyCleared(o) /\ ~o.limited -> o.vetted

\* _updateSummaryMaxValidatorsCount: the operator with its limits applied.
Refreshed(o) == [o EXCEPT !.max = MaxOf(o)]

\* Store new operators, and the summary s with the change of their limits.
StoreOperators(new, s) ==
  /\ op' = new
  /\ summary' = [s EXCEPT !.max = @ + Sum([i \in DOMAIN op |-> new[i].max - op[i].max])]

StoreOperator(i, o, s) == StoreOperators([op EXCEPT ![i] = o], s)

IncreaseNonce == nonce' = nonce + 1

\* The end of the penalty of an operator whose last stuck validator is
\* compensated, by a lower stuck count or a higher refunded count.
PenaltyEndAfter(o, stuck, refunded) ==
  IF stuck <= refunded /\ o.stuck > o.refunded
  THEN now + stuckPenaltyDelay
  ELSE o.penaltyEnd

\* _updateStuckValidatorsCount, its check and its result

StuckAccepted_Fault(o, n) == n <= o.deposited - o.exited - o.stuck   \* fault: counts stuck twice
StuckAccepted(o, n) == n = o.stuck \/ n <= o.deposited - o.exited

WithStuck_Fault(o, n) ==                       \* fault: the limits are not refreshed
  [o EXCEPT !.stuck = n, !.penaltyEnd = PenaltyEndAfter(o, n, o.refunded)]
WithStuck(o, n) ==
  IF n = o.stuck
  THEN o
  ELSE Refreshed([o EXCEPT !.stuck = n, !.penaltyEnd = PenaltyEndAfter(o, n, o.refunded)])

\* _updateExitedValidatorsCount, its check and its result

ExitedAccepted(o, n, allowDecrease) ==
  n = o.exited \/ ((allowDecrease \/ n > o.exited) /\ n <= o.deposited - o.stuck)

WithExited(o, n) == IF n = o.exited THEN o ELSE Refreshed([o EXCEPT !.exited = n])

-------------------------------------------------------------------------------
\* Initial state: initialize

Init ==
  /\ now = 1
  /\ op = <<>>
  /\ summary = [max |-> 0, exited |-> 0, total |-> 0, deposited |-> 0]
  /\ activeCount = 0
  /\ nonce = 0
  /\ stuckPenaltyDelay \in 0..MAX_STUCK_PENALTY_DELAY

-------------------------------------------------------------------------------
\* Time, operators and their limits

\* Bounded by MaxTime.
Tick ==
  /\ now < MaxTime
  /\ now' = now + 1
  /\ UNCHANGED <<op, summary, activeCount, nonce, stuckPenaltyDelay>>

AddNodeOperator ==
  /\ Len(op) < MAX_NODE_OPERATORS_COUNT
  /\ op' = Append(op, NewOperator)
  /\ activeCount' = activeCount + 1
  /\ UNCHANGED <<now, summary, nonce, stuckPenaltyDelay>>

\* Fault: the number of active operators is not increased.
ActivateNodeOperator_Fault(i) ==
  /\ ~op[i].active
  /\ op' = [op EXCEPT ![i].active = TRUE]
  /\ IncreaseNonce
  /\ UNCHANGED <<now, summary, activeCount, stuckPenaltyDelay>>

ActivateNodeOperator(i) ==
  /\ ~op[i].active
  /\ op' = [op EXCEPT ![i].active = TRUE]
  /\ activeCount' = activeCount + 1
  /\ IncreaseNonce
  /\ UNCHANGED <<now, summary, stuckPenaltyDelay>>

DeactivateNodeOperator(i) ==
  /\ op[i].active
  /\ LET o == [op[i] EXCEPT !.active = FALSE, !.vetted = Smaller(@, op[i].deposited)]
     IN StoreOperator(i, IF o.vetted # op[i].vetted THEN Refreshed(o) ELSE o, summary)
  /\ activeCount' = activeCount - 1
  /\ IncreaseNonce
  /\ UNCHANGED <<now, stuckPenaltyDelay>>

SetNodeOperatorStakingLimit(i, limit) ==
  LET vetted == Smaller(op[i].total, Larger(limit, op[i].deposited))
  IN /\ op[i].active
     /\ vetted # op[i].vetted
     /\ StoreOperator(i, Refreshed([op[i] EXCEPT !.vetted = vetted]), summary)
     /\ IncreaseNonce
     /\ UNCHANGED <<now, activeCount, stuckPenaltyDelay>>

UpdateTargetValidatorsLimits(i, limited, target) ==
  /\ StoreOperator(i, Refreshed([op[i] EXCEPT !.limited = limited,
                                              !.target = IF limited THEN target ELSE 0]),
                   summary)
  /\ IncreaseNonce
  /\ UNCHANGED <<now, activeCount, stuckPenaltyDelay>>

SetStuckPenaltyDelay(delay) ==
  /\ delay <= MAX_STUCK_PENALTY_DELAY
  /\ stuckPenaltyDelay' = delay
  /\ UNCHANGED <<now, op, summary, activeCount, nonce>>

\* Fault: the nonce is not increased.
ClearNodeOperatorPenalty_Fault(i) ==
  /\ ~IsPenalized(op[i])
  /\ op[i].penaltyEnd # 0
  /\ StoreOperator(i, Refreshed([op[i] EXCEPT !.penaltyEnd = 0]), summary)
  /\ UNCHANGED <<now, activeCount, nonce, stuckPenaltyDelay>>

ClearNodeOperatorPenalty(i) ==
  /\ ~IsPenalized(op[i])
  /\ op[i].penaltyEnd # 0
  /\ StoreOperator(i, Refreshed([op[i] EXCEPT !.penaltyEnd = 0]), summary)
  /\ IncreaseNonce
  /\ UNCHANGED <<now, activeCount, stuckPenaltyDelay>>

-------------------------------------------------------------------------------
\* Validators.  A report is a function from the operators it names to counts.

UpdateStuckValidatorsCount(report) ==
  /\ \A i \in DOMAIN report : StuckAccepted(op[i], report[i])
  /\ StoreOperators([i \in DOMAIN op |->
                       IF i \in DOMAIN report THEN WithStuck(op[i], report[i]) ELSE op[i]],
                    summary)
  /\ IncreaseNonce
  /\ UNCHANGED <<now, activeCount, stuckPenaltyDelay>>

UpdateExitedValidatorsCount(report) ==
  LET new == [i \in DOMAIN op |->
                IF i \in DOMAIN report THEN WithExited(op[i], report[i]) ELSE op[i]]
  IN /\ \A i \in DOMAIN report : ExitedAccepted(op[i], report[i], FALSE)
     /\ StoreOperators(new, [summary EXCEPT !.exited =
                               @ + Sum([i \in DOMAIN op |-> new[i].exited - op[i].exited])])
     /\ IncreaseNonce
     /\ UNCHANGED <<now, activeCount, stuckPenaltyDelay>>

UnsafeUpdateValidatorsCount(i, exited, stuck) ==
  LET o == WithStuck(op[i], stuck)
  IN /\ StuckAccepted(op[i], stuck)
     /\ ExitedAccepted(o, exited, TRUE)
     /\ StoreOperator(i, WithExited(o, exited),
                      [summary EXCEPT !.exited = @ + exited - op[i].exited])
     /\ IncreaseNonce
     /\ UNCHANGED <<now, activeCount, stuckPenaltyDelay>>

\* The nonce is not increased.
UpdateRefundedValidatorsCount(i, n) ==
  /\ n # op[i].refunded
  /\ n <= op[i].deposited
  /\ StoreOperator(i, Refreshed([op[i] EXCEPT !.refunded = n,
                                   !.penaltyEnd = PenaltyEndAfter(op[i], op[i].stuck, n)]),
                   summary)
  /\ UNCHANGED <<now, activeCount, nonce, stuckPenaltyDelay>>

-------------------------------------------------------------------------------
\* Keys and deposits

\* Bounded by MaxKeys.
AddSigningKeys(i, n) ==
  /\ n # 0
  /\ op[i].total + n <= MaxKeys[i]
  /\ op' = [op EXCEPT ![i].total = @ + n]
  /\ summary' = [summary EXCEPT !.total = @ + n]
  /\ IncreaseNonce
  /\ UNCHANGED <<now, activeCount, stuckPenaltyDelay>>

RemoveSigningKeys(i, from, n) ==
  /\ n # 0
  /\ from >= op[i].deposited
  /\ from + n <= op[i].total
  /\ StoreOperator(i, Refreshed([op[i] EXCEPT !.total = @ - n, !.vetted = Smaller(@, from)]),
                   [summary EXCEPT !.total = @ - n])
  /\ IncreaseNonce
  /\ UNCHANGED <<now, activeCount, stuckPenaltyDelay>>

\* _invalidateReadyToDepositKeysRange, for a range with keys to invalidate
InvalidateReadyToDepositKeysRange(from, to) ==
  LET trimmed(o) == IF o.total = o.deposited
                    THEN o
                    ELSE Refreshed([o EXCEPT !.total = o.deposited, !.vetted = o.deposited])
      new   == [i \in DOMAIN op |-> IF i \in from..to THEN trimmed(op[i]) ELSE op[i]]
      count == Sum([i \in DOMAIN op |-> op[i].total - new[i].total])
  IN /\ count > 0
     /\ StoreOperators(new, [summary EXCEPT !.total = @ - count])
     /\ IncreaseNonce
     /\ UNCHANGED <<now, activeCount, stuckPenaltyDelay>>

OnWithdrawalCredentialsChanged == InvalidateReadyToDepositKeysRange(1, Len(op))

\* _getSigningKeysAllocationData; an operator without keys ready to deposit is
\* a full bucket here, where the code leaves it out.
AllocatedKeys(n) ==
  Allocate([i \in DOMAIN op |-> op[i].deposited - op[i].exited],
           [i \in DOMAIN op |-> op[i].max - op[i].exited], n)

\* _loadAllocatedSigningKeys: the operators after the allocation a.
WithDeposited(a) ==
  LET deposited(i) == op[i].exited + a.buckets[i]
  IN [i \in DOMAIN op |-> IF deposited(i) = op[i].deposited
                          THEN op[i]
                          ELSE Refreshed([op[i] EXCEPT !.deposited = deposited(i)])]

ObtainDepositData(n) ==
  LET a == AllocatedKeys(n)
  IN /\ n # 0
     /\ a.allocated = n
     /\ StoreOperators(WithDeposited(a), [summary EXCEPT !.deposited = @ + n])
     /\ IncreaseNonce
     /\ UNCHANGED <<now, activeCount, stuckPenaltyDelay>>

-------------------------------------------------------------------------------
\* Rewards, paid from the r StETH shares the registry holds.  Only balances of
\* StETH change, so this is no action here.

\* getRewardsDistribution
RewardShares(r) ==
  LET weight == [i \in DOMAIN op |-> IF op[i].active THEN op[i].deposited - op[i].exited ELSE 0]
  IN [i \in DOMAIN op |-> IF Sum(weight) = 0 THEN 0 ELSE (weight[i] * r) \div Sum(weight)]

\* _distributeRewards: what operator i receives, and what is burnt of its share.
Payout_Fault(i, r) ==                         \* fault: the burnt half is paid, too
  LET s == RewardShares(r)[i]
  IN CASE s < 2 -> [paid |-> 0, burnt |-> 0]
       [] s >= 2 /\ IsPenalized(op[i])  -> [paid |-> s, burnt |-> s \div 2]
       [] s >= 2 /\ ~IsPenalized(op[i]) -> [paid |-> s, burnt |-> 0]

Payout(i, r) ==
  LET s == RewardShares(r)[i]
  IN CASE s < 2 -> [paid |-> 0, burnt |-> 0]
       [] s >= 2 /\ IsPenalized(op[i])  -> [paid |-> s \div 2, burnt |-> s \div 2]
       [] s >= 2 /\ ~IsPenalized(op[i]) -> [paid |-> s, burnt |-> 0]

-------------------------------------------------------------------------------

\* Arguments worth passing: counts up to what the operator can have.
Counts(i) == 0..MaxKeys[i]

\* A report names at least one operator.
Reports ==
  {r \in UNION {[S -> 0..Sum(MaxKeys)] : S \in SUBSET DOMAIN op \ {{}}} :
     \A i \in DOMAIN r : r[i] \in Counts(i)}

Next ==
  \/ Tick
  \/ AddNodeOperator
  \/ \E i \in DOMAIN op :
       \/ ActivateNodeOperator(i)
       \/ DeactivateNodeOperator(i)
       \/ ClearNodeOperatorPenalty(i)
       \/ \E n \in Counts(i) :
            \/ SetNodeOperatorStakingLimit(i, n)
            \/ UpdateRefundedValidatorsCount(i, n)
            \/ AddSigningKeys(i, n)
            \/ \E m \in Counts(i) : \/ UnsafeUpdateValidatorsCount(i, m, n)
                                    \/ RemoveSigningKeys(i, m, n)
       \/ \E t \in Targets : UpdateTargetValidatorsLimits(i, TRUE, t)
       \/ UpdateTargetValidatorsLimits(i, FALSE, 0)
       \/ \E j \in i..Len(op) : InvalidateReadyToDepositKeysRange(i, j)
  \/ OnWithdrawalCredentialsChanged
  \/ \E d \in 0..MAX_STUCK_PENALTY_DELAY : SetStuckPenaltyDelay(d)
  \/ \E r \in Reports : UpdateStuckValidatorsCount(r) \/ UpdateExitedValidatorsCount(r)
  \/ \E n \in 0..Sum(MaxKeys) : ObtainDepositData(n)

Spec == Init /\ [][Next]_vars

-------------------------------------------------------------------------------
\* Properties

TypeOK ==
  /\ now \in Nat
  /\ op \in Seq(OperatorState)
  /\ summary \in Summary
  /\ activeCount \in Nat
  /\ nonce \in Nat
  /\ stuckPenaltyDelay \in Nat

\* The ranges documented for NodeOperator (NodeOperatorsRegistry.sol:174-177),
\* with the invariant _updateStuckValidatorsCount and
\* _updateExitedValidatorsCount sustain; the asserts of the contract follow.
KeyCountsOrdered ==
  \A i \in DOMAIN op :
    /\ op[i].exited + op[i].stuck <= op[i].deposited
    /\ op[i].deposited <= op[i].max
    /\ op[i].max <= op[i].vetted
    /\ op[i].vetted <= op[i].total

\* The module's totals, kept by differences, are the sums over its operators.
SummaryIsSum ==
  \A f \in DOMAIN summary : summary[f] = Sum([i \in DOMAIN op |-> op[i][f]])

\* The cached limit is never stale: whatever was changed in whatever order, it
\* is the one the operator's counts, penalty and target give now.
MaxIsCurrent == \A i \in DOMAIN op : op[i].max = MaxOf(op[i])

\* The arrays of the allocation and of the rewards are as long as the number
\* of active operators: no more operators than that have keys to deposit.
ActiveCountBoundsArrays ==
  /\ activeCount = Cardinality({i \in DOMAIN op : op[i].active})
  /\ Cardinality({i \in DOMAIN op : op[i].max # op[i].deposited}) <= activeCount

\* The counts, their totals and the limits derived from them agree with each
\* other whatever the order of the operations; every unsigned subtraction and
\* every assert of the contract rests on it.
CountsConsistent ==
  KeyCountsOrdered /\ SummaryIsSum /\ MaxIsCurrent /\ ActiveCountBoundsArrays

\* What getStakingModuleSummary announces as depositable, the module can
\* deliver: the staking router's deposits do not revert in the module.
DepositableIsObtainable ==
  \A n \in 0..summary.max - summary.deposited : AllocatedKeys(n).allocated = n

\* The allocation fills buckets min-first, for all arguments within the bounds.
\* It has no state of its own, so it is looked at in one state, the first.
ResultIsMinFirst ==
  op = << >> /\ now = 1 /\ stuckPenaltyDelay = 0 =>
    \A given, capacities \in [1..MaxBuckets -> 0..MaxFill], size \in 0..MaxSize :
      AllocatesMinFirst(given, capacities, size)

\* Rewards never exceed the shares held, and the remainder is less than two
\* shares per operator (unless nobody has an active validator).
PayoutsCovered ==
  \A r \in 0..MaxReward :
    LET spent == Sum([i \in DOMAIN op |-> Payout(i, r).paid + Payout(i, r).burnt])
    IN /\ spent <= r
       /\ (\E i \in DOMAIN op : op[i].active /\ op[i].deposited > op[i].exited)
            => r - spent < 2 * activeCount

\* An oracle report of counts that are possible now (no exit is undone, exited
\* and stuck are distinct deposited validators) is accepted when the stuck
\* counts are delivered before the exited ones, as the accounting oracle does.
TrueReportAccepted ==
  \A i \in DOMAIN op : \A exited \in op[i].exited..op[i].deposited :
    \A stuck \in 0..op[i].deposited - exited :
      /\ StuckAccepted(op[i], stuck)
      /\ ExitedAccepted(WithStuck(op[i], stuck), exited, FALSE)

\* A deposit uses vetted keys of active operators whose penalty is cleared,
\* and at most up to their limits; deposits are never undone.
DepositsAllowed ==
  [][\A i \in DOMAIN op :
       op'[i].deposited # op[i].deposited =>
         /\ op[i].active
         /\ IsPenaltyCleared(op[i])
         /\ op'[i].deposited \in op[i].deposited..op[i].vetted
         /\ op[i].limited => op'[i].deposited <= op[i].exited + op[i].target]_vars

\* What the comment at NodeOperatorsRegistry.sol:1287-1292 requires of the
\* nonce: it changes when keys are added, removed or used, or when the number
\* of keys that are ready to deposit changes.
KeySetChanges ==
  \E i \in DOMAIN op : \E f \in {"total", "deposited", "max", "active"} : op'[i][f] # op[i][f]

NonceFollowsKeys == [][KeySetChanges => nonce' # nonce]_vars

\* The same without the one operation for which it fails, a change of a
\* refunded count.
NonceFollowsKeysButRefunds ==
  [][KeySetChanges => nonce' # nonce \/ \E i \in DOMAIN op : op'[i].refunded # op[i].refunded]_vars
===================================================================================
