--------------------------------- MODULE Reporting_proofs ---------------------------------
(***************************************************************************)
(* The pool of Lido.tla stays sound, whatever report is settled with it    *)
(* and whatever the users do; the client of Reporting.tla keeps its types. *)
(* First what the rebase limiter promises, for every pool, limit and       *)
(* precision; then the shares and the queue; then one lemma per operation  *)
(* on the pool, and one per step of the client.  Then what a report does:  *)
(* its bunker mode is what was simulated, and it stays within the limit.   *)
(* Last, what the client expects of the committee and of the clock.        *)
(***************************************************************************)
EXTENDS Reporting, Foundations

\* A limiter with a limit, of a pool that is not empty.
Limiter == [preTotalPooledEther : Nat \ {0}, preTotalShares : Nat,
            positiveRebaseLimit : Nat \ {0, UNLIMITED_REBASE}]

-------------------------------------------------------------------------------
\* The cap

\* The cap is a number no smaller than the pooled ether before the report, and
\* lies within the limit: cap / pre <= (limit + P) / P.
LEMMA CapBounds ==
  ASSUME NEW l \in Limiter
  PROVE  /\ MaxTotalPooledEther(l) \in Nat
         /\ l.preTotalPooledEther <= MaxTotalPooledEther(l)
         /\ MaxTotalPooledEther(l) * LIMITER_PRECISION_BASE
              <= (l.positiveRebaseLimit + LIMITER_PRECISION_BASE) * l.preTotalPooledEther
<1> DEFINE P   == LIMITER_PRECISION_BASE
           pre == l.preTotalPooledEther
           lim == l.positiveRebaseLimit
           q   == (lim * pre) \div P
<1>1. P \in Nat \ {0} /\ pre \in Nat /\ lim \in Nat
  BY LimiterAssumption DEF Limiter
<1>2. lim * pre \in Nat
  BY <1>1, ProductTyped
<1>3. q \in Nat /\ P * q <= lim * pre
  BY <1>1, <1>2, Quotient
<1>4. MaxTotalPooledEther(l) = pre + q
  BY DEF MaxTotalPooledEther
<1> HIDE DEF P, pre, lim, q
<1>5. (pre + q) * P <= (lim + P) * pre
  BY <1>1, <1>3
<1> QED
  BY <1>1, <1>3, <1>4, <1>5 DEF P, pre, lim

\* Ether that comes in never lowers the total, the assertion of increaseEther,
\* and never lifts it over the cap.
LEMMA IncreaseBounds ==
  ASSUME NEW l \in Limiter, NEW current \in Nat, NEW amount \in Nat,
         current <= MaxTotalPooledEther(l)
  PROVE  /\ IncreaseEther(l, current, amount) \in current..MaxTotalPooledEther(l)
         /\ Consumed(l, current, amount) \in 0..amount
         /\ IncreaseEther(l, current, amount) = current + Consumed(l, current, amount)
<1>1. ~IsUnlimited(l)
  BY DEF Limiter, IsUnlimited
<1>2. MaxTotalPooledEther(l) \in Nat
  BY CapBounds
<1> QED
  BY <1>1, <1>2 DEF IncreaseEther, Consumed, Least

\* Shares to burn: a pool with `current` ether and total - burnt shares has a
\* share rate within the limit, up to one unit of precision per share left.
WithinLimit(l, current, burnt) ==
  current * l.preTotalShares * LIMITER_PRECISION_BASE
    <= l.preTotalPooledEther
         * ((l.preTotalShares - burnt) * (l.positiveRebaseLimit + LIMITER_PRECISION_BASE)
            + l.preTotalShares)

\* The arithmetic of getSharesToBurnLimit, below the cap: X is the growth of the
\* ether and R the limit, both in units of 1/P.
LEMMA BurnArithmetic ==
  ASSUME NEW current \in Nat, NEW T \in Nat, NEW P \in Nat \ {0}, NEW R \in Nat \ {0},
         NEW pre \in Nat \ {0}, NEW burnt \in Nat,
         current * P <= R * pre,
         burnt <= (T * (R - (current * P) \div pre)) \div R
  PROVE  /\ R - (current * P) \div pre \in Nat
         /\ burnt <= T
         /\ current * T * P <= pre * ((T - burnt) * R + T)
<1> DEFINE X == (current * P) \div pre
           Y == (T * (R - X)) \div R
<1>1. current * P \in Nat
  BY ProductTyped
<1>2. X \in Nat /\ pre * X <= current * P /\ current * P < pre * X + pre
  BY <1>1, Quotient
<1> HIDE DEF X
<1>3. pre * X <= pre * R
  BY <1>1, <1>2
<1>4. X <= R
  BY <1>2, <1>3
<1>5. R - X \in Nat /\ T * (R - X) \in Nat
  BY <1>2, <1>4, ProductTyped
<1>6. Y \in Nat /\ R * Y <= T * (R - X)
  BY <1>5, Quotient
<1>7. burnt <= Y
  BY DEF X
<1> HIDE DEF Y
<1>8. R * burnt <= T * (R - X)
  <2>1. burnt * R <= Y * R
    BY <1>6, <1>7, ProductMonotone
  <2> QED
    BY <1>5, <1>6, <2>1
<1>9. T * X <= (T - burnt) * R
  BY <1>2, <1>8
<1>10. burnt <= T
  <2>1. R * burnt <= R * T
    BY <1>2, <1>8
  <2> QED
    BY <2>1
<1>11. current * P * T <= (pre * X + pre) * T
  <2>1. pre * X + pre \in Nat /\ current * P <= pre * X + pre
    BY <1>1, <1>2, ProductTyped
  <2> QED
    BY <1>1, <2>1, ProductMonotone
<1>12. pre * (T * X) <= pre * ((T - burnt) * R)
  <2>1. T * X \in Nat /\ (T - burnt) * R \in Nat
    BY <1>2, <1>10, ProductTyped
  <2>2. (T * X) * pre <= ((T - burnt) * R) * pre
    BY <1>9, <2>1, ProductMonotone
  <2> QED
    BY <2>1, <2>2
<1>13. current * T * P = current * P * T /\ (pre * X + pre) * T = pre * (T * X) + pre * T
  BY <1>2
<1>14. pre * ((T - burnt) * R + T) = pre * ((T - burnt) * R) + pre * T
  BY <1>10
<1> QED
  BY <1>2, <1>5, <1>10, <1>11, <1>12, <1>13, <1>14 DEF X

\* Burning no more than getSharesToBurnLimit keeps the share rate within the
\* limit and leaves no fewer than zero shares.
LEMMA BurnLimitKeeps ==
  ASSUME NEW l \in Limiter, NEW current \in Nat, NEW burnt \in Nat,
         current <= MaxTotalPooledEther(l),
         burnt <= GetSharesToBurnLimit(l, current)
  PROVE  burnt <= l.preTotalShares /\ WithinLimit(l, current, burnt)
<1> DEFINE P   == LIMITER_PRECISION_BASE
           pre == l.preTotalPooledEther
           T   == l.preTotalShares
           R   == l.positiveRebaseLimit + P
           cap == MaxTotalPooledEther(l)
<1>1. P \in Nat \ {0} /\ pre \in Nat \ {0} /\ T \in Nat /\ R \in Nat \ {0} /\ ~IsUnlimited(l)
  BY LimiterAssumption DEF Limiter, IsUnlimited
<1>2. cap \in Nat /\ cap * P <= R * pre
  BY CapBounds
<1>3. current * P <= R * pre
  <2>1. current * P <= cap * P
    BY <1>1, <1>2, ProductMonotone
  <2>2. current * P \in Nat /\ cap * P \in Nat /\ R * pre \in Nat
    BY <1>1, <1>2, ProductTyped
  <2> QED
    BY <1>2, <2>1, <2>2
<1>4. CASE current < cap
  <2>1. GetSharesToBurnLimit(l, current) = (T * (R - (current * P) \div pre)) \div R
    BY <1>1, <1>2, <1>4 DEF GetSharesToBurnLimit, IsLimitReached
  <2> HIDE DEF P, pre, T, R
  <2>2. burnt <= T /\ current * T * P <= pre * ((T - burnt) * R + T)
    BY <1>1, <1>3, <2>1, BurnArithmetic
  <2> QED
    BY <2>2 DEF WithinLimit, P, pre, T, R
<1>5. CASE ~(current < cap)
  <2>1. GetSharesToBurnLimit(l, current) = 0
    BY <1>1, <1>2, <1>5 DEF GetSharesToBurnLimit, IsLimitReached
  <2>2. burnt = 0
    BY <2>1
  <2> HIDE DEF P, pre, T, R
  <2>3. current * P * T <= R * pre * T
    <3>1. current * P \in Nat /\ R * pre \in Nat
      BY <1>1, ProductTyped
    <3> QED
      BY <1>1, <1>3, <3>1, ProductMonotone
  <2>4. current * T * P <= pre * ((T - 0) * R + T)
    <3>1. pre * T \in Nat
      BY <1>1, ProductTyped
    <3>2. pre * ((T - 0) * R + T) = R * pre * T + pre * T /\ current * T * P = current * P * T
      BY <1>1
    <3>3. current * P * T \in Nat /\ R * pre * T \in Nat
      BY <1>1, ProductTyped
    <3> QED
      BY <2>3, <3>1, <3>2, <3>3
  <2> QED
    BY <1>1, <2>2, <2>4 DEF WithinLimit, P, pre, T, R
<1> QED
  BY <1>4, <1>5

\* The limit on the shares is a number; less ether never allows fewer shares.
LEMMA BurnLimitAntitone ==
  ASSUME NEW l \in Limiter, NEW low \in Nat, NEW high \in Nat,
         low <= high, high <= MaxTotalPooledEther(l)
  PROVE  /\ GetSharesToBurnLimit(l, high) \in Nat
         /\ GetSharesToBurnLimit(l, high) <= GetSharesToBurnLimit(l, low)
<1> DEFINE P     == LIMITER_PRECISION_BASE
           pre   == l.preTotalPooledEther
           T     == l.preTotalShares
           R     == l.positiveRebaseLimit + P
           cap   == MaxTotalPooledEther(l)
           X(c)  == (c * P) \div pre
           To(c) == (T * (R - X(c))) \div R
<1>1. P \in Nat \ {0} /\ pre \in Nat \ {0} /\ T \in Nat /\ R \in Nat \ {0} /\ ~IsUnlimited(l)
  BY LimiterAssumption DEF Limiter, IsUnlimited
<1>2. cap \in Nat /\ cap * P <= R * pre
  BY CapBounds
<1>3. ASSUME NEW c \in Nat, c <= cap
      PROVE  X(c) \in Nat /\ R - X(c) \in Nat /\ T * (R - X(c)) \in Nat /\ To(c) \in Nat
  <2> HIDE DEF P, pre, T, R, cap
  <2>1. c * P \in Nat /\ cap * P \in Nat /\ R * pre \in Nat
    BY <1>1, <1>2, ProductTyped
  <2>2. c * P <= R * pre
    BY <1>1, <1>2, <1>3, <2>1, ProductMonotone
  <2>3. X(c) \in Nat /\ pre * X(c) <= c * P
    BY <1>1, <2>1, Quotient
  <2> HIDE DEF X
  <2>4. pre * X(c) <= pre * R
    BY <1>1, <2>1, <2>2, <2>3
  <2>5. R - X(c) \in Nat
    BY <1>1, <2>3, <2>4
  <2>6. T * (R - X(c)) \in Nat
    BY <1>1, <2>5, ProductTyped
  <2> QED
    BY <1>1, <2>3, <2>5, <2>6, Quotient
<1>4. ASSUME NEW c \in Nat
      PROVE  GetSharesToBurnLimit(l, c) = IF c < cap THEN To(c) ELSE 0
  BY <1>1, <1>2 DEF GetSharesToBurnLimit, IsLimitReached
<1>5. X(low) <= X(high)
  <2> HIDE DEF P, pre
  <2>1. low * P \in Nat /\ high * P \in Nat
    BY <1>1, ProductTyped
  <2>2. low * P <= high * P
    BY <1>1, ProductMonotone
  <2> QED
    BY <1>1, <2>1, <2>2, QuotientMonotone
<1>6. To(high) <= To(low)
  <2>1. low <= cap
    BY <1>2
  <2>2. /\ X(low) \in Nat /\ X(high) \in Nat
        /\ R - X(low) \in Nat /\ R - X(high) \in Nat
        /\ T * (R - X(low)) \in Nat /\ T * (R - X(high)) \in Nat
    BY <1>3, <2>1
  <2> HIDE DEF P, pre, T, R, cap, X
  <2>3. R - X(high) <= R - X(low)
    BY <1>1, <1>5, <2>2
  <2>4. (R - X(high)) * T <= (R - X(low)) * T
    BY <1>1, <2>2, <2>3, ProductMonotone
  <2>5. T * (R - X(high)) <= T * (R - X(low))
    BY <1>1, <2>2, <2>4
  <2> QED
    BY <1>1, <2>2, <2>5, QuotientMonotone
<1>7. To(high) \in Nat /\ To(low) \in Nat
  <2>1. low <= cap
    BY <1>2
  <2> QED
    BY <1>3, <2>1
<1> HIDE DEF To
<1> QED
  BY <1>2, <1>4, <1>6, <1>7

-------------------------------------------------------------------------------
\* The report

\* However much ether the vaults hold and however many shares wait to be burnt:
\* smoothenTokenRebase takes no more ether than there is and than the cap allows,
\* burns no more shares than exist, and leaves the share rate within the limit;
\* the assertion of increaseEther holds, and Lido's subtraction of the simulated
\* shares from those to be burnt (Lido.sol:1263) does not underflow.
THEOREM RebaseStaysWithinLimit ==
  ASSUME NEW l \in Limiter, NEW preCL \in Nat, NEW postCL \in Nat,
         NEW withdrawalVault \in Nat, NEW elVault \in Nat,
         NEW toBurn \in Nat, NEW toLock \in Nat, NEW newToBurn \in Nat,
         ~SmoothenTokenRebase(l, preCL, postCL, withdrawalVault, elVault,
                              toBurn, toLock, newToBurn).negative
  PROVE  LET s     == SmoothenTokenRebase(l, preCL, postCL, withdrawalVault, elVault,
                                          toBurn, toLock, newToBurn)
             ether == AfterCLUpdate(l, preCL, postCL) + s.withdrawals + s.elRewards
         IN /\ s.withdrawals \in 0..withdrawalVault /\ s.elRewards \in 0..elVault
            /\ ether <= MaxTotalPooledEther(l)
            /\ s.sharesToBurn \in 0..l.preTotalShares
            /\ s.simulatedSharesToBurn \in 0..s.sharesToBurn
            /\ WithinLimit(l, ether - toLock, s.sharesToBurn)
<1> DEFINE s     == SmoothenTokenRebase(l, preCL, postCL, withdrawalVault, elVault,
                                        toBurn, toLock, newToBurn)
           cap   == MaxTotalPooledEther(l)
           cl    == AfterCLUpdate(l, preCL, postCL)
           wd    == IncreaseEther(l, cl, withdrawalVault)
           el    == IncreaseEther(l, wd, elVault)
           final == DecreaseEther(l, el, toLock)
<1>1. /\ s.withdrawals = Consumed(l, cl, withdrawalVault)
      /\ s.elRewards = Consumed(l, wd, elVault)
      /\ s.simulatedSharesToBurn = Least(GetSharesToBurnLimit(l, el), toBurn)
      /\ s.sharesToBurn = Least(GetSharesToBurnLimit(l, final), newToBurn + toBurn)
      /\ ~(cl < 0) /\ ~(final < 0)
  BY DEF SmoothenTokenRebase
<1>2. ~IsUnlimited(l) /\ l.preTotalPooledEther \in Nat
  BY DEF Limiter, IsUnlimited
<1>3. cap \in Nat /\ l.preTotalPooledEther <= cap
  BY CapBounds
<1>4. cl \in Nat /\ cl <= cap
  <2>1. CASE postCL < preCL
    <3>1. cl = l.preTotalPooledEther - (preCL - postCL)
      BY <1>2, <2>1 DEF AfterCLUpdate, DecreaseEther
    <3> HIDE DEF cl, cap
    <3> QED
      BY <1>1, <1>2, <1>3, <2>1, <3>1
  <2>2. CASE ~(postCL < preCL)
    <3>1. cl = IncreaseEther(l, l.preTotalPooledEther, postCL - preCL) /\ postCL - preCL \in Nat
      BY <2>2 DEF AfterCLUpdate
    <3> DEFINE gain == postCL - preCL
    <3>2. IncreaseEther(l, l.preTotalPooledEther, gain) \in l.preTotalPooledEther..cap
      <4>1. gain \in Nat /\ l.preTotalPooledEther <= MaxTotalPooledEther(l)
        BY <1>3, <3>1
      <4> HIDE DEF gain
      <4> QED
        BY <1>2, <4>1, IncreaseBounds
    <3>3. cl \in l.preTotalPooledEther..cap
      BY <3>1, <3>2
    <3> HIDE DEF cl, cap
    <3> QED
      BY <1>2, <1>3, <3>3
  <2> QED
    BY <2>1, <2>2
<1> HIDE DEF cl
<1>5. wd \in cl..cap /\ s.withdrawals \in 0..withdrawalVault /\ wd = cl + s.withdrawals
  BY <1>1, <1>4, IncreaseBounds
<1>6. wd \in Nat /\ wd <= cap
  <2> HIDE DEF wd, cap
  <2> QED
    BY <1>3, <1>4, <1>5
<1> HIDE DEF wd
<1>7. el \in wd..cap /\ s.elRewards \in 0..elVault /\ el = wd + s.elRewards
  BY <1>1, <1>6, IncreaseBounds
<1>8. final = el - toLock
  BY <1>2 DEF DecreaseEther
<1> HIDE DEF el, final, s, cap
<1>9. el \in Nat /\ el <= cap /\ final \in Nat /\ final <= el
  BY <1>1, <1>3, <1>6, <1>7, <1>8
<1>10. /\ GetSharesToBurnLimit(l, el) \in Nat /\ GetSharesToBurnLimit(l, final) \in Nat
       /\ GetSharesToBurnLimit(l, el) <= GetSharesToBurnLimit(l, final)
  <2>1. final <= cap
    BY <1>3, <1>9
  <2> QED
    BY <1>9, <2>1, BurnLimitAntitone DEF cap
<1>11. s.sharesToBurn \in Nat /\ s.sharesToBurn <= GetSharesToBurnLimit(l, final)
  BY <1>1, <1>10 DEF Least
<1>12. s.simulatedSharesToBurn \in 0..s.sharesToBurn
  BY <1>1, <1>10 DEF Least
<1>13. s.sharesToBurn <= l.preTotalShares /\ WithinLimit(l, final, s.sharesToBurn)
  <2>1. final <= MaxTotalPooledEther(l)
    BY <1>3, <1>9 DEF cap
  <2> QED
    BY <1>9, <1>11, <2>1, BurnLimitKeeps
<1>14. el = cl + s.withdrawals + s.elRewards
  BY <1>5, <1>7
<1>15. l.preTotalShares \in Nat
  BY DEF Limiter
<1> QED
  BY <1>5, <1>7, <1>8, <1>9, <1>11, <1>12, <1>13, <1>14, <1>15 DEF s, cap, cl

-------------------------------------------------------------------------------
\* Accounts and their shares

\* The accounts are finitely many, and the four named ones are no modules.
LEMMA AccountFacts ==
  /\ IsFiniteSet(Accounts)
  /\ {"holders", "queue", "burner", "treasury"} \subseteq Accounts /\ Modules \subseteq Accounts
  /\ \A a \in {"holders", "queue", "burner", "treasury"} : a \notin Modules
<1>1. IsFiniteSet({"holders", "queue", "burner", "treasury"})
  <2>1. IsFiniteSet({} \cup {"holders"})
    BY FS_EmptySet, FS_AddElement
  <2>2. IsFiniteSet(({} \cup {"holders"}) \cup {"queue"})
    BY <2>1, FS_AddElement
  <2>3. IsFiniteSet((({} \cup {"holders"}) \cup {"queue"}) \cup {"burner"})
    BY <2>2, FS_AddElement
  <2>4. IsFiniteSet(((({} \cup {"holders"}) \cup {"queue"}) \cup {"burner"}) \cup {"treasury"})
    BY <2>3, FS_AddElement
  <2>5. ((({} \cup {"holders"}) \cup {"queue"}) \cup {"burner"}) \cup {"treasury"}
          = {"holders", "queue", "burner", "treasury"}
    OBVIOUS
  <2> QED
    BY <2>4, <2>5, Zenon
<1>2. IsFiniteSet(Accounts)
  BY <1>1, LidoAssumption, FS_Union DEF Accounts
<1> QED
  BY <1>2, LidoAssumption DEF Accounts

\* g is f with `by` more shares for account a.
OneMoves(f, g, a, by) ==
  /\ g \in [Accounts -> Nat] /\ g[a] = f[a] + by
  /\ \A x \in Accounts : x # a => f[x] = g[x]

\* Their sum grows by as many.
LEMMA SumMoves ==
  ASSUME NEW f \in [Accounts -> Nat], NEW g, NEW a \in Accounts, NEW by \in Int,
         OneMoves(f, g, a, by)
  PROVE  /\ SumOver(g, Accounts) = SumOver(f, Accounts) + by
         /\ SumOver(f, Accounts) \in Nat /\ SumOver(g, Accounts) \in Nat
<1>1. /\ \A x \in Accounts : f[x] \in Int /\ g[x] \in Int /\ f[x] >= 0 /\ g[x] >= 0
      /\ \A x \in Accounts : x # a => f[x] = g[x]
      /\ g[a] = f[a] + by
  BY DEF OneMoves
<1>2. IsFiniteSet(Accounts)
  BY AccountFacts
<1>3. SumOver(g, Accounts) = SumOver(f, Accounts) + g[a] - f[a]
  BY <1>1, <1>2, SumOverUpdate
<1>4. SumOver(f, Accounts) \in Nat /\ SumOver(g, Accounts) \in Nat
  BY <1>1, <1>2, SumOverType
<1> QED
  BY <1>1, <1>3, <1>4

\* An account has no more shares than all of them.
LEMMA SharesWithin ==
  ASSUME NEW f \in [Accounts -> Nat], NEW a \in Accounts
  PROVE  f[a] <= SumOver(f, Accounts) /\ SumOver(f, Accounts) \in Nat
<1> DEFINE g == [f EXCEPT ![a] = 0]
<1>1. OneMoves(f, g, a, 0 - f[a]) /\ 0 - f[a] \in Int /\ f[a] \in Nat
  BY DEF OneMoves
<1> HIDE DEF g
<1>2. /\ SumOver(g, Accounts) = SumOver(f, Accounts) + (0 - f[a])
      /\ SumOver(f, Accounts) \in Nat /\ SumOver(g, Accounts) \in Nat
  BY <1>1, SumMoves
<1> QED
  BY <1>1, <1>2

Moved(f, from, to, n) == [f EXCEPT ![from] = @ - n, ![to] = @ + n]

\* A transfer moves shares and keeps their sum.
LEMMA SharesMoved ==
  ASSUME NEW f \in [Accounts -> Nat], NEW from \in Accounts, NEW to \in Accounts, from # to,
         NEW n \in 0..f[from]
  PROVE  LET g == Moved(f, from, to, n)
         IN /\ g \in [Accounts -> Nat] /\ SumOver(g, Accounts) = SumOver(f, Accounts)
            /\ g[from] = f[from] - n /\ g[to] = f[to] + n
            /\ \A x \in Accounts : x # from /\ x # to => g[x] = f[x]
<1> DEFINE h == [f EXCEPT ![from] = @ - n]
           g == Moved(f, from, to, n)
<1>1. n \in Nat /\ 0 - n \in Int /\ f[from] \in Nat /\ f[from] - n \in Nat
  OBVIOUS
<1>2. h \in [Accounts -> Nat] /\ OneMoves(f, h, from, 0 - n)
  BY <1>1 DEF OneMoves
<1>3. OneMoves(h, g, to, n)
  BY <1>1 DEF OneMoves, Moved
<1>4. /\ g \in [Accounts -> Nat] /\ g[from] = f[from] - n /\ g[to] = f[to] + n
      /\ \A x \in Accounts : x # from /\ x # to => g[x] = f[x]
  BY <1>1 DEF Moved
<1> HIDE DEF g, h
<1>5. /\ SumOver(h, Accounts) = SumOver(f, Accounts) + (0 - n)
      /\ SumOver(f, Accounts) \in Nat /\ SumOver(h, Accounts) \in Nat
  BY <1>1, <1>2, SumMoves
<1>6. SumOver(g, Accounts) = SumOver(h, Accounts) + n
  BY <1>1, <1>2, <1>3, SumMoves
<1>7. SumOver(g, Accounts) = SumOver(f, Accounts)
  BY <1>1, <1>5, <1>6
<1> QED
  BY <1>4, <1>7 DEF g

-------------------------------------------------------------------------------
\* The queue

\* Later requests have no smaller sums.
Growing(q) ==
  \A i, j \in 1..Len(q) :
    i <= j => /\ q[i].cumulativeStETH <= q[j].cumulativeStETH
              /\ q[i].cumulativeShares <= q[j].cumulativeShares

\* A request has the totals of Request.
LEMMA RequestTyped ==
  ASSUME NEW q \in Seq(Request), NEW i \in 1..Len(q)
  PROVE  q[i].cumulativeStETH \in Nat /\ q[i].cumulativeShares \in Nat /\ q[i].timestamp \in Int
<1>1. q[i] \in Request
  BY ElementOfSeq
<1> QED
  BY <1>1 DEF Request

\* Ranges of requests have amounts and shares, which add up.
LEMMA RangeIn ==
  ASSUME NEW q \in Seq(Request), Growing(q), NEW pre \in 0..Len(q), NEW end \in 1..Len(q),
         pre <= end
  PROVE  StETHIn(q, pre, end) \in Nat /\ SharesIn(q, pre, end) \in Nat
<1>1. CASE pre = 0
  BY <1>1, RequestTyped DEF StETHIn, SharesIn
<1>2. CASE pre # 0
  <2>1. pre \in 1..Len(q)
    BY <1>2, LenProperties
  <2>2. /\ q[pre].cumulativeStETH <= q[end].cumulativeStETH
        /\ q[pre].cumulativeShares <= q[end].cumulativeShares
    BY <2>1 DEF Growing
  <2>3. /\ q[pre].cumulativeStETH \in Nat /\ q[pre].cumulativeShares \in Nat
        /\ q[end].cumulativeStETH \in Nat /\ q[end].cumulativeShares \in Nat
    BY <2>1, RequestTyped
  <2> QED
    BY <1>2, <2>2, <2>3 DEF StETHIn, SharesIn
<1> QED
  BY <1>1, <1>2

\* A range of the queue is the sum of its parts.
LEMMA RangeSplit ==
  ASSUME NEW q \in Seq(Request), NEW pre \in 0..Len(q), NEW mid \in 1..Len(q),
         NEW end \in 1..Len(q)
  PROVE  SharesIn(q, pre, end) = SharesIn(q, pre, mid) + SharesIn(q, mid, end)
<1>1. q[mid].cumulativeShares \in Nat /\ q[end].cumulativeShares \in Nat /\ mid # 0
  BY RequestTyped, LenProperties
<1>2. CASE pre = 0
  BY <1>1, <1>2 DEF SharesIn
<1>3. CASE pre # 0
  <2>1. q[pre].cumulativeShares \in Nat
    BY <1>3, RequestTyped, LenProperties
  <2> QED
    BY <1>1, <1>3, <2>1 DEF SharesIn
<1> QED
  BY <1>2, <1>3

\* What a range costs is a number.
LEMMA PriceTyped ==
  ASSUME NEW q \in Seq(Request), Growing(q), NEW pre \in 0..Len(q), NEW end \in 1..Len(q),
         pre <= end, NEW rate \in Nat
  PROVE  EtherFor(q, pre, end, rate) \in Nat
<1> DEFINE S == SharesIn(q, pre, end)
           x == S * rate
<1>1. StETHIn(q, pre, end) \in Nat /\ S \in Nat
  BY RangeIn
<1>2. x \in Nat
  <2> HIDE DEF S
  <2> QED
    BY <1>1, ProductTyped
<1>3. x \div E27_PRECISION_BASE \in Nat
  <2> HIDE DEF x
  <2> QED
    BY <1>2, BatchesAssumption, Quotient
<1> QED
  BY <1>1, <1>3 DEF EtherFor

-------------------------------------------------------------------------------
\* The pool

\* What holds of the pool between two transactions, and with the pool in it.
Sound(p) ==
  /\ p \in Pool
  /\ Growing(p.queue) /\ p.lastFinalized <= Len(p.queue)
  /\ p.clValidators <= p.depositedValidators
  /\ Balanced(p)

\* The fields of a pool.
LEMMA PoolTyped ==
  ASSUME NEW p \in Pool
  PROVE  /\ p.bufferedEther \in Nat /\ p.depositedValidators \in Nat /\ p.clValidators \in Nat
         /\ p.clBalance \in Nat /\ p.shares \in [Accounts -> Nat] /\ p.totalShares \in Nat
         /\ p.cover \in Nat /\ p.nonCover \in Nat /\ p.withdrawalVault \in Nat
         /\ p.elVault \in Nat /\ p.balance \in Nat /\ p.queue \in Seq(Request)
         /\ p.lastFinalized \in Nat /\ p.lastReportTimestamp \in Int /\ p.lockedEther \in Nat
         /\ p.bunker \in BOOLEAN /\ Len(p.queue) \in Nat
         /\ p.shares["holders"] \in Nat /\ p.shares["queue"] \in Nat
         /\ p.shares["burner"] \in Nat /\ p.shares["treasury"] \in Nat
<1>1. p.shares \in [Accounts -> Nat] /\ p.queue \in Seq(Request)
  BY DEF Pool
<1>2. Len(p.queue) \in Nat
  BY <1>1, LenProperties
<1> QED
  BY <1>1, <1>2, AccountFacts DEF Pool

\* The pool's ether is not negative.
LEMMA EtherTyped ==
  ASSUME NEW p, Sound(p)
  PROVE  TotalPooledEther(p) \in Nat
<1> DEFINE waiting == p.depositedValidators - p.clValidators
<1>1. p.bufferedEther \in Nat /\ p.clBalance \in Nat /\ waiting \in Nat
  BY PoolTyped DEF Sound
<1>2. DEPOSIT_SIZE \in Nat
  BY LidoAssumption
<1> HIDE DEF waiting
<1>3. waiting * DEPOSIT_SIZE \in Nat
  BY <1>1, <1>2, ProductTyped
<1> QED
  BY <1>1, <1>3 DEF TotalPooledEther, waiting

\* So is what an amount is worth.
LEMMA SharesTyped ==
  ASSUME NEW p, Sound(p), TotalPooledEther(p) > 0, NEW amount \in Nat
  PROVE  GetSharesByPooledEth(p, amount) \in Nat
<1> DEFINE ether == TotalPooledEther(p)
           x == amount * p.totalShares
<1>1. ether \in Nat \ {0} /\ p.totalShares \in Nat
  BY EtherTyped, PoolTyped DEF Sound
<1>2. x \in Nat
  BY <1>1, ProductTyped
<1> HIDE DEF ether, x
<1>3. x \div ether \in Nat
  BY <1>1, <1>2, Quotient
<1> QED
  BY <1>3 DEF GetSharesByPooledEth, ether, x

-------------------------------------------------------------------------------
\* Users and node operators

\* Lido.submit mints shares for the ether it adds.
LEMMA SubmitSound ==
  ASSUME NEW p, Sound(p), TotalPooledEther(p) > 0, NEW amount \in Nat
  PROVE  Sound(Submit(p, amount))
<1> DEFINE n == GetSharesByPooledEth(p, amount)
           g == [p.shares EXCEPT !["holders"] = @ + n]
           q == Submit(p, amount)
<1>1. n \in Nat
  BY SharesTyped
<1>2. p \in Pool /\ p.shares \in [Accounts -> Nat] /\ "holders" \in Accounts
      /\ "queue" \in Accounts /\ "burner" \in Accounts
  BY PoolTyped, AccountFacts DEF Sound
<1> HIDE DEF n
<1>3. q = [p EXCEPT !.shares = g, !.totalShares = @ + n,
                    !.bufferedEther = @ + amount, !.balance = @ + amount]
  BY <1>2 DEF Submit, MintShares, Pool, n
<1>4. OneMoves(p.shares, g, "holders", n) /\ n \in Int
  BY <1>1, <1>2 DEF OneMoves
<1>5. g \in [Accounts -> Nat] /\ g["queue"] = p.shares["queue"] /\ g["burner"] = p.shares["burner"]
  BY <1>1, <1>2
<1> HIDE DEF g, q
<1>6. SumOver(g, Accounts) = SumOver(p.shares, Accounts) + n
  BY <1>2, <1>4, SumMoves
<1>7. /\ q.queue = p.queue /\ q.lastFinalized = p.lastFinalized
      /\ q.clValidators = p.clValidators /\ q.depositedValidators = p.depositedValidators
      /\ q.shares = g /\ q.totalShares = p.totalShares + n
      /\ q.bufferedEther = p.bufferedEther + amount /\ q.balance = p.balance + amount
      /\ q.cover = p.cover /\ q.nonCover = p.nonCover
  BY <1>2, <1>3 DEF Pool
<1>8. q \in Pool
  <2>1. /\ p.totalShares + n \in Nat /\ p.bufferedEther + amount \in Nat
        /\ p.balance + amount \in Nat
    BY <1>1, <1>2, PoolTyped
  <2> QED
    BY <1>2, <1>3, <1>5, <2>1 DEF Pool
<1> QED
  BY <1>5, <1>6, <1>7, <1>8 DEF Sound, Balanced, q

\* The sums so far are numbers.
LEMMA LastTyped ==
  ASSUME NEW p \in Pool
  PROVE  LastStETH(p) \in Nat /\ LastShares(p) \in Nat
<1>1. p.queue \in Seq(Request)
  BY PoolTyped
<1>2. CASE p.queue = << >>
  BY <1>2 DEF LastStETH, LastShares
<1>3. CASE p.queue # << >>
  <2>1. Len(p.queue) \in 1..Len(p.queue)
    BY <1>1, <1>3, LenProperties, EmptySeq
  <2> QED
    BY <1>1, <1>3, <2>1, RequestTyped DEF LastStETH, LastShares
<1> QED
  BY <1>2, <1>3

\* A queue with one more request, with an amount and shares of its own.
LEMMA QueueGrows ==
  ASSUME NEW p \in Pool, Growing(p.queue), p.lastFinalized <= Len(p.queue),
         NEW e \in Request, e.cumulativeStETH >= LastStETH(p),
         e.cumulativeShares >= LastShares(p)
  PROVE  /\ Growing(Append(p.queue, e)) /\ Append(p.queue, e) \in Seq(Request)
         /\ Len(Append(p.queue, e)) = Len(p.queue) + 1
         /\ SharesIn(Append(p.queue, e), p.lastFinalized, Len(p.queue) + 1)
              = (IF p.lastFinalized = Len(p.queue)
                 THEN 0
                 ELSE SharesIn(p.queue, p.lastFinalized, Len(p.queue)))
                + e.cumulativeShares - LastShares(p)
<1> DEFINE q == p.queue
           r == Append(q, e)
           n == Len(q)
           fin == p.lastFinalized
<1>1. q \in Seq(Request) /\ n \in Nat /\ fin \in 0..n
  BY PoolTyped
<1>2. r \in Seq(Request) /\ Len(r) = n + 1 /\ r[n + 1] = e /\ \A i \in 1..n : r[i] = q[i]
  BY <1>1, AppendProperties
<1>3. \A i \in 1..n : q[i].cumulativeStETH \in Nat /\ q[i].cumulativeShares \in Nat
  BY <1>1, RequestTyped
<1>4. e.cumulativeStETH \in Nat /\ e.cumulativeShares \in Nat
  BY DEF Request
<1>5. q = << >> <=> n = 0
  BY <1>1, EmptySeq
<1>6. /\ n = 0 => LastStETH(p) = 0 /\ LastShares(p) = 0
      /\ n # 0 => LastStETH(p) = q[n].cumulativeStETH /\ LastShares(p) = q[n].cumulativeShares
  BY <1>5 DEF LastStETH, LastShares
<1> HIDE DEF q, r, n, fin
<1>7. Growing(r)
  <2> SUFFICES ASSUME NEW i \in 1..n + 1, NEW j \in 1..n + 1, i <= j
               PROVE  /\ r[i].cumulativeStETH <= r[j].cumulativeStETH
                      /\ r[i].cumulativeShares <= r[j].cumulativeShares
    BY <1>2 DEF Growing
  <2>1. CASE j \in 1..n
    <3>1. i \in 1..n
      BY <1>1, <2>1
    <3>2. /\ q[i].cumulativeStETH <= q[j].cumulativeStETH
          /\ q[i].cumulativeShares <= q[j].cumulativeShares
      BY <2>1, <3>1 DEF Growing, q, n
    <3> QED
      BY <1>2, <2>1, <3>1, <3>2
  <2>2. CASE j = n + 1 /\ i \in 1..n
    <3>1. n \in 1..n /\ n # 0
      BY <1>1, <2>2
    <3>2. /\ q[i].cumulativeStETH <= q[n].cumulativeStETH
          /\ q[i].cumulativeShares <= q[n].cumulativeShares
      BY <1>1, <2>2, <3>1 DEF Growing, q, n
    <3>3. q[n].cumulativeStETH <= e.cumulativeStETH /\ q[n].cumulativeShares <= e.cumulativeShares
      BY <1>6, <3>1
    <3> QED
      BY <1>2, <1>3, <1>4, <2>2, <3>1, <3>2, <3>3
  <2>3. CASE j = n + 1 /\ i = n + 1
    BY <1>2, <1>4, <2>3
  <2> QED
    BY <1>1, <2>1, <2>2, <2>3
<1>8. /\ SharesIn(r, fin, n + 1) = (IF fin = n THEN 0 ELSE SharesIn(q, fin, n))
                                    + e.cumulativeShares - LastShares(p)
  <2>1. CASE n = 0
    BY <1>1, <1>2, <1>4, <1>6, <2>1 DEF SharesIn
  <2>2. CASE n # 0 /\ fin = n
    <3>1. n \in 1..n
      BY <1>1, <2>2
    <3> QED
      BY <1>2, <1>3, <1>4, <1>6, <2>2, <3>1 DEF SharesIn
  <2>3. CASE n # 0 /\ fin # n /\ fin = 0
    <3>1. n \in 1..n
      BY <1>1, <2>3
    <3> QED
      BY <1>2, <1>3, <1>4, <1>6, <2>3, <3>1 DEF SharesIn
  <2>4. CASE n # 0 /\ fin # n /\ fin # 0
    <3>1. n \in 1..n /\ fin \in 1..n
      BY <1>1, <2>4
    <3> QED
      BY <1>2, <1>3, <1>4, <1>6, <2>4, <3>1 DEF SharesIn
  <2> QED
    BY <2>1, <2>2, <2>3, <2>4
<1> QED
  BY <1>2, <1>7, <1>8 DEF q, r, n, fin

\* A transfer leaves the rest of the pool alone.
LEMMA TransferKeeps ==
  ASSUME NEW p \in Pool, NEW from \in Accounts, NEW to \in Accounts, from # to,
         NEW n \in 0..p.shares[from]
  PROVE  LET q == TransferShares(p, from, to, n)
         IN /\ q \in Pool /\ q = [p EXCEPT !.shares = q.shares]
            /\ SumOver(q.shares, Accounts) = SumOver(p.shares, Accounts)
            /\ q.shares[from] = p.shares[from] - n /\ q.shares[to] = p.shares[to] + n
            /\ \A x \in Accounts : x # from /\ x # to => q.shares[x] = p.shares[x]
<1> DEFINE q == TransferShares(p, from, to, n)
           f == p.shares
           g == Moved(f, from, to, n)
<1>1. q = [p EXCEPT !.shares = g]
  BY DEF TransferShares, Moved
<1>2. f \in [Accounts -> Nat] /\ n \in 0..f[from]
  BY PoolTyped
<1> HIDE DEF f, q
<1>3. /\ g \in [Accounts -> Nat] /\ SumOver(g, Accounts) = SumOver(f, Accounts)
      /\ g[from] = f[from] - n /\ g[to] = f[to] + n
      /\ \A x \in Accounts : x # from /\ x # to => g[x] = f[x]
  BY <1>2, SharesMoved
<1> HIDE DEF g
<1>4. q.shares = g /\ q \in Pool
  BY <1>1, <1>3 DEF Pool
<1> QED
  BY <1>1, <1>3, <1>4 DEF q, f

\* A request moves the shares it notes to the queue.
LEMMA RequestSound ==
  ASSUME NEW p, Sound(p), NEW amount \in Nat, CanRequest(p, amount), NEW timestamp \in Nat
  PROVE  Sound(RequestWithdrawal(p, amount, timestamp))
<1> DEFINE n == GetSharesByPooledEth(p, amount)
           t == TransferShares(p, "holders", "queue", n)
           e == [cumulativeStETH  |-> LastStETH(p) + amount,
                 cumulativeShares |-> LastShares(p) + n,
                 timestamp        |-> timestamp,
                 reportTimestamp  |-> p.lastReportTimestamp]
           r == Append(p.queue, e)
           q == RequestWithdrawal(p, amount, timestamp)
<1>1. n \in 1..p.shares["holders"] /\ p \in Pool
  BY DEF CanRequest, Sound
<1>2. /\ p.shares \in [Accounts -> Nat] /\ p.shares["holders"] \in Nat
      /\ "queue" \in Accounts /\ "burner" \in Accounts /\ "holders" \in Accounts
  BY <1>1, PoolTyped, AccountFacts
<1>3. n \in Nat /\ n \in 0..p.shares["holders"]
  BY <1>1, <1>2
<1> HIDE DEF n
<1>4. e \in Request /\ e.cumulativeStETH = LastStETH(p) + amount
      /\ e.cumulativeShares = LastShares(p) + n
  BY <1>1, <1>3, LastTyped, PoolTyped DEF Request
<1>5. /\ t \in Pool /\ t = [p EXCEPT !.shares = t.shares]
      /\ SumOver(t.shares, Accounts) = SumOver(p.shares, Accounts)
      /\ t.shares["queue"] = p.shares["queue"] + n
      /\ t.shares["burner"] = p.shares["burner"]
  <2>1. "holders" # "queue" /\ "burner" # "holders" /\ "burner" # "queue"
    OBVIOUS
  <2> QED
    BY <1>1, <1>2, <1>3, <2>1, TransferKeeps
<1>6. q = [t EXCEPT !.queue = Append(@, e)]
  BY DEF RequestWithdrawal, n
<1> HIDE DEF e
<1>7. /\ Growing(r) /\ r \in Seq(Request) /\ Len(r) = Len(p.queue) + 1
      /\ SharesIn(r, p.lastFinalized, Len(p.queue) + 1)
           = (IF p.lastFinalized = Len(p.queue)
              THEN 0
              ELSE SharesIn(p.queue, p.lastFinalized, Len(p.queue)))
             + e.cumulativeShares - LastShares(p)
  <2>1. e.cumulativeStETH >= LastStETH(p) /\ e.cumulativeShares >= LastShares(p)
    BY <1>1, <1>3, <1>4, LastTyped
  <2> QED
    BY <1>1, <1>4, <2>1, QueueGrows DEF Sound
<1> HIDE DEF r, q, t
<1>8. /\ q.queue = r /\ q.lastFinalized = p.lastFinalized
      /\ q.clValidators = p.clValidators /\ q.depositedValidators = p.depositedValidators
      /\ q.shares = t.shares /\ q.totalShares = p.totalShares
      /\ q.bufferedEther = p.bufferedEther /\ q.balance = p.balance
      /\ q.cover = p.cover /\ q.nonCover = p.nonCover
  <2>1. /\ t.queue = p.queue /\ t.lastFinalized = p.lastFinalized
        /\ t.clValidators = p.clValidators /\ t.depositedValidators = p.depositedValidators
        /\ t.totalShares = p.totalShares
        /\ t.bufferedEther = p.bufferedEther /\ t.balance = p.balance
        /\ t.cover = p.cover /\ t.nonCover = p.nonCover
    BY <1>1, <1>5 DEF Pool
  <2> QED
    BY <1>5, <1>6, <2>1 DEF Pool, r
<1>9. q \in Pool
  <2>1. q = [t EXCEPT !.queue = r]
    <3>1. t.queue = p.queue
      BY <1>1, <1>5 DEF Pool
    <3> QED
      BY <1>6, <3>1 DEF r
  <2> QED
    BY <1>5, <1>7, <2>1 DEF Pool
<1>10. p.lastFinalized \in Nat /\ Len(p.queue) \in Nat /\ p.lastFinalized <= Len(p.queue)
  BY PoolTyped DEF Sound
<1>11. q.shares["queue"] = SharesIn(q.queue, q.lastFinalized, Len(q.queue))
  <2>1. p.shares["queue"] = IF p.lastFinalized = Len(p.queue)
                            THEN 0
                            ELSE SharesIn(p.queue, p.lastFinalized, Len(p.queue))
    BY DEF Sound, Balanced
  <2>2. p.shares["queue"] \in Nat /\ LastShares(p) \in Nat
    BY <1>1, PoolTyped, LastTyped
  <2>3. SharesIn(r, p.lastFinalized, Len(p.queue) + 1)
          = p.shares["queue"] + e.cumulativeShares - LastShares(p)
    BY <1>7, <2>1, Zenon
  <2> QED
    BY <1>3, <1>4, <1>5, <1>7, <1>8, <2>2, <2>3
<1>12. q.lastFinalized # Len(q.queue)
  BY <1>7, <1>8, <1>10
<1> QED
  BY <1>5, <1>7, <1>8, <1>9, <1>10, <1>11, <1>12 DEF Sound, Balanced, q

\* The part of the requests that is waited for.
LEMMA UnfinalizedTyped ==
  ASSUME NEW p, Sound(p)
  PROVE  UnfinalizedStETH(p) \in Nat
<1>1. p \in Pool /\ p.queue \in Seq(Request) /\ Len(p.queue) \in Nat /\ p.lastFinalized \in Nat
      /\ p.lastFinalized <= Len(p.queue) /\ Growing(p.queue) /\ LastStETH(p) \in Nat
  BY PoolTyped, LastTyped DEF Sound
<1>2. CASE p.lastFinalized = 0
  BY <1>1, <1>2 DEF UnfinalizedStETH
<1>3. CASE p.lastFinalized # 0
  <2>1. p.lastFinalized \in 1..Len(p.queue) /\ Len(p.queue) \in 1..Len(p.queue)
    BY <1>1, <1>3
  <2>2. p.queue # << >>
    BY <1>1, <2>1, EmptySeq
  <2>3. LastStETH(p) = p.queue[Len(p.queue)].cumulativeStETH
    BY <2>2 DEF LastStETH
  <2>4. p.queue[p.lastFinalized].cumulativeStETH <= p.queue[Len(p.queue)].cumulativeStETH
    BY <1>1, <2>1 DEF Growing
  <2>5. p.queue[p.lastFinalized].cumulativeStETH \in Nat
    BY <1>1, <2>1, RequestTyped
  <2> QED
    BY <1>1, <1>3, <2>3, <2>4, <2>5 DEF UnfinalizedStETH
<1> QED
  BY <1>2, <1>3

\* Deposits take whole validators' worth out of the buffer, never what is
\* reserved for withdrawals.
LEMMA DepositSound ==
  ASSUME NEW p, Sound(p), NEW n \in 1..MaxDepositsCount(p)
  PROVE  Sound(Deposit(p, n))
<1> DEFINE q == Deposit(p, n)
           free == GetDepositableEther(p)
           cost == n * DEPOSIT_SIZE
<1>1. /\ p \in Pool /\ p.bufferedEther \in Nat /\ p.balance \in Nat
      /\ p.depositedValidators \in Nat /\ p.clValidators \in Nat
      /\ p.bufferedEther = p.balance
  BY PoolTyped DEF Sound, Balanced
<1>2. DEPOSIT_SIZE \in Nat \ {0}
  BY LidoAssumption
<1>3. free \in Nat /\ free <= p.bufferedEther
  BY <1>1, UnfinalizedTyped DEF GetDepositableEther
<1>4. MaxDepositsCount(p) = free \div DEPOSIT_SIZE
  BY DEF MaxDepositsCount
<1> HIDE DEF free
<1>5. free \div DEPOSIT_SIZE \in Nat /\ DEPOSIT_SIZE * (free \div DEPOSIT_SIZE) <= free
  BY <1>2, <1>3, Quotient
<1>6. n \in Nat /\ n <= free \div DEPOSIT_SIZE
  BY <1>4, <1>5
<1>7. cost \in Nat /\ cost <= free
  <2> DEFINE m == free \div DEPOSIT_SIZE
  <2>1. m \in Nat /\ DEPOSIT_SIZE * m <= free /\ n <= m
    BY <1>5, <1>6
  <2> HIDE DEF m
  <2>2. cost \in Nat /\ m * DEPOSIT_SIZE \in Nat /\ cost <= m * DEPOSIT_SIZE
    BY <1>2, <1>6, <2>1, ProductTyped, ProductMonotone
  <2>3. m * DEPOSIT_SIZE = DEPOSIT_SIZE * m
    BY <1>2, <2>1
  <2> HIDE DEF cost
  <2> QED
    BY <1>3, <2>1, <2>2, <2>3
<1>8. q = [p EXCEPT !.bufferedEther = @ - cost, !.balance = @ - cost, !.depositedValidators = @ + n]
  BY DEF Deposit
<1> HIDE DEF cost, q
<1>9. /\ p.bufferedEther - cost \in Nat /\ p.balance - cost \in Nat
      /\ p.depositedValidators + n \in Nat
  BY <1>1, <1>3, <1>6, <1>7
<1>10. /\ q.queue = p.queue /\ q.lastFinalized = p.lastFinalized
       /\ q.clValidators = p.clValidators /\ q.depositedValidators = p.depositedValidators + n
       /\ q.shares = p.shares /\ q.totalShares = p.totalShares
       /\ q.bufferedEther = p.bufferedEther - cost /\ q.balance = p.balance - cost
       /\ q.cover = p.cover /\ q.nonCover = p.nonCover
  BY <1>1, <1>8 DEF Pool
<1>11. q \in Pool
  BY <1>1, <1>8, <1>9 DEF Pool
<1> QED
  BY <1>1, <1>6, <1>10, <1>11 DEF Sound, Balanced, q

\* Rewards and withdrawals arrive in the vaults.
LEMMA VaultsSound ==
  ASSUME NEW p, Sound(p), NEW n \in Nat
  PROVE  Sound([p EXCEPT !.elVault = @ + n]) /\ Sound([p EXCEPT !.withdrawalVault = @ + n])
<1>1. p \in Pool /\ p.elVault + n \in Nat /\ p.withdrawalVault + n \in Nat
  BY PoolTyped DEF Sound
<1> DEFINE q == [p EXCEPT !.elVault = @ + n]
           r == [p EXCEPT !.withdrawalVault = @ + n]
<1>2. q \in Pool /\ r \in Pool
  BY <1>1 DEF Pool
<1>3. /\ q.queue = p.queue /\ q.lastFinalized = p.lastFinalized
      /\ q.clValidators = p.clValidators /\ q.depositedValidators = p.depositedValidators
      /\ q.shares = p.shares /\ q.totalShares = p.totalShares
      /\ q.bufferedEther = p.bufferedEther /\ q.balance = p.balance
      /\ q.cover = p.cover /\ q.nonCover = p.nonCover
  BY <1>1 DEF Pool
<1>4. /\ r.queue = p.queue /\ r.lastFinalized = p.lastFinalized
      /\ r.clValidators = p.clValidators /\ r.depositedValidators = p.depositedValidators
      /\ r.shares = p.shares /\ r.totalShares = p.totalShares
      /\ r.bufferedEther = p.bufferedEther /\ r.balance = p.balance
      /\ r.cover = p.cover /\ r.nonCover = p.nonCover
  BY <1>1 DEF Pool
<1> HIDE DEF q, r
<1>5. Sound(q)
  BY <1>2, <1>3 DEF Sound, Balanced
<1>6. Sound(r)
  BY <1>2, <1>4 DEF Sound, Balanced
<1> QED
  BY <1>5, <1>6 DEF q, r

\* Shares that move from an account to another leave the pool sound, when they are
\* neither the queue's nor asked to be burnt.
LEMMA TransferSound ==
  ASSUME NEW p, Sound(p), NEW from \in Accounts, NEW to \in Accounts, from # to,
         NEW n \in 0..p.shares[from],
         from # "queue", to # "queue",
         from = "burner" => n <= ExcessStETHShares(p)
  PROVE  Sound(TransferShares(p, from, to, n))
<1> DEFINE q == TransferShares(p, from, to, n)
<1>1. p \in Pool /\ "queue" \in Accounts /\ "burner" \in Accounts
  BY AccountFacts DEF Sound
<1>2. /\ p.shares["burner"] \in Nat /\ p.cover \in Nat /\ p.nonCover \in Nat /\ n \in Nat
      /\ p.shares["burner"] >= p.cover + p.nonCover
  <2>1. p.shares[from] \in Nat
    BY <1>1, PoolTyped
  <2> QED
    BY <1>1, <2>1, PoolTyped DEF Sound, Balanced
<1>3. /\ q \in Pool /\ q = [p EXCEPT !.shares = q.shares]
      /\ SumOver(q.shares, Accounts) = SumOver(p.shares, Accounts)
      /\ q.shares[from] = p.shares[from] - n /\ q.shares[to] = p.shares[to] + n
      /\ \A x \in Accounts : x # from /\ x # to => q.shares[x] = p.shares[x]
  BY <1>1, TransferKeeps
<1> HIDE DEF q
<1>4. /\ q.queue = p.queue /\ q.lastFinalized = p.lastFinalized
      /\ q.clValidators = p.clValidators /\ q.depositedValidators = p.depositedValidators
      /\ q.totalShares = p.totalShares
      /\ q.bufferedEther = p.bufferedEther /\ q.balance = p.balance
      /\ q.cover = p.cover /\ q.nonCover = p.nonCover
  BY <1>1, <1>3 DEF Pool
<1>5. q.shares["queue"] = p.shares["queue"]
  BY <1>1, <1>3
<1>6. q.shares["burner"] >= q.cover + q.nonCover
  <2>1. CASE from = "burner"
    <3>1. n <= p.shares["burner"] - (p.cover + p.nonCover)
      BY <2>1 DEF ExcessStETHShares
    <3> QED
      BY <1>2, <1>3, <1>4, <2>1, <3>1
  <2>2. CASE to = "burner"
    BY <1>2, <1>3, <1>4, <2>2
  <2>3. CASE from # "burner" /\ to # "burner"
    BY <1>1, <1>2, <1>3, <1>4, <2>3
  <2> QED
    BY <2>1, <2>2, <2>3
<1> QED
  BY <1>3, <1>4, <1>5, <1>6 DEF Sound, Balanced, q

\* Requests to burn are covered by the shares that come with them.
LEMMA BurnRequestSound ==
  ASSUME NEW p, Sound(p), NEW n \in 0..p.shares["holders"], NEW c \in BOOLEAN
  PROVE  Sound(RequestBurnShares(p, "holders", n, c))
<1> DEFINE t == TransferShares(p, "holders", "burner", n)
           q == RequestBurnShares(p, "holders", n, c)
<1>1. p \in Pool /\ "holders" \in Accounts /\ "burner" \in Accounts /\ "queue" \in Accounts
  BY AccountFacts DEF Sound
<1>2. n \in Nat /\ p.cover \in Nat /\ p.nonCover \in Nat /\ p.shares["burner"] \in Nat
      /\ p.shares["burner"] >= p.cover + p.nonCover
  BY <1>1, PoolTyped DEF Sound, Balanced
<1>3. /\ t \in Pool /\ t = [p EXCEPT !.shares = t.shares]
      /\ SumOver(t.shares, Accounts) = SumOver(p.shares, Accounts)
      /\ t.shares["burner"] = p.shares["burner"] + n /\ t.shares["queue"] = p.shares["queue"]
  <2>1. "holders" # "burner" /\ "queue" # "holders" /\ "queue" # "burner"
    OBVIOUS
  <2> QED
    BY <1>1, <2>1, TransferKeeps
<1>4. q = IF c THEN [t EXCEPT !.cover = @ + n] ELSE [t EXCEPT !.nonCover = @ + n]
  BY DEF RequestBurnShares
<1> HIDE DEF t, q
<1>5. /\ t.queue = p.queue /\ t.lastFinalized = p.lastFinalized
      /\ t.clValidators = p.clValidators /\ t.depositedValidators = p.depositedValidators
      /\ t.totalShares = p.totalShares
      /\ t.bufferedEther = p.bufferedEther /\ t.balance = p.balance
      /\ t.cover = p.cover /\ t.nonCover = p.nonCover
  BY <1>1, <1>3 DEF Pool
<1>6. t.cover + n \in Nat /\ t.nonCover + n \in Nat
  BY <1>2, <1>5
<1>7. /\ q \in Pool /\ q.queue = p.queue /\ q.lastFinalized = p.lastFinalized
      /\ q.clValidators = p.clValidators /\ q.depositedValidators = p.depositedValidators
      /\ q.totalShares = p.totalShares /\ q.shares = t.shares
      /\ q.bufferedEther = p.bufferedEther /\ q.balance = p.balance
      /\ q.cover + q.nonCover = p.cover + p.nonCover + n
  <2>1. CASE c
    <3>1. q = [t EXCEPT !.cover = @ + n]
      BY <1>4, <2>1
    <3>2. q \in Pool
      BY <1>3, <1>6, <3>1 DEF Pool
    <3>3. q.cover = t.cover + n /\ q.nonCover = t.nonCover
      BY <1>3, <3>1 DEF Pool
    <3>4. /\ q.queue = t.queue /\ q.lastFinalized = t.lastFinalized
          /\ q.clValidators = t.clValidators /\ q.depositedValidators = t.depositedValidators
          /\ q.totalShares = t.totalShares /\ q.shares = t.shares
          /\ q.bufferedEther = t.bufferedEther /\ q.balance = t.balance
      BY <1>3, <3>1 DEF Pool
    <3>5. q.cover + q.nonCover = p.cover + p.nonCover + n
      BY <1>2, <1>5, <3>3
    <3> QED
      BY <1>5, <3>2, <3>4, <3>5
  <2>2. CASE ~c
    <3>1. q = [t EXCEPT !.nonCover = @ + n]
      BY <1>4, <2>2
    <3>2. q \in Pool
      BY <1>3, <1>6, <3>1 DEF Pool
    <3>3. q.cover = t.cover /\ q.nonCover = t.nonCover + n
      BY <1>3, <3>1 DEF Pool
    <3>4. /\ q.queue = t.queue /\ q.lastFinalized = t.lastFinalized
          /\ q.clValidators = t.clValidators /\ q.depositedValidators = t.depositedValidators
          /\ q.totalShares = t.totalShares /\ q.shares = t.shares
          /\ q.bufferedEther = t.bufferedEther /\ q.balance = t.balance
      BY <1>3, <3>1 DEF Pool
    <3>5. q.cover + q.nonCover = p.cover + p.nonCover + n
      BY <1>2, <1>5, <3>3
    <3> QED
      BY <1>5, <3>2, <3>4, <3>5
  <2> QED
    BY <2>1, <2>2
<1>8. q.shares["burner"] >= q.cover + q.nonCover
  BY <1>2, <1>3, <1>7
<1> QED
  BY <1>3, <1>7, <1>8 DEF Sound, Balanced, q

\* The amount sent is rounded down twice, so that it is no more than the excess.
LEMMA RecoverSound ==
  ASSUME NEW p, Sound(p), TotalPooledEther(p) > 0, p.totalShares > 0
  PROVE  Sound(RecoverExcessStETH(p))
<1> DEFINE x == ExcessStETHShares(p)
           ether == TotalPooledEther(p)
           total == p.totalShares
           amount == (x * ether) \div total
           n == (amount * total) \div ether
<1>1. /\ p.shares["burner"] \in Nat /\ p.cover \in Nat /\ p.nonCover \in Nat /\ total \in Nat \ {0}
      /\ p.shares["burner"] >= p.cover + p.nonCover /\ p \in Pool
  BY PoolTyped DEF Sound, Balanced
<1>2. x \in Nat /\ x <= p.shares["burner"]
  BY <1>1 DEF ExcessStETHShares
<1>3. ether \in Nat \ {0}
  BY EtherTyped
<1>4. RecoverExcessStETH(p) = TransferShares(p, "burner", "treasury", n)
  BY DEF RecoverExcessStETH, GetSharesByPooledEth
<1> HIDE DEF x, ether, total
<1>5. x * ether \in Nat
  BY <1>2, <1>3, ProductTyped
<1>6. amount \in Nat /\ total * amount <= x * ether
  BY <1>1, <1>5, Quotient
<1> HIDE DEF amount
<1>7. amount * total \in Nat /\ amount * total <= x * ether
  BY <1>1, <1>6, ProductTyped
<1>8. n \in Nat /\ n <= (x * ether) \div ether
  BY <1>3, <1>5, <1>7, Quotient, QuotientMonotone
<1>9. (x * ether) \div ether = x
  BY <1>2, <1>3
<1> HIDE DEF n
<1>10. n \in 0..p.shares["burner"] /\ n <= ExcessStETHShares(p)
  BY <1>1, <1>2, <1>8, <1>9 DEF x
<1>11. /\ "burner" \in Accounts /\ "treasury" \in Accounts
       /\ "burner" # "treasury" /\ "burner" # "queue" /\ "treasury" # "queue"
  BY AccountFacts
<1>12. Sound(TransferShares(p, "burner", "treasury", n))
  BY <1>10, <1>11, TransferSound
<1> QED
  BY <1>4, <1>12

-------------------------------------------------------------------------------
\* Fees

ModuleActive == [m \in Modules |-> ModuleConfig[m].active]
ModuleFees == [m \in Modules |-> ModuleFee(m) + TreasuryFee(m)]
PaidFees == [m \in Modules |-> PaidFee(m)]

\* The modules' parts of the fee.
LEMMA ModulesTyped ==
  /\ IsFiniteSet(Modules) /\ TOTAL_BASIS_POINTS \in Nat \ {0} /\ FEE_PRECISION_POINTS \in Nat \ {0}
  /\ TotalActive \in Nat
  /\ \A m \in Modules :
       /\ ModuleActive[m] \in Nat /\ ModuleActive[m] = ModuleConfig[m].active
       /\ ModuleConfig[m].fee \in Nat /\ ModuleConfig[m].treasuryFee \in Nat
       /\ ModuleConfig[m].fee + ModuleConfig[m].treasuryFee <= TOTAL_BASIS_POINTS
<1>1. /\ IsFiniteSet(Modules) /\ TOTAL_BASIS_POINTS \in Nat \ {0}
      /\ FEE_PRECISION_POINTS \in Nat \ {0}
  BY LidoAssumption
<1>2. ASSUME NEW m \in Modules
      PROVE  /\ ModuleConfig[m].active \in Nat
             /\ ModuleConfig[m].fee \in 0..TOTAL_BASIS_POINTS
             /\ ModuleConfig[m].treasuryFee \in 0..TOTAL_BASIS_POINTS
             /\ ModuleConfig[m].fee + ModuleConfig[m].treasuryFee <= TOTAL_BASIS_POINTS
  <2>1. ModuleConfig[m] \in [active : Nat, fee : 0..TOTAL_BASIS_POINTS,
                             treasuryFee : 0..TOTAL_BASIS_POINTS, stopped : BOOLEAN]
    BY LidoAssumption
  <2> QED
    BY <2>1, LidoAssumption
<1>3. \A m \in Modules : ModuleActive[m] = ModuleConfig[m].active
  BY DEF ModuleActive
<1>4. TotalActive = SumOver(ModuleActive, Modules)
  BY DEF TotalActive, ModuleActive
<1>5. SumOver(ModuleActive, Modules) \in Nat
  <2>1. \A m \in Modules : ModuleActive[m] \in Int /\ ModuleActive[m] >= 0
    BY <1>2, <1>3
  <2> QED
    BY <1>1, <2>1, SumOverType
<1> QED
  BY <1>1, <1>2, <1>3, <1>4, <1>5

\* What a module and the treasury get for it is no more than its part.
LEMMA SplitWithin ==
  ASSUME TotalActive # 0, NEW m \in Modules
  PROVE  /\ ValidatorsShare(m) \in Nat /\ PaidFee(m) \in Nat
         /\ ModuleFee(m) \in Nat /\ TreasuryFee(m) \in Nat
         /\ PaidFee(m) <= ModuleFee(m) + TreasuryFee(m)
         /\ ModuleFee(m) + TreasuryFee(m) <= ValidatorsShare(m)
<1> DEFINE v == ValidatorsShare(m)
           a == ModuleConfig[m].active
           f == ModuleConfig[m].fee
           t == ModuleConfig[m].treasuryFee
           B == TOTAL_BASIS_POINTS
           F == FEE_PRECISION_POINTS
           x == (v * f) \div B
           y == (v * t) \div B
<1>1. a \in Nat /\ f \in Nat /\ t \in Nat /\ f + t <= B /\ B \in Nat \ {0} /\ F \in Nat
      /\ TotalActive \in Nat \ {0}
  BY ModulesTyped
<1>2. v = (a * F) \div TotalActive
  BY DEF ValidatorsShare
<1>3. ModuleFee(m) = x /\ TreasuryFee(m) = y /\ PaidFee(m) \in {0, x}
  BY DEF ModuleFee, TreasuryFee, PaidFee
<1> HIDE DEF v, a, f, t, B, F
<1>4. a * F \in Nat
  BY <1>1, ProductTyped
<1>5. v \in Nat
  BY <1>1, <1>2, <1>4, Quotient
<1>6. v * f \in Nat /\ v * t \in Nat
  BY <1>1, <1>5, ProductTyped
<1>7. x \in Nat /\ y \in Nat /\ B * x <= v * f /\ B * y <= v * t
  BY <1>1, <1>6, Quotient
<1> HIDE DEF x, y
<1>8. x + y <= v
  <2>1. v * (f + t) = v * f + v * t /\ B * (x + y) = B * x + B * y
    BY <1>1, <1>5, <1>7
  <2>2. (f + t) * v <= B * v
    BY <1>1, <1>5, ProductMonotone
  <2>3. B * (x + y) <= B * v
    BY <1>1, <1>5, <1>6, <1>7, <2>1, <2>2
  <2>4. x + y \in Nat
    BY <1>7
  <2> SUFFICES ASSUME x + y > v PROVE FALSE
    BY <1>5, <2>4
  <2>5. PICK d \in Nat : x + y = v + 1 + d
    BY <1>5, <2>4, (x + y) - (v + 1) \in Nat
  <2>6. B * (x + y) = B * v + B + B * d
    BY <1>1, <1>5, <2>5
  <2>7. B * d \in Nat /\ B * v \in Nat
    BY <1>1, <1>5, ProductTyped
  <2> QED
    BY <1>1, <2>3, <2>6, <2>7
<1> QED
  BY <1>3, <1>5, <1>7, <1>8 DEF v

\* The fees are no more than the whole, and what is paid to modules no more than the fees.
LEMMA FeesWithin ==
  /\ TotalFee \in Nat /\ TotalFee <= FEE_PRECISION_POINTS
  /\ TotalFee # 0 => /\ \A m \in Modules : PaidFees[m] \in Nat /\ PaidFees[m] = PaidFee(m)
                     /\ SumOver(PaidFees, Modules) <= TotalFee
<1>1. CASE TotalActive = 0
  BY <1>1, ModulesTyped DEF TotalFee
<1>2. CASE TotalActive # 0
  <2> DEFINE share == [m \in Modules |-> ValidatorsShare(m)]
  <2>1. TotalFee = SumOver(ModuleFees, Modules)
    BY <1>2 DEF TotalFee, ModuleFees
  <2>2. SumOver(share, Modules) \in Nat /\ SumOver(share, Modules) <= FEE_PRECISION_POINTS
    <3> DEFINE S == Modules
               w == ModuleActive
               amount == FEE_PRECISION_POINTS
               total == TotalActive
    <3>1. IsFiniteSet(S) /\ amount \in Nat /\ total \in Nat \ {0}
      BY <1>2, ModulesTyped
    <3>2. ASSUME NEW m \in S PROVE w[m] \in Nat /\ share[m] = (amount * w[m]) \div total
      <4>1. /\ w[m] \in Nat /\ share[m] = (ModuleConfig[m].active * amount) \div total
            /\ ModuleConfig[m].active = w[m]
        BY ModulesTyped DEF ValidatorsShare
      <4>2. w[m] * amount = amount * w[m]
        BY <3>1, <4>1
      <4> HIDE DEF w, amount, total, share
      <4> QED
        BY <4>1, <4>2
    <3>3. SumOver(w, S) <= total
      <4>1. TotalActive = SumOver(ModuleActive, Modules)
        BY DEF TotalActive, ModuleActive
      <4> QED
        BY <4>1, ModulesTyped
    <3> HIDE DEF S, w, amount, total, share
    <3>4. SumOver(share, S) \in Nat /\ SumOver(share, S) <= amount
      BY <3>1, <3>2, <3>3, SumOverParts
    <3> QED
      BY <3>4 DEF S, amount
  <2>3. ASSUME NEW m \in Modules
        PROVE  /\ ModuleFees[m] \in Nat /\ share[m] \in Nat /\ PaidFees[m] \in Nat
               /\ PaidFees[m] <= ModuleFees[m] /\ ModuleFees[m] <= share[m]
               /\ PaidFees[m] = PaidFee(m)
    BY <1>2, SplitWithin DEF ModuleFees, PaidFees
  <2> HIDE DEF share
  <2>4. IsFiniteSet(Modules)
    BY ModulesTyped
  <2>5. SumOver(ModuleFees, Modules) \in Nat
    <3>1. \A m \in Modules : ModuleFees[m] \in Int /\ ModuleFees[m] >= 0
      BY <2>3
    <3> QED
      BY <2>4, <3>1, SumOverType
  <2>6. SumOver(ModuleFees, Modules) <= SumOver(share, Modules)
    <3>1. \A m \in Modules : ModuleFees[m] \in Int /\ share[m] \in Int /\ ModuleFees[m] <= share[m]
      BY <2>3
    <3> QED
      BY <2>4, <3>1, SumOverMonotone
  <2>7. SumOver(PaidFees, Modules) <= SumOver(ModuleFees, Modules)
    <3>1. \A m \in Modules : ModuleFees[m] \in Int /\ PaidFees[m] \in Int
                             /\ PaidFees[m] <= ModuleFees[m]
      BY <2>3
    <3> QED
      BY <2>4, <3>1, SumOverMonotone
  <2>8. FEE_PRECISION_POINTS \in Nat
    BY ModulesTyped
  <2> QED
    BY <2>1, <2>2, <2>3, <2>5, <2>6, <2>7, <2>8
<1> QED
  BY <1>1, <1>2

\* The shares minted for a reward are a number: the fee is never the whole pool.
LEMMA MintTyped ==
  ASSUME NEW ether \in Nat \ {0}, NEW total \in Nat, NEW rewards \in Nat
  PROVE  SharesToMint(ether, total, rewards) \in Nat
<1> DEFINE F == FEE_PRECISION_POINTS
           x == rewards * TotalFee * total
           den == (ether + rewards) * F - rewards * TotalFee
<1>1. F \in Nat \ {0} /\ TotalFee \in Nat /\ TotalFee <= F
  BY FeesWithin, ModulesTyped
<1>2. SharesToMint(ether, total, rewards) = x \div den
  BY DEF SharesToMint
<1> HIDE DEF F
<1>3. rewards * TotalFee \in Nat
  BY <1>1, ProductTyped
<1>4. x \in Nat
  BY <1>3, ProductTyped
<1>5. TotalFee * rewards <= F * rewards
  BY <1>1, ProductMonotone
<1>6. (ether + rewards) * F = ether * F + F * rewards /\ rewards * TotalFee = TotalFee * rewards
  BY <1>1
<1>7. ether * F \in Nat \ {0} /\ F * rewards \in Nat
  BY <1>1
<1>8. den \in Nat \ {0}
  BY <1>3, <1>5, <1>6, <1>7
<1> HIDE DEF x, den
<1> QED
  BY <1>2, <1>4, <1>8, Quotient

\* What each account gets of the shares that are minted.
ModuleReward(minted) == [m \in Modules |-> (minted * PaidFee(m)) \div TotalFee]

Reward(minted) ==
  [a \in Accounts |-> IF a \in Modules
                      THEN ModuleReward(minted)[a]
                      ELSE IF a = "treasury"
                           THEN TreasuryReward(minted, ModuleReward(minted))
                           ELSE 0]

\* It is all of them, to the last share.
LEMMA RewardsAddUp ==
  ASSUME NEW minted \in Nat, TotalFee # 0
  PROVE  /\ \A a \in Accounts : Reward(minted)[a] \in Nat
         /\ Reward(minted)["queue"] = 0 /\ Reward(minted)["burner"] = 0
         /\ SumOver(Reward(minted), Accounts) = minted
<1> DEFINE v == ModuleReward(minted)
           treasury == TreasuryReward(minted, v)
           r == Reward(minted)
           s == [a \in Accounts |-> IF a \in Modules THEN v[a] ELSE 0]
<1>1. TotalFee \in Nat \ {0} /\ IsFiniteSet(Modules) /\ IsFiniteSet(Accounts)
  BY FeesWithin, ModulesTyped, AccountFacts
<1>2. /\ \A m \in Modules : v[m] \in Nat
      /\ SumOver(v, Modules) \in Nat /\ SumOver(v, Modules) <= minted
  <2> DEFINE w == PaidFees
             total == TotalFee
  <2>1. \A m \in Modules : w[m] \in Nat /\ v[m] = (minted * w[m]) \div total
    BY FeesWithin DEF ModuleReward
  <2>2. SumOver(w, Modules) <= total
    BY FeesWithin
  <2>3. total \in Nat \ {0}
    BY <1>1
  <2> HIDE DEF w, total, v
  <2> QED
    BY <1>1, <2>1, <2>2, <2>3, SumOverParts
<1>3. treasury = minted - SumOver(v, Modules)
  BY DEF TreasuryReward
<1>4. r = [a \in Accounts |-> IF a \in Modules THEN v[a]
                              ELSE IF a = "treasury" THEN treasury ELSE 0]
  BY DEF Reward
<1> HIDE DEF v, treasury, r
<1>5. treasury \in Nat /\ treasury + SumOver(v, Modules) = minted
  BY <1>2, <1>3
<1>6. /\ \A a \in Accounts : r[a] \in Nat /\ s[a] \in Nat
      /\ \A a \in Accounts : a # "treasury" => s[a] = r[a]
      /\ r["treasury"] = treasury /\ s["treasury"] = 0 /\ "treasury" \in Accounts
      /\ r["queue"] = 0 /\ r["burner"] = 0
      /\ \A a \in Accounts : a \notin Modules => s[a] = 0
      /\ \A a \in Modules : s[a] = v[a]
  BY <1>2, <1>4, <1>5, AccountFacts
<1> HIDE DEF s
<1>7. SumOver(r, Accounts) = SumOver(s, Accounts) + r["treasury"] - s["treasury"]
  <2> DEFINE y == "treasury"
  <2>1. /\ \A a \in Accounts : s[a] \in Int /\ r[a] \in Int
        /\ \A a \in Accounts : a # y => s[a] = r[a]
        /\ y \in Accounts
    BY <1>6
  <2> HIDE DEF y
  <2>2. SumOver(r, Accounts) = SumOver(s, Accounts) + r[y] - s[y]
    BY <1>1, <2>1, SumOverUpdate
  <2> QED
    BY <2>2 DEF y
<1>8. SumOver(s, Accounts) = SumOver(s, Modules)
  <2>1. Modules \in SUBSET Accounts /\ \A a \in Accounts : s[a] \in Int
    BY <1>6, AccountFacts
  <2> QED
    BY <1>1, <1>6, <2>1, SumOverSubset
<1>9. SumOver(s, Modules) = SumOver(v, Modules)
  <2>1. \A m \in Modules : s[m] \in Int /\ s[m] = v[m]
    BY <1>2, <1>6
  <2> QED
    BY <1>1, <2>1, SumOverSame
<1>10. SumOver(r, Accounts) = minted
  BY <1>2, <1>5, <1>6, <1>7, <1>8, <1>9
<1> QED
  BY <1>6, <1>10 DEF r

\* Shares move, and the ether and the mode stay as they are.
SameEther(p, q) ==
  /\ q.bufferedEther = p.bufferedEther /\ q.clBalance = p.clBalance
  /\ q.clValidators = p.clValidators /\ q.depositedValidators = p.depositedValidators
  /\ q.lockedEther = p.lockedEther /\ q.bunker = p.bunker

\* A fee is minted and given out, and nothing else changes.
LEMMA DistributeSound ==
  ASSUME NEW p, Sound(p), NEW ether \in Nat \ {0}, NEW total \in Nat, NEW rewards \in Nat
  PROVE  /\ Sound(DistributeFee(p, ether, total, rewards))
         /\ SameEther(p, DistributeFee(p, ether, total, rewards))
         /\ p.totalShares <= DistributeFee(p, ether, total, rewards).totalShares
<1> DEFINE q == DistributeFee(p, ether, total, rewards)
           minted == SharesToMint(ether, total, rewards)
           g == [a \in Accounts |-> p.shares[a] + Reward(minted)[a]]
<1>1. minted \in Nat /\ p \in Pool /\ p.totalShares \in Nat /\ p.shares \in [Accounts -> Nat]
      /\ "queue" \in Accounts /\ "burner" \in Accounts
  BY MintTyped, PoolTyped, AccountFacts DEF Sound
<1>2. CASE TotalFee = 0
  <2>1. q = p
    BY <1>2 DEF DistributeFee
  <2> HIDE DEF q
  <2> QED
    BY <1>1, <2>1 DEF SameEther, q
<1>3. CASE TotalFee # 0
  <2>1. q = [p EXCEPT !.totalShares = @ + minted, !.shares = g]
    <3> DEFINE h == [a \in Accounts |->
                       p.shares[a] + (IF a \in Modules THEN ModuleReward(minted)[a]
                                      ELSE IF a = "treasury"
                                           THEN TreasuryReward(minted, ModuleReward(minted))
                                           ELSE 0)]
    <3>1. q = [p EXCEPT !.totalShares = @ + minted, !.shares = h]
      BY <1>3, Zenon DEF DistributeFee, ModuleReward
    <3>2. \A a \in Accounts : h[a] = g[a]
      BY DEF Reward
    <3>3. h = g
      BY <3>2
    <3> HIDE DEF q, h, g
    <3> QED
      BY <3>1, <3>3
  <2> DEFINE r == Reward(minted)
  <2>2. /\ \A a \in Accounts : r[a] \in Nat
        /\ r["queue"] = 0 /\ r["burner"] = 0 /\ SumOver(r, Accounts) = minted
    <3> HIDE DEF minted
    <3> QED
      BY <1>1, <1>3, RewardsAddUp
  <2> HIDE DEF minted, r, q
  <2>3. /\ g \in [Accounts -> Nat] /\ \A a \in Accounts : g[a] = p.shares[a] + r[a]
        /\ g["queue"] = p.shares["queue"] /\ g["burner"] = p.shares["burner"]
    BY <1>1, <2>2 DEF r
  <2> HIDE DEF g
  <2>4. SumOver(g, Accounts) = SumOver(p.shares, Accounts) + minted
    <3> DEFINE f == p.shares
    <3>1. \A a \in Accounts : f[a] \in Int /\ g[a] \in Int /\ r[a] \in Int /\ r[a] = g[a] - f[a]
      BY <1>1, <2>2, <2>3
    <3> HIDE DEF f
    <3>2. SumOver(g, Accounts) = SumOver(f, Accounts) + SumOver(r, Accounts)
      BY <3>1, AccountFacts, SumOverDifference
    <3> QED
      BY <2>2, <3>2 DEF f
  <2>5. q.totalShares = p.totalShares + minted /\ q.shares = g
    BY <1>1, <2>1 DEF Pool
  <2>6. /\ q.queue = p.queue /\ q.lastFinalized = p.lastFinalized
        /\ q.clValidators = p.clValidators /\ q.depositedValidators = p.depositedValidators
        /\ q.bufferedEther = p.bufferedEther /\ q.balance = p.balance
        /\ q.cover = p.cover /\ q.nonCover = p.nonCover
        /\ SameEther(p, q)
    BY <1>1, <2>1 DEF Pool, SameEther
  <2>7. q \in Pool
    <3>1. p.totalShares + minted \in Nat
      BY <1>1
    <3> QED
      BY <1>1, <2>1, <2>3, <3>1 DEF Pool
  <2>8. p.totalShares <= q.totalShares
    BY <1>1, <2>5
  <2>9. Sound(q)
    BY <2>3, <2>4, <2>5, <2>6, <2>7 DEF Sound, Balanced
  <2> QED
    BY <2>6, <2>8, <2>9 DEF q
<1> QED
  BY <1>2, <1>3

-------------------------------------------------------------------------------
\* The rebase limiter in a report

\* A limiter, of a pool that is not empty, that may be unlimited.
AnyLimiter == [preTotalPooledEther : Nat \ {0}, preTotalShares : Nat,
               positiveRebaseLimit : Nat \ {0}]

\* Whatever the limit: no more than there is, and than is asked for.
LEMMA SmoothenTyped ==
  ASSUME NEW l \in AnyLimiter, NEW preCL \in Nat, NEW postCL \in Nat,
         NEW withdrawalVault \in Nat, NEW elVault \in Nat,
         NEW toBurn \in Nat, NEW toLock \in Nat, NEW newToBurn \in Nat,
         ~SmoothenTokenRebase(l, preCL, postCL, withdrawalVault, elVault,
                              toBurn, toLock, newToBurn).negative
  PROVE  LET s == SmoothenTokenRebase(l, preCL, postCL, withdrawalVault, elVault,
                                      toBurn, toLock, newToBurn)
         IN /\ s.withdrawals \in 0..withdrawalVault /\ s.elRewards \in 0..elVault
            /\ s.sharesToBurn \in 0..newToBurn + toBurn
<1> DEFINE s == SmoothenTokenRebase(l, preCL, postCL, withdrawalVault, elVault,
                                    toBurn, toLock, newToBurn)
<1>1. PICK limit : s.sharesToBurn = Least(limit, newToBurn + toBurn)
  BY DEF SmoothenTokenRebase
<1>2. CASE IsUnlimited(l)
  <2>1. s.withdrawals = withdrawalVault /\ s.elRewards = elVault
    BY <1>2 DEF SmoothenTokenRebase, Consumed
  <2>2. l.preTotalShares \in Nat
    BY DEF AnyLimiter
  <2>3. s.sharesToBurn = Least(l.preTotalShares, newToBurn + toBurn)
    BY <1>2 DEF SmoothenTokenRebase, GetSharesToBurnLimit
  <2> HIDE DEF s
  <2>4. s.sharesToBurn \in 0..newToBurn + toBurn
    BY <2>2, <2>3 DEF Least
  <2>5. withdrawalVault \in 0..withdrawalVault /\ elVault \in 0..elVault
    OBVIOUS
  <2> QED
    BY <2>1, <2>4, <2>5 DEF s
<1>3. CASE ~IsUnlimited(l)
  <2>1. l \in Limiter
    BY <1>3 DEF AnyLimiter, Limiter, IsUnlimited
  <2>2. /\ s.withdrawals \in 0..withdrawalVault /\ s.elRewards \in 0..elVault
        /\ s.sharesToBurn \in 0..l.preTotalShares
    BY <2>1, RebaseStaysWithinLimit
  <2>3. l.preTotalShares \in Nat
    BY DEF AnyLimiter
  <2> HIDE DEF s
  <2>4. s.sharesToBurn \in 0..newToBurn + toBurn
    <3>1. s.sharesToBurn \in Nat /\ newToBurn + toBurn \in Nat
      BY <2>2, <2>3
    <3>2. s.sharesToBurn <= newToBurn + toBurn
      <4>1. CASE limit <= newToBurn + toBurn
        BY <1>1, <3>1, <4>1 DEF Least
      <4>2. CASE ~(limit <= newToBurn + toBurn)
        BY <1>1, <3>1, <4>2 DEF Least
      <4> QED
        BY <4>1, <4>2
    <3> QED
      BY <3>1, <3>2
  <2> QED
    BY <2>2, <2>4 DEF s
<1> QED
  BY <1>2, <1>3

-------------------------------------------------------------------------------
\* Numbers that grow from each to the next.
LEMMA Ascending ==
  ASSUME NEW n \in Nat, NEW at, \A k \in 0..n : at[k] \in Int,
         \A k \in 1..n : at[k - 1] < at[k],
         NEW i \in 0..n, NEW j \in i..n
  PROVE  at[i] <= at[j]
<1> DEFINE low == [k \in i..n |-> at[i]]
<1>1. /\ i \in Nat /\ i <= n /\ at[i] \in Int
      /\ \A k \in i..n : low[k] = at[i]
  OBVIOUS
<1> HIDE DEF low
<1>2. /\ \A k \in i..n : low[k] \in Int /\ at[k] \in Int
      /\ low[i] <= at[i]
  BY <1>1
<1>3. ASSUME NEW k \in i + 1..n PROVE low[k] - low[k - 1] <= at[k] - at[k - 1]
  <2>1. k \in 1..n /\ k \in 0..n /\ k - 1 \in 0..n /\ k \in i..n /\ k - 1 \in i..n
    OBVIOUS
  <2>2. low[k] - low[k - 1] = 0 /\ at[k - 1] < at[k] /\ at[k] \in Int /\ at[k - 1] \in Int
    BY <1>1, <2>1
  <2> QED
    BY <2>2
<1>4. \A k \in i..n : low[k] <= at[k]
  BY <1>1, <1>2, <1>3, Telescope
<1> QED
  BY <1>1, <1>4

\* Batches end at requests of the queue after the last one finalized, in order.
LEMMA BatchesInQueue ==
  ASSUME NEW fin \in Nat, NEW batches \in Seq(Nat), batches # << >>,
         \A n \in DOMAIN batches : batches[n] > BatchStart(fin, batches, n)
  PROVE  LET last == batches[Len(batches)]
         IN /\ last \in Nat /\ fin < last
            /\ \A n \in DOMAIN batches :
                 /\ BatchStart(fin, batches, n) \in 0..last /\ batches[n] \in 1..last
                 /\ BatchStart(fin, batches, n) <= batches[n]
<1> DEFINE N == Len(batches)
           last == batches[N]
           at == [i \in 0..N |-> IF i = 0 THEN fin ELSE batches[i]]
<1>1. /\ N \in Nat /\ N # 0 /\ DOMAIN batches = 1..N
      /\ \A i \in 1..N : batches[i] \in Nat
  BY LenProperties, EmptySeq, ElementOfSeq
<1>2. ASSUME NEW i \in 1..N
      PROVE  /\ BatchStart(fin, batches, i) = at[i - 1] /\ batches[i] = at[i]
             /\ at[i - 1] < at[i]
  <2>1. i - 1 \in 0..N /\ i \in 0..N /\ i # 0 /\ (i = 1 <=> i - 1 = 0)
    BY <1>1
  <2>2. BatchStart(fin, batches, i) = at[i - 1] /\ batches[i] = at[i]
    BY <2>1 DEF BatchStart
  <2>3. BatchStart(fin, batches, i) < batches[i]
    <3>1. batches[i] > BatchStart(fin, batches, i)
      BY <1>1
    <3>2. batches[i] \in Int /\ BatchStart(fin, batches, i) \in Int
      BY <1>1, <2>1, <2>2
    <3> QED
      BY <3>1, <3>2
  <2> HIDE DEF at
  <2> QED
    BY <2>2, <2>3
<1>3. /\ \A i \in 0..N : at[i] \in Int /\ at[i] >= 0
      /\ at[N] = last /\ at[0] = fin /\ last \in Nat
  BY <1>1
<1> HIDE DEF at, last
<1>4. ASSUME NEW i \in 0..N PROVE at[i] <= last
  <2>1. N \in i..N
    BY <1>1
  <2> QED
    BY <1>1, <1>2, <1>3, <2>1, Ascending
<1>5. fin < last
  <2>1. 1 \in 0..N /\ 1 \in 1..N /\ 1 - 1 = 0
    BY <1>1
  <2>2. at[0] < at[1] /\ at[1] <= last /\ at[1] \in Int
    BY <1>2, <1>3, <1>4, <2>1
  <2> QED
    BY <1>3, <2>2
<1>6. ASSUME NEW i \in 1..N
      PROVE  /\ BatchStart(fin, batches, i) \in 0..last /\ batches[i] \in 1..last
             /\ BatchStart(fin, batches, i) <= batches[i]
  <2>1. i - 1 \in 0..N /\ i \in 0..N
    BY <1>1
  <2>2. at[i - 1] \in Int /\ at[i] \in Int /\ at[i - 1] >= 0 /\ at[i] <= last /\ at[i - 1] < at[i]
    BY <1>2, <1>3, <1>4, <2>1
  <2> QED
    BY <1>2, <1>3, <2>2
<1> QED
  BY <1>1, <1>3, <1>5, <1>6 DEF last, N

\* The ether for them is a number.
LEMMA LockTyped ==
  ASSUME NEW q \in Seq(Request), Growing(q), NEW fin \in Nat, NEW rate \in Nat,
         NEW batches \in Seq(Nat), batches # << >>, batches[Len(batches)] <= Len(q),
         \A n \in DOMAIN batches : batches[n] > BatchStart(fin, batches, n)
  PROVE  Prefinalize(q, fin, batches, rate) \in Nat
<1> DEFINE N == Len(batches)
           p == [n \in 1..N |-> EtherFor(q, BatchStart(fin, batches, n), batches[n], rate)]
           last == batches[N]
<1>1. N \in Nat /\ DOMAIN batches = 1..N /\ Len(q) \in Nat
  BY LenProperties
<1>2. /\ last \in Nat
      /\ \A n \in 1..N :
           /\ BatchStart(fin, batches, n) \in 0..last /\ batches[n] \in 1..last
           /\ BatchStart(fin, batches, n) <= batches[n]
  BY <1>1, BatchesInQueue
<1>3. ASSUME NEW n \in 1..N PROVE p[n] \in Nat
  <2> DEFINE pre == BatchStart(fin, batches, n)
             end == batches[n]
  <2>1. p[n] = EtherFor(q, pre, end, rate)
    OBVIOUS
  <2>2. last <= Len(q)
    OBVIOUS
  <2>3. pre \in 0..last /\ end \in 1..last /\ pre <= end
    BY <1>2
  <2> HIDE DEF p, pre, end, last
  <2>4. pre \in 0..Len(q) /\ end \in 1..Len(q)
    BY <1>1, <1>2, <2>2, <2>3
  <2>5. EtherFor(q, pre, end, rate) \in Nat
    BY <2>3, <2>4, PriceTyped
  <2> QED
    BY <2>1, <2>5
<1>4. Prefinalize(q, fin, batches, rate) = Sum(p)
  BY <1>1 DEF Prefinalize
<1>5. p \in [1..N -> Int] /\ \A n \in 1..N : p[n] >= 0
  <2>1. p = [n \in 1..N |-> p[n]]
    OBVIOUS
  <2> HIDE DEF p
  <2> QED
    BY <1>3, <2>1
<1> HIDE DEF p
<1> QED
  BY <1>1, <1>4, <1>5, SumNat

-------------------------------------------------------------------------------
\* A report, part by part

ReportType == [refSlot : Nat, numValidators : Nat, clBalance : Int, withdrawalVaultBalance : Nat,
               elRewardsVaultBalance : Nat, sharesRequestedToBurn : Nat, batches : Seq(Nat),
               rate : Nat, bunker : BOOLEAN]

\* What a report finalizes: some of the queue's shares, all but those of the
\* requests that stay.
LEMMA FinalizedTyped ==
  ASSUME NEW p, Sound(p), NEW r \in ReportType, BatchesAccepted(p, r)
  PROVE  /\ EtherToLock(p, r) \in Nat /\ SharesToFinalize(p, r) \in 0..p.shares["queue"]
         /\ r.batches = << >> => EtherToLock(p, r) = 0 /\ SharesToFinalize(p, r) = 0
         /\ r.batches # << >> =>
              /\ LastBatch(r) \in Nat /\ LastBatch(r) <= Len(p.queue)
              /\ p.shares["queue"] - SharesToFinalize(p, r)
                   = IF LastBatch(r) = Len(p.queue)
                     THEN 0
                     ELSE SharesIn(p.queue, LastBatch(r), Len(p.queue))
<1> DEFINE q == p.queue
           L == Len(q)
           fin == p.lastFinalized
           held == p.shares["queue"]
<1>1. /\ q \in Seq(Request) /\ Growing(q) /\ fin \in Nat /\ fin <= L /\ L \in Nat /\ held \in Nat
      /\ held = IF fin = L THEN 0 ELSE SharesIn(q, fin, L)
      /\ r.batches \in Seq(Nat) /\ r.rate \in Nat
  BY PoolTyped DEF Sound, Balanced, ReportType
<1>2. CASE r.batches = << >>
  <2>1. EtherToLock(p, r) = 0 /\ SharesToFinalize(p, r) = 0
    BY <1>2 DEF EtherToLock, SharesToFinalize
  <2> QED
    BY <1>1, <1>2, <2>1
<1>3. CASE r.batches # << >>
  <2> DEFINE B == r.batches
             last == LastBatch(r)
  <2>1. /\ last <= L
        /\ \A n \in DOMAIN B : B[n] > BatchStart(fin, B, n)
        /\ last = B[Len(B)]
    BY <1>3 DEF BatchesAccepted, LastBatch
  <2>2. /\ EtherToLock(p, r) = Prefinalize(q, fin, B, r.rate)
        /\ SharesToFinalize(p, r) = SharesIn(q, fin, last)
    BY <1>3 DEF EtherToLock, SharesToFinalize
  <2> DEFINE rate == r.rate
  <2>3. B \in Seq(Nat) /\ B # << >> /\ rate \in Nat
    BY <1>1, <1>3
  <2> HIDE DEF q, L, fin, held, B, last, rate
  <2>4. last \in Nat /\ fin < last
    BY <1>1, <2>1, <2>3, BatchesInQueue
  <2>5. Prefinalize(q, fin, B, rate) \in Nat
    BY <1>1, <2>1, <2>3, LockTyped DEF L
  <2>6. SharesIn(q, fin, last) \in Nat /\ SharesIn(q, last, L) \in Nat
        /\ SharesIn(q, fin, L) = SharesIn(q, fin, last) + SharesIn(q, last, L)
    <3>1. fin \in 0..L /\ last \in 0..L /\ last \in 1..L /\ L \in 1..L /\ fin <= last
      BY <1>1, <2>1, <2>4
    <3>2. SharesIn(q, fin, last) \in Nat /\ SharesIn(q, last, L) \in Nat
      BY <1>1, <2>1, <3>1, RangeIn DEF L
    <3>3. SharesIn(q, fin, L) = SharesIn(q, fin, last) + SharesIn(q, last, L)
      BY <1>1, <3>1, RangeSplit DEF L
    <3> QED
      BY <3>2, <3>3
  <2>7. held = SharesIn(q, fin, last) + SharesIn(q, last, L)
    BY <1>1, <2>1, <2>4, <2>6
  <2>8. last = L => SharesIn(q, last, L) = 0
    <3> SUFFICES ASSUME last = L PROVE SharesIn(q, L, L) = 0
      OBVIOUS
    <3>1. L \in 1..L /\ L # 0
      BY <1>1, <2>4
    <3>2. q[L].cumulativeShares \in Nat
      BY <1>1, <3>1, RequestTyped DEF L
    <3> QED
      BY <3>1, <3>2 DEF SharesIn
  <2>9. /\ SharesIn(q, fin, last) \in 0..held
        /\ held - SharesIn(q, fin, last) = IF last = L THEN 0 ELSE SharesIn(q, last, L)
    BY <1>1, <2>6, <2>7, <2>8
  <2> QED
    BY <1>3, <2>1, <2>2, <2>4, <2>5, <2>9 DEF q, L, fin, held, B, last, rate
<1> QED
  BY <1>2, <1>3

\* Asking for the shares of finalized requests to be burnt.
LEMMA BurnMoves ==
  ASSUME NEW p \in Pool, NEW r \in ReportType,
         SharesToFinalize(p, r) \in 0..p.shares["queue"]
  PROVE  LET q == BurnRequested(p, r)
             n == SharesToFinalize(p, r)
         IN /\ q \in Pool /\ q = [p EXCEPT !.shares = q.shares, !.nonCover = @ + n]
            /\ SumOver(q.shares, Accounts) = SumOver(p.shares, Accounts)
            /\ q.shares["queue"] = p.shares["queue"] - n
            /\ q.shares["burner"] = p.shares["burner"] + n
<1> DEFINE q == BurnRequested(p, r)
           n == SharesToFinalize(p, r)
           t == TransferShares(p, "queue", "burner", n)
<1>1. /\ n \in Nat /\ p.shares["queue"] \in Nat /\ p.shares["burner"] \in Nat /\ p.nonCover \in Nat
      /\ "queue" \in Accounts /\ "burner" \in Accounts /\ "queue" # "burner"
  BY PoolTyped, AccountFacts
<1>2. CASE n = 0
  <2>1. q = p
    BY <1>2 DEF BurnRequested
  <2>2. p = [p EXCEPT !.shares = p.shares, !.nonCover = @ + 0]
    <3>1. p.nonCover + 0 = p.nonCover
      BY <1>1
    <3>2. p = [p EXCEPT !.shares = p.shares, !.nonCover = p.nonCover]
      BY DEF Pool
    <3> QED
      BY <3>1, <3>2
  <2> HIDE DEF n, q
  <2> QED
    BY <1>1, <1>2, <2>1, <2>2 DEF n, q
<1>3. CASE n # 0
  <2>1. q = [t EXCEPT !.nonCover = @ + n]
    BY <1>3 DEF BurnRequested, RequestBurnShares
  <2>2. n \in 0..p.shares["queue"]
    OBVIOUS
  <2> HIDE DEF n
  <2>3. /\ t \in Pool /\ t = [p EXCEPT !.shares = t.shares]
        /\ SumOver(t.shares, Accounts) = SumOver(p.shares, Accounts)
        /\ t.shares["queue"] = p.shares["queue"] - n
        /\ t.shares["burner"] = p.shares["burner"] + n
    BY <1>1, <2>2, TransferKeeps
  <2> HIDE DEF t, q
  <2>4. t.nonCover = p.nonCover
    BY <2>3 DEF Pool
  <2>5. t.nonCover + n \in Nat
    BY <1>1, <2>4
  <2>6. q.shares = t.shares /\ q \in Pool
    BY <2>1, <2>3, <2>5 DEF Pool
  <2>7. q = [p EXCEPT !.shares = t.shares, !.nonCover = @ + n]
    BY <2>1, <2>3, <2>4 DEF Pool
  <2> QED
    BY <2>3, <2>6, <2>7 DEF n, q
<1> QED
  BY <1>2, <1>3

\* Burning what was asked for, and no more.
LEMMA CommitKeeps ==
  ASSUME NEW p \in Pool, NEW n \in 0..p.cover + p.nonCover,
         p.shares["burner"] >= p.cover + p.nonCover,
         p.totalShares = SumOver(p.shares, Accounts)
  PROVE  LET q == CommitSharesToBurn(p, n)
         IN /\ q \in Pool
            /\ q = [p EXCEPT !.shares = q.shares, !.totalShares = @ - n,
                             !.cover = q.cover, !.nonCover = q.nonCover]
            /\ q.totalShares = SumOver(q.shares, Accounts)
            /\ q.shares["queue"] = p.shares["queue"]
            /\ q.shares["burner"] >= q.cover + q.nonCover
<1> DEFINE q == CommitSharesToBurn(p, n)
           f == p.shares
           g == [f EXCEPT !["burner"] = @ - n]
           c == Least(n, p.cover)
<1>1. /\ f \in [Accounts -> Nat] /\ f["burner"] \in Nat /\ p.cover \in Nat /\ p.nonCover \in Nat
      /\ p.totalShares \in Nat /\ f["burner"] >= p.cover + p.nonCover
      /\ "queue" \in Accounts /\ "burner" \in Accounts /\ "queue" # "burner"
  BY PoolTyped, AccountFacts
<1>2. n \in Nat /\ n <= p.cover + p.nonCover
  BY <1>1
<1>3. c \in 0..p.cover /\ n - c \in 0..p.nonCover /\ p.cover - c \in Nat
      /\ p.nonCover - (n - c) \in Nat
  BY <1>1, <1>2 DEF Least
<1>4. q = [p EXCEPT !.shares = g, !.totalShares = @ - n,
                    !.cover = @ - c, !.nonCover = @ - (n - c)]
  BY DEF CommitSharesToBurn, BurnShares
<1> HIDE DEF c, q, f
<1>5. /\ OneMoves(f, g, "burner", 0 - n) /\ 0 - n \in Int
      /\ g \in [Accounts -> Nat] /\ g["burner"] = f["burner"] - n /\ g["queue"] = f["queue"]
  BY <1>1, <1>2 DEF OneMoves
<1> HIDE DEF g
<1>6. /\ SumOver(g, Accounts) = SumOver(f, Accounts) + (0 - n)
      /\ SumOver(f, Accounts) \in Nat /\ SumOver(g, Accounts) \in Nat
  BY <1>1, <1>5, SumMoves
<1>7. p.totalShares - n = SumOver(g, Accounts) /\ p.totalShares - n \in Nat
  BY <1>1, <1>2, <1>6 DEF f
<1>8. /\ q.shares = g /\ q.totalShares = p.totalShares - n /\ q.cover = p.cover - c
      /\ q.nonCover = p.nonCover - (n - c)
  BY <1>4 DEF Pool
<1>9. q \in Pool
  BY <1>3, <1>4, <1>5, <1>7 DEF Pool
<1>10. q.shares["burner"] >= q.cover + q.nonCover
  BY <1>1, <1>2, <1>3, <1>5, <1>8
<1>11. q = [p EXCEPT !.shares = q.shares, !.totalShares = @ - n,
                     !.cover = q.cover, !.nonCover = q.nonCover]
  <2> DEFINE a == p.cover - c
             b == p.nonCover - (n - c)
  <2>1. q.shares = g /\ q.cover = a /\ q.nonCover = b
    BY <1>8
  <2>2. q = [p EXCEPT !.shares = g, !.totalShares = @ - n, !.cover = a, !.nonCover = b]
    BY <1>4
  <2> HIDE DEF a, b
  <2> QED
    BY <2>1, <2>2
<1> QED
  BY <1>5, <1>7, <1>8, <1>9, <1>10, <1>11 DEF q, f

\* What the limiter s lets through is there, and was asked for.
Available(p, r, s) ==
  /\ s.withdrawals \in 0..p.withdrawalVault /\ s.elRewards \in 0..p.elVault
  /\ s.sharesToBurn \in 0..SharesToFinalize(p, r) + r.sharesRequestedToBurn

\* The pool when the vaults have paid in and the queue has been paid.
Collected(p, r, s) ==
  Collect([BurnRequested(p, r) EXCEPT !.clValidators = r.numValidators, !.clBalance = r.clBalance],
          r, s.withdrawals, s.elRewards, EtherToLock(p, r))

\* q: the pool p with what s lets through paid in, and the queue paid.
PaidIn(p, r, s, q) ==
  /\ q.bufferedEther = p.bufferedEther + (s.withdrawals + s.elRewards - EtherToLock(p, r))
  /\ q.clBalance = r.clBalance /\ q.clValidators = r.numValidators
  /\ q.depositedValidators = p.depositedValidators
  /\ q.lockedEther = p.lockedEther + EtherToLock(p, r) /\ q.bunker = p.bunker

\* All is in place but for the shares to be burnt.
LEMMA CollectKeeps ==
  ASSUME NEW p, Sound(p), NEW r \in ReportType, NEW s, Available(p, r, s),
         CLStateAccepted(p, r), BatchesAccepted(p, r),
         EtherToLock(p, r) <= p.bufferedEther + s.withdrawals + s.elRewards,
         r.batches # << >> => EtherToLock(p, r) > 0
  PROVE  LET q == Collected(p, r, s)
         IN /\ Sound(q) /\ PaidIn(p, r, s, q) /\ q.totalShares = p.totalShares
            /\ q.cover + q.nonCover = p.cover + p.nonCover + SharesToFinalize(p, r)
<1> DEFINE lock == EtherToLock(p, r)
           n == SharesToFinalize(p, r)
           b == BurnRequested(p, r)
           u == [b EXCEPT !.clValidators = r.numValidators, !.clBalance = r.clBalance]
           q == Collected(p, r, s)
           wd == s.withdrawals
           el == s.elRewards
           paid == wd + el - lock
           fin == IF lock > 0 THEN LastBatch(r) ELSE p.lastFinalized
<1>1. /\ p \in Pool /\ p.bufferedEther \in Nat /\ p.balance = p.bufferedEther
      /\ p.withdrawalVault \in Nat /\ p.elVault \in Nat /\ p.lockedEther \in Nat
      /\ p.clValidators \in Nat /\ p.depositedValidators \in Nat
      /\ p.cover \in Nat /\ p.nonCover \in Nat /\ p.lastFinalized \in Nat /\ Len(p.queue) \in Nat
      /\ p.lastFinalized <= Len(p.queue)
      /\ p.shares["burner"] \in Nat /\ p.shares["queue"] \in Nat
      /\ p.shares["burner"] >= p.cover + p.nonCover
      /\ p.totalShares = SumOver(p.shares, Accounts)
      /\ p.shares["queue"] = IF p.lastFinalized = Len(p.queue)
                             THEN 0
                             ELSE SharesIn(p.queue, p.lastFinalized, Len(p.queue))
  BY PoolTyped DEF Sound, Balanced
<1>2. /\ lock \in Nat /\ n \in 0..p.shares["queue"]
      /\ r.batches = << >> => lock = 0 /\ n = 0
      /\ r.batches # << >> =>
           /\ LastBatch(r) \in Nat /\ LastBatch(r) <= Len(p.queue)
           /\ p.shares["queue"] - n = IF LastBatch(r) = Len(p.queue)
                                      THEN 0
                                      ELSE SharesIn(p.queue, LastBatch(r), Len(p.queue))
  BY FinalizedTyped
<1>3. /\ b \in Pool /\ b = [p EXCEPT !.shares = b.shares, !.nonCover = @ + n]
      /\ SumOver(b.shares, Accounts) = SumOver(p.shares, Accounts)
      /\ b.shares["queue"] = p.shares["queue"] - n
      /\ b.shares["burner"] = p.shares["burner"] + n
  BY <1>1, <1>2, BurnMoves
<1>4. /\ r.numValidators \in Nat /\ r.clBalance \in Nat
      /\ r.numValidators <= p.depositedValidators
  BY <1>1 DEF CLStateAccepted, ReportType
<1>5. /\ wd \in Nat /\ el \in Nat /\ p.withdrawalVault - wd \in Nat /\ p.elVault - el \in Nat
      /\ n \in Nat
  <2> DEFINE vault == p.withdrawalVault
             els   == p.elVault
             queued == p.shares["queue"]
  <2>1. wd \in 0..vault /\ el \in 0..els /\ vault \in Nat /\ els \in Nat
    BY <1>1 DEF Available
  <2>2. n \in 0..queued /\ queued \in Nat
    BY <1>1, <1>2
  <2> HIDE DEF wd, el, vault, els, n, queued
  <2>3. wd \in Nat /\ el \in Nat /\ vault - wd \in Nat /\ els - el \in Nat /\ n \in Nat
    BY <2>1, <2>2
  <2> QED
    BY <2>3 DEF vault, els
<1>6. q = [u EXCEPT !.withdrawalVault = @ - wd, !.elVault = @ - el, !.balance = @ + paid,
                    !.bufferedEther = @ + paid, !.lockedEther = @ + lock,
                    !.lastFinalized = IF lock > 0 THEN LastBatch(r) ELSE @]
  BY DEF Collected, Collect
<1>7. p.bufferedEther + paid \in Nat /\ p.lockedEther + lock \in Nat /\ paid \in Int
  <2>1. lock <= p.bufferedEther + wd + el
    OBVIOUS
  <2> DEFINE buffer == p.bufferedEther
             locked == p.lockedEther
  <2>2. buffer \in Nat /\ locked \in Nat /\ lock \in Nat /\ wd \in Nat /\ el \in Nat
    BY <1>1, <1>2, <1>5
  <2>3. lock <= buffer + wd + el
    BY <2>1
  <2> HIDE DEF lock, wd, el, buffer, locked
  <2>4. buffer + paid \in Nat /\ locked + lock \in Nat /\ paid \in Int
    BY <2>2, <2>3
  <2> QED
    BY <2>4 DEF buffer, locked
<1>8. /\ fin \in Nat /\ fin <= Len(p.queue)
      /\ p.shares["queue"] - n = IF fin = Len(p.queue)
                                 THEN 0
                                 ELSE SharesIn(p.queue, fin, Len(p.queue))
  <2>1. CASE r.batches = << >>
    <3>1. fin = p.lastFinalized /\ n = 0
      BY <1>2, <2>1
    <3> HIDE DEF n, fin
    <3>2. p.shares["queue"] - n = p.shares["queue"]
      BY <1>1, <3>1
    <3> QED
      BY <1>1, <3>1, <3>2
  <2>2. CASE r.batches # << >>
    <3>1. fin = LastBatch(r)
      BY <2>2
    <3> HIDE DEF n, fin
    <3> QED
      BY <1>2, <2>2, <3>1
  <2> QED
    BY <2>1, <2>2
<1> HIDE DEF lock, n, b, wd, el, paid
<1>9. /\ u \in Pool
      /\ u.withdrawalVault = p.withdrawalVault /\ u.elVault = p.elVault
      /\ u.balance = p.balance /\ u.bufferedEther = p.bufferedEther
      /\ u.lockedEther = p.lockedEther /\ u.lastFinalized = p.lastFinalized
      /\ u.queue = p.queue /\ u.depositedValidators = p.depositedValidators
      /\ u.totalShares = p.totalShares /\ u.cover = p.cover
      /\ u.nonCover = p.nonCover + n /\ u.shares = b.shares
      /\ u.clValidators = r.numValidators /\ u.clBalance = r.clBalance /\ u.bunker = p.bunker
  <2>1. /\ b.withdrawalVault = p.withdrawalVault /\ b.elVault = p.elVault
        /\ b.balance = p.balance /\ b.bufferedEther = p.bufferedEther
        /\ b.lockedEther = p.lockedEther /\ b.lastFinalized = p.lastFinalized
        /\ b.queue = p.queue /\ b.depositedValidators = p.depositedValidators
        /\ b.totalShares = p.totalShares /\ b.cover = p.cover /\ b.nonCover = p.nonCover + n
        /\ b.bunker = p.bunker
    BY <1>1, <1>3 DEF Pool
  <2>2. u \in Pool
    BY <1>3, <1>4 DEF Pool
  <2> QED
    BY <1>3, <2>1, <2>2 DEF Pool
<1> HIDE DEF u, q
<1>10. q = [u EXCEPT !.withdrawalVault = p.withdrawalVault - wd, !.elVault = p.elVault - el,
                     !.balance = p.balance + paid, !.bufferedEther = p.bufferedEther + paid,
                     !.lockedEther = p.lockedEther + lock, !.lastFinalized = fin]
  BY <1>6, <1>9 DEF fin
<1> HIDE DEF fin
<1>11. q \in Pool
  <2>1. p.balance + paid \in Nat
    BY <1>1, <1>7
  <2> QED
    BY <1>5, <1>7, <1>8, <1>9, <1>10, <2>1 DEF Pool
<1>12. /\ q.queue = p.queue /\ q.lastFinalized = fin
       /\ q.clValidators = r.numValidators /\ q.depositedValidators = p.depositedValidators
       /\ q.shares = b.shares /\ q.totalShares = p.totalShares
       /\ q.bufferedEther = p.bufferedEther + paid /\ q.balance = p.balance + paid
       /\ q.cover = p.cover /\ q.nonCover = p.nonCover + n
       /\ q.clBalance = r.clBalance /\ q.bunker = p.bunker
       /\ q.lockedEther = p.lockedEther + lock
  BY <1>9, <1>10 DEF Pool
<1>13. q.shares["burner"] >= q.cover + q.nonCover
       /\ q.cover + q.nonCover = p.cover + p.nonCover + n
  <2>1. q.shares["burner"] = p.shares["burner"] + n
    BY <1>3, <1>12
  <2>2. q.cover = p.cover /\ q.nonCover = p.nonCover + n
    BY <1>12
  <2>3. p.shares["burner"] \in Nat /\ p.cover \in Nat /\ p.nonCover \in Nat /\ n \in Nat
    BY <1>1, <1>5
  <2>4. p.shares["burner"] >= p.cover + p.nonCover
    BY <1>1
  <2> QED
    BY <2>1, <2>2, <2>3, <2>4
<1>14. q.shares["queue"] = IF q.lastFinalized = Len(q.queue)
                           THEN 0
                           ELSE SharesIn(q.queue, q.lastFinalized, Len(q.queue))
  BY <1>3, <1>8, <1>12
<1>15. /\ Growing(q.queue) /\ q.lastFinalized <= Len(q.queue)
       /\ q.clValidators <= q.depositedValidators
  BY <1>4, <1>8, <1>12 DEF Sound
<1>16. q.totalShares = SumOver(q.shares, Accounts) /\ q.bufferedEther = q.balance
  BY <1>1, <1>3, <1>12
<1>17. Sound(q)
  BY <1>11, <1>13, <1>14, <1>15, <1>16 DEF Sound, Balanced
<1>18. PaidIn(p, r, s, q)
  BY <1>12 DEF PaidIn, paid, lock, wd, el
<1> QED
  BY <1>12, <1>13, <1>17, <1>18 DEF q, n

\* The outcome of an accepted report.
LEMMA SettledSound ==
  ASSUME NEW p, Sound(p), TotalPooledEther(p) > 0, NEW r \in ReportType,
         NEW s, Available(p, r, s),
         CLStateAccepted(p, r), BatchesAccepted(p, r),
         r.sharesRequestedToBurn <= p.cover + p.nonCover,
         EtherToLock(p, r) <= p.bufferedEther + s.withdrawals + s.elRewards,
         r.batches # << >> => EtherToLock(p, r) > 0
  PROVE  /\ Sound(Settled(p, r, s)) /\ PaidIn(p, r, s, Settled(p, r, s))
         /\ p.totalShares <= Settled(p, r, s).totalShares + s.sharesToBurn
<1> DEFINE c == Collected(p, r, s)
           n == s.sharesToBurn
           q == CommitSharesToBurn(c, n)
           earned == r.clBalance + s.withdrawals - PreCLBalance(p, r)
           e == ProcessRewards(q, r, p, s.withdrawals, s.elRewards)
<1>1. /\ Sound(c) /\ PaidIn(p, r, s, c) /\ c.totalShares = p.totalShares
      /\ c.cover + c.nonCover = p.cover + p.nonCover + SharesToFinalize(p, r)
  BY CollectKeeps
<1>2. Settled(p, r, s) = e
  BY DEF Settled, Collected
<1>3. /\ c \in Pool /\ c.shares["burner"] >= c.cover + c.nonCover
      /\ c.totalShares = SumOver(c.shares, Accounts) /\ c.totalShares \in Nat
  BY <1>1, PoolTyped DEF Sound, Balanced
<1>4. n \in 0..c.cover + c.nonCover /\ n \in Nat
  <2>1. /\ n \in 0..SharesToFinalize(p, r) + r.sharesRequestedToBurn
        /\ r.sharesRequestedToBurn \in Nat /\ p.cover \in Nat /\ p.nonCover \in Nat
        /\ SharesToFinalize(p, r) \in Nat
    <3>1. SharesToFinalize(p, r) \in 0..p.shares["queue"] /\ p.shares["queue"] \in Nat
      BY FinalizedTyped, PoolTyped DEF Sound
    <3> QED
      BY <3>1, PoolTyped DEF Available, ReportType, Sound
  <2> HIDE DEF n, c
  <2> QED
    BY <1>1, <2>1
<1>5. /\ q \in Pool
      /\ q = [c EXCEPT !.shares = q.shares, !.totalShares = @ - n,
                       !.cover = q.cover, !.nonCover = q.nonCover]
      /\ q.totalShares = SumOver(q.shares, Accounts)
      /\ q.shares["queue"] = c.shares["queue"]
      /\ q.shares["burner"] >= q.cover + q.nonCover
  <2> HIDE DEF c, n
  <2> QED
    BY <1>3, <1>4, CommitKeeps
<1> HIDE DEF c, n, q
<1>6. /\ q.queue = c.queue /\ q.lastFinalized = c.lastFinalized
      /\ q.clValidators = c.clValidators /\ q.depositedValidators = c.depositedValidators
      /\ q.bufferedEther = c.bufferedEther /\ q.balance = c.balance
      /\ q.totalShares = c.totalShares - n /\ SameEther(c, q)
  BY <1>3, <1>5 DEF Pool, SameEther
<1>7. Sound(q) /\ q.totalShares \in Nat
  <2>1. Sound(q)
    BY <1>1, <1>5, <1>6 DEF Sound, Balanced
  <2> QED
    BY <1>5, <2>1, PoolTyped
<1>8. Sound(e) /\ SameEther(q, e) /\ q.totalShares <= e.totalShares /\ e.totalShares \in Nat
  <2>1. CASE earned > 0
    <3> DEFINE ether == TotalPooledEther(p)
               rewards == earned + s.elRewards
    <3>1. e = DistributeFee(q, ether, p.totalShares, rewards)
      BY <2>1 DEF ProcessRewards
    <3>2. ether \in Nat \ {0} /\ p.totalShares \in Nat
      BY EtherTyped, PoolTyped DEF Sound
    <3>3. earned \in Int
      <4>1. /\ r.clBalance \in Int /\ s.withdrawals \in Int /\ p.clBalance \in Int
            /\ r.numValidators \in Int /\ p.clValidators \in Int /\ DEPOSIT_SIZE \in Int
        <5>1. s.withdrawals \in 0..p.withdrawalVault /\ p.withdrawalVault \in Nat
              /\ p.clBalance \in Nat /\ p.clValidators \in Nat
          BY PoolTyped DEF Sound, Available
        <5>2. r.clBalance \in Int /\ r.numValidators \in Nat /\ DEPOSIT_SIZE \in Nat
          BY LidoAssumption DEF ReportType
        <5> QED
          BY <5>1, <5>2
      <4> QED
        BY <4>1 DEF PreCLBalance
    <3>4. s.elRewards \in Nat
      BY PoolTyped DEF Sound, Available
    <3> HIDE DEF earned, ether, e
    <3>5. rewards \in Nat
      BY <2>1, <3>3, <3>4
    <3> HIDE DEF rewards
    <3>6. Sound(e) /\ SameEther(q, e) /\ q.totalShares <= e.totalShares
      BY <1>7, <3>1, <3>2, <3>5, DistributeSound
    <3>7. e.totalShares \in Nat
      BY <3>6, PoolTyped DEF Sound
    <3> QED
      BY <3>6, <3>7
  <2>2. CASE ~(earned > 0)
    <3>1. e = q
      BY <2>2 DEF ProcessRewards
    <3> HIDE DEF e
    <3> QED
      BY <1>7, <3>1 DEF SameEther
  <2> QED
    BY <2>1, <2>2
<1> HIDE DEF e
<1>9. p.totalShares <= e.totalShares + n
  BY <1>1, <1>3, <1>4, <1>6, <1>7, <1>8
<1>10. PaidIn(p, r, s, e)
  BY <1>1, <1>6, <1>8 DEF PaidIn, SameEther
<1> QED
  BY <1>2, <1>8, <1>9, <1>10 DEF n

\* A report that goes through leaves the pool sound.
LEMMA ReportSound ==
  ASSUME NEW p, Sound(p), TotalPooledEther(p) > 0, NEW r \in ReportType,
         NEW o \in HandleOracleReport(p, r), o.accepted,
         BatchesAccepted(p, r) /\ r.batches # << >> => EtherToLock(p, r) > 0
  PROVE  /\ Sound(o.pool) /\ o.withdrawals \in Nat /\ o.elRewards \in Nat
         /\ PaidIn(p, r, Smoothed(p, r), o.pool)
         /\ Smoothed(p, r).withdrawals \in Nat /\ Smoothed(p, r).elRewards \in Nat
         /\ EtherToLock(p, r) \in Nat /\ CLStateAccepted(p, r)
         /\ SharesToFinalize(p, r) \in Nat /\ PreCLBalance(p, r) \in Nat
         /\ ~Smoothed(p, r).negative
         /\ p.totalShares <= o.pool.totalShares + Smoothed(p, r).sharesToBurn
         /\ r.batches = << >> /\ r.sharesRequestedToBurn = 0
              => p.totalShares <= o.pool.totalShares
<1> DEFINE s == Smoothed(p, r)
           post == Settled(p, r, s)
<1>1. /\ o.accepted = ReportAccepted(p, r, s, post) /\ o.pool = post
      /\ o.withdrawals = s.withdrawals /\ o.elRewards = s.elRewards
  <2> DEFINE res == [accepted |-> ReportAccepted(p, r, s, post), pool |-> post,
                     withdrawals |-> s.withdrawals, elRewards |-> s.elRewards]
  <2>1. o = res
    BY Zenon DEF HandleOracleReport
  <2>2. /\ res.accepted = ReportAccepted(p, r, s, post) /\ res.pool = post
        /\ res.withdrawals = s.withdrawals /\ res.elRewards = s.elRewards
    <3> HIDE DEF s, post
    <3> QED
      OBVIOUS
  <2> HIDE DEF res
  <2> QED
    BY <2>1, <2>2, Zenon
<1> HIDE DEF s, post
<1>2. /\ CLStateAccepted(p, r) /\ ReportChecked(p, r) /\ BatchesAccepted(p, r) /\ ~s.negative
      /\ EtherToLock(p, r) <= p.bufferedEther + s.withdrawals + s.elRewards
  BY <1>1 DEF ReportAccepted
<1>3. /\ r.withdrawalVaultBalance <= p.withdrawalVault
      /\ r.elRewardsVaultBalance <= p.elVault
      /\ r.sharesRequestedToBurn <= p.cover + p.nonCover
  BY <1>2 DEF ReportChecked
<1>4. /\ EtherToLock(p, r) \in Nat /\ SharesToFinalize(p, r) \in Nat
      /\ r.batches = << >> => SharesToFinalize(p, r) = 0
  <2>1. SharesToFinalize(p, r) \in 0..p.shares["queue"] /\ p.shares["queue"] \in Nat
    BY <1>2, FinalizedTyped, PoolTyped DEF Sound
  <2> QED
    BY <1>2, <2>1, FinalizedTyped
<1>5. /\ p.totalShares \in Nat /\ p.withdrawalVault \in Nat /\ p.elVault \in Nat
      /\ p.clBalance \in Nat /\ p.clValidators \in Nat
      /\ TotalPooledEther(p) \in Nat \ {0}
  BY EtherTyped, PoolTyped DEF Sound
<1>6. /\ r.clBalance \in Nat /\ r.numValidators - p.clValidators \in Nat
      /\ r.withdrawalVaultBalance \in Nat /\ r.elRewardsVaultBalance \in Nat
      /\ r.sharesRequestedToBurn \in Nat
  BY <1>2, <1>5 DEF CLStateAccepted, ReportType
<1>7. PreCLBalance(p, r) \in Nat
  <2> DEFINE appeared == r.numValidators - p.clValidators
  <2>1. appeared \in Nat /\ DEPOSIT_SIZE \in Nat
    BY <1>6, LidoAssumption
  <2> HIDE DEF appeared
  <2>2. appeared * DEPOSIT_SIZE \in Nat
    BY <2>1, ProductTyped
  <2> QED
    BY <1>5, <2>2 DEF PreCLBalance, appeared
<1>8. Available(p, r, s)
  <2> DEFINE l == InitLimiterState(Limits.maxPositiveTokenRebase, TotalPooledEther(p),
                                   p.totalShares)
             pre == PreCLBalance(p, r)
             cl == r.clBalance
             wv == r.withdrawalVaultBalance
             ev == r.elRewardsVaultBalance
             asked == r.sharesRequestedToBurn
             lock == EtherToLock(p, r)
             n == SharesToFinalize(p, r)
  <2>1. l \in AnyLimiter
    <3>1. Limits.maxPositiveTokenRebase \in Nat \ {0}
      BY LidoAssumption DEF LimitsType
    <3> QED
      BY <1>5, <3>1 DEF InitLimiterState, AnyLimiter
  <2>2. s = SmoothenTokenRebase(l, pre, cl, wv, ev, asked, lock, n)
    BY DEF s, Smoothed
  <2>3. /\ pre \in Nat /\ cl \in Nat /\ wv \in Nat /\ ev \in Nat /\ asked \in Nat
        /\ lock \in Nat /\ n \in Nat
    BY <1>4, <1>6, <1>7
  <2> HIDE DEF l, pre, cl, wv, ev, asked, lock, n
  <2>4. /\ s.withdrawals \in 0..wv /\ s.elRewards \in 0..ev /\ s.sharesToBurn \in 0..n + asked
    BY <1>2, <2>1, <2>2, <2>3, SmoothenTyped
  <2>5. wv <= p.withdrawalVault /\ ev <= p.elVault
    BY <1>3 DEF wv, ev
  <2>6. s.withdrawals \in 0..p.withdrawalVault /\ s.elRewards \in 0..p.elVault
    BY <1>5, <2>3, <2>4, <2>5
  <2> QED
    BY <2>4, <2>6 DEF Available, n, asked
<1>9. /\ Sound(Settled(p, r, s)) /\ PaidIn(p, r, s, Settled(p, r, s))
      /\ p.totalShares <= Settled(p, r, s).totalShares + s.sharesToBurn
  BY <1>2, <1>3, <1>8, SettledSound
<1>10. s.withdrawals \in Nat /\ s.elRewards \in Nat
  BY <1>5, <1>8 DEF Available
<1>11. ASSUME r.batches = << >>, r.sharesRequestedToBurn = 0
       PROVE  p.totalShares <= post.totalShares
  <2>1. s.sharesToBurn \in 0..SharesToFinalize(p, r) + r.sharesRequestedToBurn
    BY <1>8 DEF Available
  <2>2. s.sharesToBurn = 0
    BY <1>4, <1>11, <2>1
  <2>3. post.totalShares \in Nat
    BY <1>9, PoolTyped DEF Sound, post
  <2> QED
    BY <1>5, <1>9, <2>2, <2>3 DEF post
<1> QED
  BY <1>1, <1>2, <1>4, <1>7, <1>9, <1>10, <1>11 DEF post, s

\* The queue is told first.
LEMMA OnOracleReportSound ==
  ASSUME NEW p, Sound(p), NEW r \in ReportType
  PROVE  LET q == OnOracleReport(p, r)
         IN /\ Sound(q) /\ TotalPooledEther(q) = TotalPooledEther(p)
            /\ BatchesAccepted(q, r) = BatchesAccepted(p, r)
            /\ EtherToLock(q, r) = EtherToLock(p, r)
<1> DEFINE q == OnOracleReport(p, r)
<1>1. q = [p EXCEPT !.bunker = r.bunker, !.lastReportTimestamp = r.refSlot] /\ p \in Pool
      /\ r.bunker \in BOOLEAN /\ r.refSlot \in Nat
  BY DEF OnOracleReport, Sound, ReportType
<1> HIDE DEF q
<1>2. q \in Pool
  <2>1. r.refSlot \in Int
    BY <1>1
  <2> DEFINE b == r.bunker
             t == r.refSlot
  <2>2. q = [p EXCEPT !.bunker = b, !.lastReportTimestamp = t] /\ b \in BOOLEAN /\ t \in Int
    BY <1>1, <2>1
  <2> HIDE DEF b, t
  <2> QED
    BY <1>1, <2>2 DEF Pool
<1>3. /\ q.queue = p.queue /\ q.lastFinalized = p.lastFinalized
      /\ q.clValidators = p.clValidators /\ q.depositedValidators = p.depositedValidators
      /\ q.shares = p.shares /\ q.totalShares = p.totalShares
      /\ q.bufferedEther = p.bufferedEther /\ q.balance = p.balance
      /\ q.cover = p.cover /\ q.nonCover = p.nonCover /\ q.clBalance = p.clBalance
  BY <1>1 DEF Pool
<1>4. Sound(q)
  BY <1>2, <1>3 DEF Sound, Balanced
<1>5. TotalPooledEther(q) = TotalPooledEther(p)
  BY <1>3 DEF TotalPooledEther
<1>6. BatchesAccepted(q, r) = BatchesAccepted(p, r) /\ EtherToLock(q, r) = EtherToLock(p, r)
  BY <1>3 DEF BatchesAccepted, EtherToLock
<1> QED
  BY <1>4, <1>5, <1>6 DEF q

-------------------------------------------------------------------------------
\* The calculation of batches

CalcType == [budget : Nat, batches : Seq(Nat), stopped : BOOLEAN]

\* One turn of calculateFinalizationBatches keeps the types of its state.
LEMMA TakeTyped ==
  ASSUME NEW q \in Seq(Request), Growing(q), NEW fin \in Nat, NEW rate \in Nat, NEW t,
         NEW s \in CalcType
  PROVE  TakeRequest(q, fin, rate, t, s) \in CalcType
<1> DEFINE i    == CurrentId(fin, s)
           cost == EtherFor(q, i - 1, i, rate)
           n    == Len(s.batches)
           spent == [s EXCEPT !.budget = @ - cost]
<1>1. s.budget \in Nat /\ s.batches \in Seq(Nat) /\ s.stopped \in BOOLEAN /\ n \in Nat
  BY LenProperties DEF CalcType
<1>2. i \in Nat /\ i # 0
  <2>1. CASE s.batches = << >>
    BY <2>1 DEF CurrentId
  <2>2. CASE s.batches # << >>
    <3>1. s.batches[n] \in Nat
      BY <1>1, <2>2, ElementOfSeq, EmptySeq
    <3> QED
      BY <2>2, <3>1 DEF CurrentId
  <2> QED
    BY <2>1, <2>2
<1>3. CASE s.stopped \/ i > Len(q) \/ q[i].timestamp > t \/ cost > s.budget
  <2>1. TakeRequest(q, fin, rate, t, s) = [s EXCEPT !.stopped = TRUE]
    BY <1>3 DEF TakeRequest
  <2> QED
    BY <2>1 DEF CalcType
<1>4. CASE ~(s.stopped \/ i > Len(q) \/ q[i].timestamp > t \/ cost > s.budget)
  <2>1. \/ n # 0 /\ TakeRequest(q, fin, rate, t, s) = [spent EXCEPT !.batches[n] = i]
        \/ TakeRequest(q, fin, rate, t, s) = [spent EXCEPT !.batches = NewBatch(@, i)]
        \/ TakeRequest(q, fin, rate, t, s) = [spent EXCEPT !.stopped = TRUE]
    BY <1>4 DEF TakeRequest
  <2>2. cost \in Nat /\ s.budget - cost \in Nat
    <3> DEFINE h == i - 1
    <3>1. Len(q) \in Nat
      BY LenProperties
    <3>2. h \in 0..Len(q) /\ i \in 1..Len(q) /\ h <= i
      BY <1>2, <1>4, <3>1
    <3>3. ~(cost > s.budget)
      BY <1>4
    <3>4. EtherFor(q, h, i, rate) \in Nat
      <4> HIDE DEF h, i
      <4> QED
        BY <3>2, PriceTyped
    <3>5. cost \in Nat
      BY <3>4
    <3> HIDE DEF cost
    <3> QED
      BY <1>1, <3>3, <3>5
  <2> HIDE DEF cost
  <2>3. spent \in CalcType /\ spent.batches = s.batches
    BY <2>2 DEF CalcType
  <2> HIDE DEF spent, i, n
  <2>4. CASE n # 0 /\ TakeRequest(q, fin, rate, t, s) = [spent EXCEPT !.batches[n] = i]
    <3> DEFINE b == s.batches
    <3>1. b \in Seq(Nat) /\ i \in Nat /\ n \in 1..Len(b)
      BY <1>1, <1>2, <2>4 DEF n
    <3> HIDE DEF b
    <3>2. [b EXCEPT ![n] = i] \in Seq(Nat)
      BY <3>1, ExceptSeq
    <3> QED
      BY <2>3, <2>4, <3>2 DEF CalcType, b
  <2>5. CASE TakeRequest(q, fin, rate, t, s) = [spent EXCEPT !.batches = NewBatch(@, i)]
    <3>1. NewBatch(s.batches, i) \in Seq(Nat)
      BY <1>1, <1>2, AppendProperties DEF NewBatch
    <3> QED
      BY <2>3, <2>5, <3>1 DEF CalcType
  <2>6. CASE TakeRequest(q, fin, rate, t, s) = [spent EXCEPT !.stopped = TRUE]
    BY <2>3, <2>6 DEF CalcType
  <2> QED
    BY <2>1, <2>4, <2>5, <2>6
<1> QED
  BY <1>3, <1>4

\* ... and so does a call of any number of turns.
LEMMA CalculateTyped ==
  ASSUME NEW q \in Seq(Request), Growing(q), NEW fin \in Nat, NEW rate \in Nat, NEW t,
         NEW turns \in Nat, NEW s \in CalcType
  PROVE  CalculateFinalizationBatches(q, fin, rate, t, turns, s) \in CalcType
<1> DEFINE R == CalcType
           take(x) == TakeRequest(q, fin, rate, t, x)
           f == [k \in 1..turns |-> [x \in R |-> take(x)]]
           Eq(u) == u = [k \in 0..turns |-> IF k = 0 THEN s ELSE take(u[k - 1])]
<1>1. \A x \in R : take(x) \in R
  BY TakeTyped
<1> HIDE DEF R, take
<1>2. f \in [1..turns -> [R -> R]] /\ s \in R
  BY <1>1 DEF R
<1>3. PICK h \in [0..turns -> R] : h[0] = s /\ \A k \in 1..turns : h[k] = f[k][h[k - 1]]
  <2>1. \E h \in [0..turns -> R] : Iterates(h, s, turns, f)
    <3> HIDE DEF f
    <3> QED
      BY <1>2, IterationExists
  <2> HIDE DEF f
  <2> QED
    BY <2>1 DEF Iterates
<1>4. ASSUME NEW k \in 1..turns PROVE h[k] = take(h[k - 1])
  <2>1. h[k] = f[k][h[k - 1]]
    <3> HIDE DEF f
    <3> QED
      BY <1>3
  <2>2. h[k - 1] \in R
    <3>1. k - 1 \in 0..turns
      OBVIOUS
    <3> QED
      BY <3>1
  <2> QED
    BY <2>1, <2>2
<1>5. Eq(h)
  BY <1>3, <1>4
<1>6. Eq(CHOOSE u : Eq(u))
  <2> HIDE DEF Eq
  <2> QED
    BY <1>5
<1>7. \A u : Eq(u) => u[turns] \in R
  <2> SUFFICES ASSUME NEW u, Eq(u) PROVE u[turns] \in R
    OBVIOUS
  <2>1. u[0] = s /\ \A k \in 1..turns : u[k] = take(u[k - 1])
    OBVIOUS
  <2> DEFINE S == {k \in 0..turns : u[k] \in R}
  <2>2. 0 \in S
    BY <1>2, <2>1
  <2>3. ASSUME NEW k \in 0..turns - 1, k \in S PROVE k + 1 \in S
    <3>1. k + 1 \in 1..turns /\ k + 1 \in 0..turns /\ (k + 1) - 1 = k
      OBVIOUS
    <3>2. u[k + 1] = take(u[k]) /\ u[k] \in R
      BY <2>1, <2>3, <3>1
    <3> QED
      BY <1>1, <3>1, <3>2
  <2>4. 0..turns \subseteq S
    <3> HIDE DEF S
    <3> QED
      BY <2>2, <2>3, SetInduction
  <2> QED
    BY <2>4
<1>8. CalculateFinalizationBatches(q, fin, rate, t, turns, s) = (CHOOSE u : Eq(u))[turns]
  BY Zenon DEF CalculateFinalizationBatches, take
<1> HIDE DEF Eq
<1> QED
  BY <1>6, <1>7, <1>8 DEF R

-------------------------------------------------------------------------------
\* The client's local variables.
WorkType ==
  [opt : OptionsType, data : ReportType,
   sim : [postTotalPooledEther : Nat, collected : Nat], calc : CalcType, asked : SUBSET Nat,
   drains : BOOLEAN, before : Nat, held : Nat, drained : BOOLEAN]

\* The inductive invariant: TypeOK and Conserved with the types of the client's
\* variables, the order of the queue, and the clock past the first frame; what is
\* simulated has no withdrawals.
Inv ==
  /\ TypeOK
  /\ Sound(pool)
  /\ FrameStarted(slot, FrameCfg)
  /\ work \in WorkType
  /\ pc = "simulate" => data.batches = << >>

\* The client's variables before an operation.
LEMMA NoWorkTyped ==
  /\ NoData \in ReportType /\ NoData.batches = << >> /\ NoWork \in WorkType
  /\ \A o \in OptionsType : [NoWork EXCEPT !.opt = o] \in WorkType
  /\ \A a, b \in Nat : [NoWork EXCEPT !.before = a, !.held = b] \in WorkType
  /\ \A b \in BOOLEAN : /\ [NoWork EXCEPT !.drains = b] \in WorkType
                        /\ [NoWork EXCEPT !.drained = b] \in WorkType
<1>1. NoData \in ReportType /\ NoData.batches = << >>
  <2>1. << >> \in Seq(Nat)
    BY EmptySeq
  <2> QED
    BY <2>1 DEF NoData, ReportType
<1>2. StartState(0) \in CalcType
  BY EmptySeq DEF StartState, CalcType
<1>3. DefaultOptions \in OptionsType
  BY ReportingAssumption
<1>4. NoWork \in WorkType
  <2> DEFINE d == NoData
             c == StartState(0)
             sim == [postTotalPooledEther |-> 0, collected |-> 0]
  <2>1. sim \in [postTotalPooledEther : Nat, collected : Nat]
    OBVIOUS
  <2>2. NoWork = [opt |-> DefaultOptions, data |-> d, sim |-> sim, calc |-> c, asked |-> {},
                  drains |-> FALSE, before |-> 0, held |-> 0, drained |-> FALSE]
    BY DEF NoWork
  <2> HIDE DEF d, c, sim
  <2> QED
    BY <1>1, <1>2, <1>3, <2>1, <2>2 DEF WorkType, d, c
<1> HIDE DEF WorkType
<1> DEFINE w == NoWork
<1>5. w \in WorkType
  BY <1>4
<1> HIDE DEF w
<1>6. ASSUME NEW o \in OptionsType PROVE [w EXCEPT !.opt = o] \in WorkType
  BY <1>5 DEF WorkType
<1>7. ASSUME NEW a \in Nat, NEW b \in Nat
      PROVE  [w EXCEPT !.before = a, !.held = b] \in WorkType
  BY <1>5 DEF WorkType
<1>8. ASSUME NEW b \in BOOLEAN
      PROVE  [w EXCEPT !.drains = b] \in WorkType /\ [w EXCEPT !.drained = b] \in WorkType
  BY <1>5 DEF WorkType
<1> QED
  BY <1>1, <1>4, <1>6, <1>7, <1>8 DEF w

\* The initial states.
LEMMA InitInv == Init => Inv
<1> SUFFICES ASSUME Init PROVE Inv
  OBVIOUS
<1> USE DEF Init
<1>1. Sound(pool)
  <2> DEFINE p == StartPool
  <2>1. p \in Pool /\ Balanced(p) /\ p.queue = << >> /\ p.lastFinalized = 0
        /\ p.clValidators <= p.depositedValidators
    BY ReportingAssumption
  <2> HIDE DEF p
  <2>2. Len(p.queue) = 0
    BY <2>1, EmptySeq
  <2>3. Growing(p.queue)
    BY <2>2 DEF Growing
  <2> QED
    BY <2>1, <2>2, <2>3 DEF Sound, p
<1>2. slot \in Nat /\ FrameStarted(slot, FrameCfg) /\ committee \in [total : Nat, quorum : Nat]
  BY ReportingAssumption
<1>3. TypeOK
  BY <1>1, <1>2 DEF TypeOK, Sound
<1> QED
  BY <1>1, <1>2, <1>3, NoWorkTyped DEF Inv, data

\* The parts of the invariant.
ChainOK == slot \in Nat /\ FrameStarted(slot, FrameCfg) /\ Sound(pool)

OracleOK ==
  /\ committee \in [total : Nat, quorum : Nat]
  /\ processed \in Nat /\ extraSubmitted \in BOOLEAN
  /\ \A v \in votes : v.member \in 0..committee.total - 1

Places ==
  {"idle", "wait", "read", "simulate", "budget", "calculate", "bunker", "consensus", "main",
   "extra", "holder", "queue", "topup", "last"}

Failures == {"none", "refused", "expectation", "balance", "exhausted"}

ClientOK ==
  /\ pc \in Places /\ failure \in Failures /\ work \in WorkType
  /\ pc = "simulate" => data.batches = << >>

\* The invariant is the conjunction of the parts, before and after a step.
LEMMA InvParts ==
  /\ Inv <=> ChainOK /\ OracleOK /\ ClientOK
  /\ Inv' <=> ChainOK' /\ OracleOK' /\ ClientOK'
<1>1. Inv <=> ChainOK /\ OracleOK /\ ClientOK
  BY DEF Inv, TypeOK, ChainOK, OracleOK, ClientOK, Places, Failures, Sound
<1>2. Inv' <=> ChainOK' /\ OracleOK' /\ ClientOK'
  BY DEF Inv, TypeOK, ChainOK, OracleOK, ClientOK, Places, Failures, Sound
<1> QED
  BY <1>1, <1>2

\* A part holds on while its variables do not change.
LEMMA Kept ==
  /\ ChainOK /\ UNCHANGED chainVars => ChainOK'
  /\ OracleOK /\ UNCHANGED oracleVars => OracleOK'
  /\ ClientOK /\ UNCHANGED clientVars => ClientOK'
<1>1. ChainOK /\ UNCHANGED chainVars => ChainOK'
  BY DEF ChainOK, chainVars
<1>2. OracleOK /\ UNCHANGED oracleVars => OracleOK'
  BY DEF OracleOK, oracleVars
<1>3. ClientOK /\ UNCHANGED clientVars => ClientOK'
  BY DEF ClientOK, clientVars, data
<1> QED
  BY <1>1, <1>2, <1>3

\* The client's control leaves it in one of its places.
LEMMA Control ==
  ASSUME ClientOK
  PROVE  /\ \A place \in Places, w \in WorkType :
              /\ Continue(place, w) \/ Begin(place, w)
              /\ place = "simulate" => w.data.batches = << >>
              => ClientOK'
         /\ \A why \in Failures : Throw(why) => ClientOK'
         /\ Return => ClientOK'
<1>1. ASSUME NEW place \in Places, NEW w \in WorkType, Continue(place, w),
             place = "simulate" => w.data.batches = << >>
      PROVE  ClientOK'
  BY <1>1 DEF ClientOK, Continue, data
<1>2. Return => ClientOK'
  BY NoWorkTyped DEF ClientOK, Return, Places
<1>3. ASSUME NEW why \in Failures, Throw(why) PROVE ClientOK'
  BY <1>3, NoWorkTyped DEF ClientOK, Throw, Places
<1>4. ASSUME NEW place \in Places, NEW w \in WorkType, Begin(place, w),
             place = "simulate" => w.data.batches = << >>
      PROVE  ClientOK'
  BY <1>4 DEF ClientOK, Begin, Failures, data
<1> QED
  BY <1>1, <1>2, <1>3, <1>4

\* The reference slot of the frame.
LEMMA RefSlotTyped ==
  ASSUME ChainOK
  PROVE  /\ CurrentRefSlot \in Nat /\ SlotsPerFrame \in Nat
         /\ slot <= CurrentRefSlot + SlotsPerFrame
<1>1. slot \in Nat /\ FrameCfg \in FrameConfig /\ FrameStarted(slot, FrameCfg)
  BY ReportingAssumption DEF ChainOK
<1> QED
  BY <1>1, SlotInFrame DEF CurrentRefSlot, SlotsPerFrame, FrameLength

\* Later on there is a frame, too.
LEMMA ClockGoesOn ==
  ASSUME ChainOK, NEW t \in Nat, slot <= t
  PROVE  FrameStarted(t, FrameCfg)
<1>1. slot \in Nat /\ FrameCfg \in FrameConfig /\ FrameStarted(slot, FrameCfg)
  BY ReportingAssumption DEF ChainOK
<1> QED
  BY <1>1, RefSlotGrowsWithTime

-------------------------------------------------------------------------------
\* Users, time, and the client's operations

\* The client's own submits leave the pool sound.
LEMMA SubmitKeeps ==
  ASSUME ChainOK, Solvent, NEW amount \in Nat, pool' = Submit(pool, amount), slot' = slot
  PROVE  ChainOK'
<1>1. Sound(Submit(pool, amount))
  BY SubmitSound DEF ChainOK, Solvent
<1> QED
  BY <1>1 DEF ChainOK

\* Every transaction of a user or a node operator leaves the pool sound.
LEMMA TransactionsSound ==
  ASSUME ChainOK, Solvent, NEW p \in Transactions
  PROVE  Sound(p)
<1>1. /\ Sound(pool) /\ TotalPooledEther(pool) > 0 /\ pool.totalShares > 0 /\ slot \in Nat
      /\ pool.shares["holders"] \in Nat
      /\ "holders" \in Accounts /\ "burner" \in Accounts
      /\ "holders" # "burner" /\ "holders" # "queue" /\ "burner" # "queue"
  BY PoolTyped, AccountFacts DEF ChainOK, Solvent, Sound
<1>2. \A a \in Submits \cup Requests \cup Rewards \cup Burns : a \in Nat
  BY ReportingAssumption
<1>3. CASE p \in {Submit(pool, a) : a \in Submits}
  BY <1>1, <1>2, <1>3, SubmitSound
<1>4. CASE p \in {RequestWithdrawal(pool, a, slot) : a \in {x \in Requests : CanRequest(pool, x)}}
  BY <1>1, <1>2, <1>4, RequestSound
<1>5. CASE p \in {Deposit(pool, n) :
                    n \in IF CanDeposit(pool) THEN 1..MaxDepositsCount(pool) ELSE {}}
  BY <1>1, <1>5, DepositSound
<1>6. CASE p \in {[pool EXCEPT !.elVault = @ + a] : a \in Rewards}
  <2>1. PICK a \in Rewards : p = [pool EXCEPT !.elVault = @ + a]
    BY <1>6
  <2>2. Sound([pool EXCEPT !.elVault = @ + a])
    BY <1>1, <1>2, VaultsSound
  <2> QED
    BY <2>1, <2>2
<1>7. CASE p \in {[pool EXCEPT !.withdrawalVault = @ + a] : a \in Rewards}
  <2>1. PICK a \in Rewards : p = [pool EXCEPT !.withdrawalVault = @ + a]
    BY <1>7
  <2>2. Sound([pool EXCEPT !.withdrawalVault = @ + a])
    BY <1>1, <1>2, VaultsSound
  <2> QED
    BY <2>1, <2>2
<1>8. ASSUME NEW n \in {x \in Burns : x <= pool.shares["holders"]}
      PROVE  n \in 0..pool.shares["holders"]
  BY <1>1, <1>2
<1>9. CASE p \in {RequestBurnShares(pool, "holders", n, c) :
                    n \in {x \in Burns : x <= pool.shares["holders"]}, c \in BOOLEAN}
  <2>1. PICK n \in {x \in Burns : x <= pool.shares["holders"]}, c \in BOOLEAN :
          p = RequestBurnShares(pool, "holders", n, c)
    BY <1>9
  <2>2. Sound(RequestBurnShares(pool, "holders", n, c))
    BY <1>1, <1>8, BurnRequestSound
  <2> QED
    BY <2>1, <2>2
<1>10. CASE p \in {TransferShares(pool, "holders", "burner", n) :
                     n \in {x \in Burns : x <= pool.shares["holders"]}}
  <2>1. PICK n \in {x \in Burns : x <= pool.shares["holders"]} :
          p = TransferShares(pool, "holders", "burner", n)
    BY <1>10
  <2>2. Sound(TransferShares(pool, "holders", "burner", n))
    BY <1>1, <1>8, TransferSound
  <2> QED
    BY <2>1, <2>2
<1>11. CASE p \in {RecoverExcessStETH(pool)}
  BY <1>1, <1>11, RecoverSound
<1> QED
  BY <1>3, <1>4, <1>5, <1>6, <1>7, <1>9, <1>10, <1>11 DEF Transactions

\* Users act between two calls of the client.
LEMMA UserActsInv == Inv /\ Solvent /\ UserActs => Inv'
<1> SUFFICES ASSUME Inv, Solvent, UserActs PROVE Inv'
  OBVIOUS
<1>1. ChainOK /\ OracleOK /\ ClientOK
  BY InvParts
<1>2. pool' \in Transactions /\ slot' = slot /\ UNCHANGED oracleVars /\ UNCHANGED clientVars
  BY DEF UserActs
<1>3. Sound(pool')
  BY <1>1, <1>2, TransactionsSound
<1>4. ChainOK'
  BY <1>1, <1>2, <1>3 DEF ChainOK
<1>5. OracleOK' /\ ClientOK'
  BY <1>1, <1>2, Kept
<1> QED
  BY <1>4, <1>5, InvParts

\* Time passes between two operations.
LEMMA PassTimeInv == Inv /\ PassTime => Inv'
<1> SUFFICES ASSUME Inv, PassTime PROVE Inv'
  OBVIOUS
<1>1. ChainOK /\ OracleOK /\ ClientOK
  BY InvParts
<1>2. /\ \E n \in Waits : slot' = slot + n
      /\ votes' = votes \/ votes' = {}
      /\ UNCHANGED <<pool, committee, processed, extraSubmitted>> /\ UNCHANGED clientVars
  BY DEF PassTime
<1>3. slot' \in Nat /\ slot <= slot'
  BY <1>1, <1>2, ReportingAssumption DEF ChainOK
<1>4. FrameStarted(slot', FrameCfg)
  BY <1>1, <1>3, ClockGoesOn
<1>5. ChainOK'
  BY <1>1, <1>2, <1>3, <1>4 DEF ChainOK
<1>6. OracleOK'
  BY <1>1, <1>2 DEF OracleOK
<1>7. ClientOK'
  BY <1>1, <1>2, Kept
<1> QED
  BY <1>5, <1>6, <1>7, InvParts

\* report begins.
LEMMA ReportInv == Inv /\ Report => Inv'
<1> SUFFICES ASSUME Inv, Report PROVE Inv'
  OBVIOUS
<1>1. ChainOK /\ OracleOK /\ ClientOK
  BY InvParts
<1>2. PICK o \in ReportOptions : Begin(AtReport(o), [NoWork EXCEPT !.opt = o])
  BY DEF Report
<1>3. UNCHANGED chainVars /\ UNCHANGED oracleVars
  BY DEF Report
<1>4. AtReport(o) \in Places /\ AtReport(o) # "simulate" /\ [NoWork EXCEPT !.opt = o] \in WorkType
  BY ReportingAssumption, NoWorkTyped DEF AtReport, Places
<1>5. ClientOK'
  BY <1>1, <1>2, <1>4, Control
<1> QED
  BY <1>1, <1>3, <1>5, Kept, InvParts

\* finalizeWithdrawalQueue begins.
LEMMA FinalizeInv == Inv /\ Solvent /\ FinalizeWithdrawalQueue => Inv'
<1> SUFFICES ASSUME Inv, Solvent, FinalizeWithdrawalQueue PROVE Inv'
  OBVIOUS
<1>1. ChainOK /\ OracleOK /\ ClientOK
  BY InvParts
<1> DEFINE minted == GetSharesByPooledEth(pool, TopUpAmount)
<1>2. PICK n \in Holdings :
        Begin("holder", [NoWork EXCEPT !.before = n, !.held = n + minted])
  BY DEF FinalizeWithdrawalQueue
<1>3. TopUpAmount \in Nat /\ n \in Nat /\ "holder" \in Places
  BY ReportingAssumption DEF Places
<1>4. pool' = Submit(pool, TopUpAmount) /\ slot' = slot /\ UNCHANGED oracleVars
  BY DEF FinalizeWithdrawalQueue
<1>5. ChainOK'
  BY <1>1, <1>3, <1>4, SubmitKeeps
<1>6. minted \in Nat
  BY <1>1, <1>3, SharesTyped DEF ChainOK, Sound, Solvent
<1> HIDE DEF minted
<1> DEFINE after == n + minted
           w == [NoWork EXCEPT !.before = n, !.held = after]
<1>7. Begin("holder", w)
  BY <1>2
<1>8. after \in Nat
  BY <1>3, <1>6
<1> HIDE DEF after
<1>9. w \in WorkType
  BY <1>3, <1>8, NoWorkTyped, Zenon
<1> HIDE DEF w
<1>10. ClientOK'
  BY <1>1, <1>3, <1>7, <1>9, Control
<1> QED
  BY <1>1, <1>4, <1>5, <1>10, Kept, InvParts

\* The fast lane is a finite set of indices of members.
LEMMA LaneTyped ==
  ASSUME OracleOK
  PROVE  /\ FastLane \subseteq 0..committee.total - 1 /\ FastLane \subseteq Nat
         /\ Cardinality(FastLane) \in Nat
<1>1. committee.total \in Nat
  BY DEF OracleOK
<1>2. FastLane \subseteq 0..committee.total - 1
  BY DEF FastLane
<1>3. IsFiniteSet(FastLane)
  <2> DEFINE last == committee.total - 1
  <2>1. last \in Int /\ FastLane \subseteq 0..last
    BY <1>1, <1>2
  <2> HIDE DEF last
  <2>2. IsFiniteSet(0..last)
    BY <2>1, FS_Interval
  <2> QED
    BY <2>1, <2>2, FS_Subset
<1> QED
  BY <1>1, <1>2, <1>3, FS_CardinalityType

\* ensureOracleCommitteeMembers only adds members.
LEMMA EnsureInv == Inv /\ EnsureOracleCommitteeMembers => Inv'
<1> SUFFICES ASSUME Inv, EnsureOracleCommitteeMembers PROVE Inv'
  OBVIOUS
<1>1. ChainOK /\ OracleOK /\ ClientOK
  BY InvParts
<1> DEFINE missing == MIN_MEMBERS_COUNT - Cardinality(FastLane)
<1>2. /\ Begin("idle", NoWork) /\ UNCHANGED chainVars
      /\ UNCHANGED <<votes, processed, extraSubmitted>>
      /\ committee' = IF missing > 0
                      THEN [total |-> committee.total + missing, quorum |-> MIN_MEMBERS_COUNT]
                      ELSE committee
  BY DEF EnsureOracleCommitteeMembers
<1>3. missing \in Int /\ MIN_MEMBERS_COUNT \in Nat
  BY <1>1, LaneTyped, ReportingAssumption
<1> HIDE DEF missing
<1>4. committee' \in [total : Nat, quorum : Nat] /\ committee.total <= committee'.total
      /\ committee.total \in Nat
  BY <1>1, <1>2, <1>3 DEF OracleOK
<1>5. OracleOK'
  <2>1. \A v \in votes : v.member \in 0..committee'.total - 1
    <3> SUFFICES ASSUME NEW v \in votes PROVE v.member \in 0..committee'.total - 1
      OBVIOUS
    <3>1. v.member \in 0..committee.total - 1
      BY <1>1 DEF OracleOK
    <3>2. committee'.total \in Nat
      BY <1>4
    <3> QED
      BY <1>4, <3>1, <3>2
  <2> QED
    BY <1>1, <1>2, <1>4, <2>1 DEF OracleOK
<1>6. ClientOK'
  BY <1>1, <1>2, NoWorkTyped, Control DEF Places
<1> QED
  BY <1>1, <1>2, <1>5, <1>6, Kept, InvParts

\* The client's variables, and a change of one of them.
LEMMA WorkTyped ==
  ASSUME NEW w \in WorkType
  PROVE  /\ w.opt \in OptionsType /\ w.drains \in BOOLEAN /\ w.data \in ReportType
         /\ w.sim.collected \in Nat /\ w.calc \in CalcType /\ w.asked \in SUBSET Nat
         /\ \A d \in ReportType : /\ [w EXCEPT !.data = d] \in WorkType
                                  /\ [w EXCEPT !.data = d].data = d
         /\ \A c \in CalcType : [w EXCEPT !.calc = c] \in WorkType
         /\ \A m \in Nat : [w EXCEPT !.asked = @ \cup {m}] \in WorkType
<1>1. ASSUME NEW d \in ReportType
      PROVE  [w EXCEPT !.data = d] \in WorkType /\ [w EXCEPT !.data = d].data = d
  BY DEF WorkType
<1>2. ASSUME NEW c \in CalcType PROVE [w EXCEPT !.calc = c] \in WorkType
  BY DEF WorkType
<1>3. ASSUME NEW m \in Nat PROVE [w EXCEPT !.asked = @ \cup {m}] \in WorkType
  BY DEF WorkType
<1> QED
  BY <1>1, <1>2, <1>3 DEF WorkType

\* What the client reads from a sound pool is a report without withdrawals.
LEMMA DataTyped ==
  ASSUME ChainOK, NEW o \in OptionsType
  PROVE  ReadData(o) \in ReportType /\ ReadData(o).batches = << >>
<1> DEFINE refSlot == CurrentRefSlot
           n       == pool.clValidators + o.clAppearedValidators
           cl      == pool.clBalance + o.clDiff
           wv      == IF o.excludeVaultsBalances THEN 0 ELSE pool.withdrawalVault
           ev      == IF o.excludeVaultsBalances THEN 0 ELSE pool.elVault
           burn    == pool.cover + pool.nonCover
<1>1. ReadData(o) = [NoData EXCEPT !.refSlot = refSlot, !.numValidators = n, !.clBalance = cl,
                                   !.withdrawalVaultBalance = wv, !.elRewardsVaultBalance = ev,
                                   !.sharesRequestedToBurn = burn]
  BY Zenon DEF ReadData
<1>2. /\ refSlot \in Nat /\ n \in Nat /\ cl \in Int /\ wv \in Nat /\ ev \in Nat /\ burn \in Nat
  <2>1. o.clAppearedValidators \in Nat /\ o.clDiff \in Int
    BY DEF OptionsType
  <2>2. /\ pool.clValidators \in Nat /\ pool.clBalance \in Nat /\ pool.withdrawalVault \in Nat
        /\ pool.elVault \in Nat /\ pool.cover \in Nat /\ pool.nonCover \in Nat
    BY PoolTyped DEF ChainOK, Sound
  <2>3. refSlot \in Nat
    BY RefSlotTyped
  <2> HIDE DEF refSlot
  <2> QED
    BY <2>1, <2>2, <2>3
<1> HIDE DEF refSlot, n, cl, wv, ev, burn
<1>3. NoData \in ReportType /\ NoData.batches = << >>
  BY NoWorkTyped
<1> QED
  BY <1>1, <1>2, <1>3 DEF ReportType

-------------------------------------------------------------------------------
\* The client's steps

\* waitNextAvailableReportTime moves the clock forward.
LEMMA WaitInv == Inv /\ WaitNextAvailableReportTime => Inv'
<1> SUFFICES ASSUME Inv, WaitNextAvailableReportTime PROVE Inv'
  OBVIOUS
<1>1. ChainOK /\ OracleOK /\ ClientOK
  BY InvParts
<1>2. /\ slot' = NextReportSlot /\ votes' = {}
      /\ Continue("read", work) \/ Throw("expectation")
      /\ UNCHANGED <<pool, committee, processed, extraSubmitted>>
  BY DEF WaitNextAvailableReportTime
<1>3. slot' \in Nat /\ slot <= slot'
  <2>1. /\ OffsetSlots \in Nat /\ slot \in Nat /\ CurrentRefSlot \in Nat /\ SlotsPerFrame \in Nat
        /\ slot <= CurrentRefSlot + SlotsPerFrame
    <3>1. OffsetSlots \in 1..SlotsPerFrame
      BY ReportingAssumption DEF SlotsPerFrame
    <3> QED
      BY <1>1, <3>1, RefSlotTyped DEF ChainOK
  <2> QED
    BY <1>2, <2>1 DEF NextReportSlot
<1>4. ChainOK'
  <2>1. FrameStarted(slot', FrameCfg)
    BY <1>1, <1>3, ClockGoesOn
  <2> QED
    BY <1>1, <1>2, <1>3, <2>1 DEF ChainOK
<1>5. OracleOK'
  BY <1>1, <1>2 DEF OracleOK
<1>6. ClientOK'
  <2>1. "read" \in Places /\ "expectation" \in Failures /\ work \in WorkType
    BY <1>1 DEF Places, Failures, ClientOK
  <2> QED
    BY <1>1, <1>2, <2>1, Control
<1> QED
  BY <1>4, <1>5, <1>6, InvParts

\* The end of a dry run, or on to the committee.
LEMMA WithDataOK ==
  ASSUME ClientOK, NEW w \in WorkType, WithData(w)
  PROVE  ClientOK'
<1>1. Return \/ Continue("consensus", w)
  BY DEF WithData
<1> QED
  BY <1>1, Control DEF Places

\* The client reads the chain.
LEMMA ReadInv == Inv /\ Read => Inv'
<1> SUFFICES ASSUME Inv, Read PROVE Inv'
  OBVIOUS
<1>1. ChainOK /\ OracleOK /\ ClientOK
  BY InvParts
<1> DEFINE w == [work EXCEPT !.data = ReadData(opt)]
<1>2. WithData(w) \/ Continue("simulate", w)
  BY DEF Read
<1>3. UNCHANGED chainVars /\ UNCHANGED oracleVars
  BY DEF Read
<1>4. w \in WorkType /\ w.data.batches = << >>
  <2>1. opt \in OptionsType /\ work \in WorkType
    BY <1>1, WorkTyped DEF opt, ClientOK
  <2>2. ReadData(opt) \in ReportType /\ ReadData(opt).batches = << >>
    BY <1>1, <2>1, DataTyped
  <2> QED
    BY <2>1, <2>2, WorkTyped
<1> HIDE DEF w
<1>5. ClientOK'
  <2>1. CASE WithData(w)
    BY <1>1, <1>4, <2>1, WithDataOK
  <2>2. CASE Continue("simulate", w)
    BY <1>1, <1>4, <2>2, Control DEF Places
  <2> QED
    BY <1>2, <2>1, <2>2
<1> QED
  BY <1>1, <1>3, <1>5, Kept, InvParts

\* The simulation: a pool with shares keeps them, so that its rate is a number.
LEMMA SimulateInv == Inv /\ Solvent /\ Simulate => Inv'
<1> SUFFICES ASSUME Inv, Solvent, Simulate PROVE Inv'
  OBVIOUS
<1>1. ChainOK /\ OracleOK /\ ClientOK
  BY InvParts
<1>2. UNCHANGED chainVars /\ UNCHANGED oracleVars
  BY DEF Simulate
<1> DEFINE next(s) == [work EXCEPT !.sim = [postTotalPooledEther |-> TotalPooledEther(s.pool),
                                            collected            |-> s.withdrawals + s.elRewards],
                                   !.data.rate = RateAfter(s.pool)]
           d == [data EXCEPT !.sharesRequestedToBurn = 0]
<1>3. PICK s \in SimulatedReport(data) :
        IF s.accepted THEN Continue("budget", next(s)) ELSE Throw("refused")
  BY DEF Simulate
<1>4. s \in HandleOracleReport(pool, d)
  BY DEF SimulatedReport
<1>5. CASE s.accepted
  <2>1. data \in ReportType /\ work \in WorkType /\ data.batches = << >>
    BY <1>1, WorkTyped DEF data, ClientOK, Simulate
  <2>2. d \in ReportType /\ d.batches = << >> /\ d.sharesRequestedToBurn = 0
    BY <2>1 DEF ReportType
  <2>3. Sound(pool) /\ TotalPooledEther(pool) > 0 /\ pool.totalShares > 0
    BY <1>1 DEF ChainOK, Solvent
  <2> HIDE DEF d
  <2>4. /\ Sound(s.pool) /\ s.withdrawals \in Nat /\ s.elRewards \in Nat
        /\ pool.totalShares <= s.pool.totalShares
    BY <1>4, <1>5, <2>2, <2>3, ReportSound
  <2> DEFINE rate == RateAfter(s.pool)
             ether == TotalPooledEther(s.pool)
             got == s.withdrawals + s.elRewards
             old == data
  <2>5. /\ ether \in Nat /\ got \in Nat
        /\ pool.totalShares \in Nat /\ s.pool.totalShares \in Nat
    <3>1. pool \in Pool /\ s.pool \in Pool
      BY <2>3, <2>4 DEF Sound
    <3>2. pool.totalShares \in Nat /\ s.pool.totalShares \in Nat
      BY <3>1, PoolTyped
    <3>3. ether \in Nat
      BY <2>4, EtherTyped
    <3> HIDE DEF ether
    <3> QED
      BY <2>4, <3>2, <3>3
  <2>6. rate \in Nat
    <3> DEFINE x == ether * E27_PRECISION_BASE
               total == s.pool.totalShares
    <3>1. x \in Nat
      <4>1. E27_PRECISION_BASE \in Nat
        BY BatchesAssumption
      <4> HIDE DEF ether
      <4> QED
        BY <2>5, <4>1, ProductTyped
    <3>2. total \in Nat \ {0}
      BY <2>3, <2>4, <2>5
    <3>3. rate = x \div total
      BY DEF RateAfter
    <3> HIDE DEF x, total, rate
    <3> QED
      BY <3>1, <3>2, <3>3, Quotient
  <2>7. next(s) = [work EXCEPT !.sim = [postTotalPooledEther |-> ether, collected |-> got],
                               !.data = [old EXCEPT !.rate = rate]]
    BY DEF data
  <2> HIDE DEF rate, ether, got, old
  <2>8. [old EXCEPT !.rate = rate] \in ReportType
    BY <2>1, <2>6 DEF ReportType, old
  <2>9. next(s) \in WorkType
    <3> DEFINE e == [old EXCEPT !.rate = rate]
               sim == [postTotalPooledEther |-> ether, collected |-> got]
    <3>1. next(s) = [work EXCEPT !.sim = sim, !.data = e]
      BY <2>7
    <3>2. e \in ReportType /\ sim \in [postTotalPooledEther : Nat, collected : Nat]
      BY <2>5, <2>8
    <3> HIDE DEF e, sim, next
    <3> QED
      BY <2>1, <3>1, <3>2 DEF WorkType
  <2>10. Continue("budget", next(s))
    BY <1>3, <1>5
  <2> HIDE DEF next
  <2>11. ClientOK'
    BY <1>1, <2>9, <2>10, Control DEF Places
  <2> QED
    BY <1>1, <1>2, <2>11, Kept, InvParts
<1>6. CASE ~s.accepted
  <2>1. Throw("refused")
    BY <1>3, <1>6
  <2>2. ClientOK'
    BY <1>1, <2>1, Control DEF Failures
  <2> QED
    BY <1>1, <1>2, <2>2, Kept, InvParts
<1> QED
  BY <1>5, <1>6

\* The ether there is for withdrawals.
LEMMA BudgetInv == Inv /\ Budget => Inv'
<1> SUFFICES ASSUME Inv, Budget PROVE Inv'
  OBVIOUS
<1>1. ChainOK /\ OracleOK /\ ClientOK
  BY InvParts
<1> DEFINE place == IF AvailableEth = 0 THEN "bunker" ELSE "calculate"
           c == StartState(AvailableEth)
           w == [work EXCEPT !.calc = c]
<1>2. Continue(place, w) /\ UNCHANGED chainVars /\ UNCHANGED oracleVars
  BY DEF Budget
<1>3. AvailableEth \in Nat
  <2>1. work.sim.collected \in Nat
    BY <1>1, WorkTyped DEF ClientOK
  <2>2. pool.bufferedEther \in Nat
    BY <1>1, PoolTyped DEF ChainOK, Sound
  <2>3. UnfinalizedStETH(pool) \in Nat
    BY <1>1, UnfinalizedTyped DEF ChainOK
  <2> QED
    BY <2>1, <2>2, <2>3 DEF AvailableEth, Least
<1>4. c \in CalcType
  BY <1>3, EmptySeq DEF StartState, CalcType
<1>5. place \in Places /\ place # "simulate"
  BY DEF Places
<1> HIDE DEF c, place
<1>6. w \in WorkType
  BY <1>1, <1>4, WorkTyped DEF ClientOK
<1> HIDE DEF w
<1>7. ClientOK'
  BY <1>1, <1>2, <1>5, <1>6, Control
<1> QED
  BY <1>1, <1>2, <1>7, Kept, InvParts

\* One call of calculateFinalizationBatches.
LEMMA CalculateInv == Inv /\ Calculate => Inv'
<1> SUFFICES ASSUME Inv, Calculate PROVE Inv'
  OBVIOUS
<1>1. ChainOK /\ OracleOK /\ ClientOK
  BY InvParts
<1> DEFINE c == CalculateFinalizationBatches(pool.queue, pool.lastFinalized, data.rate,
                                             MaxTimestamp, CallSize, work.calc)
           place == IF IsFinished(pool.queue, pool.lastFinalized, c) THEN "bunker" ELSE pc
           w == [work EXCEPT !.calc = c]
<1>2. /\ Throw("exhausted") \/ Continue(place, w)
      /\ UNCHANGED chainVars /\ UNCHANGED oracleVars
  BY DEF Calculate
<1>3. place \in Places /\ place # "simulate"
  BY DEF Calculate, Places
<1>4. c \in CalcType
  <2>1. pool.queue \in Seq(Request) /\ Growing(pool.queue) /\ pool.lastFinalized \in Nat
    BY <1>1, PoolTyped DEF ChainOK, Sound
  <2>2. work.calc \in CalcType /\ data \in ReportType
    BY <1>1, WorkTyped DEF ClientOK, data
  <2>3. data.rate \in Nat /\ CallSize \in Nat
    BY <2>2, ReportingAssumption DEF ReportType
  <2> QED
    BY <2>1, <2>2, <2>3, CalculateTyped
<1> HIDE DEF c, place
<1>5. w \in WorkType
  BY <1>1, <1>4, WorkTyped DEF ClientOK
<1> HIDE DEF w
<1>6. ClientOK'
  BY <1>1, <1>2, <1>3, <1>5, Control DEF Failures
<1> QED
  BY <1>1, <1>2, <1>6, Kept, InvParts

\* Bunker mode and the batches go into the report.
LEMMA BunkerInv == Inv /\ Bunker => Inv'
<1> SUFFICES ASSUME Inv, Bunker PROVE Inv'
  OBVIOUS
<1>1. ChainOK /\ OracleOK /\ ClientOK
  BY InvParts
<1> DEFINE b == work.calc.batches
           loss == IsLoss
           d == [data EXCEPT !.batches = b, !.bunker = loss]
           w == [work EXCEPT !.data = d]
<1>2. /\ WithData([work EXCEPT !.data.batches = b, !.data.bunker = loss])
      /\ UNCHANGED chainVars /\ UNCHANGED oracleVars
  BY DEF Bunker
<1>3. work \in WorkType /\ work.calc \in CalcType /\ data \in ReportType
  BY <1>1, WorkTyped DEF ClientOK, data
<1>4. b \in Seq(Nat)
  BY <1>3 DEF CalcType
<1>5. loss \in BOOLEAN
  BY DEF IsLoss
<1>6. [work EXCEPT !.data.batches = b, !.data.bunker = loss] = w
  <2> HIDE DEF b, loss
  <2> QED
    BY <1>3 DEF WorkType, data
<1> HIDE DEF b, loss
<1>7. d \in ReportType
  BY <1>3, <1>4, <1>5 DEF ReportType
<1> HIDE DEF d
<1>8. w \in WorkType
  BY <1>3, <1>7, WorkTyped
<1> HIDE DEF w
<1>9. ClientOK'
  BY <1>1, <1>2, <1>6, <1>8, WithDataOK
<1> QED
  BY <1>1, <1>2, <1>9, Kept, InvParts

\* A member of the fast lane votes.
LEMMA ReachConsensusInv == Inv /\ ReachConsensus => Inv'
<1> SUFFICES ASSUME Inv, ReachConsensus PROVE Inv'
  OBVIOUS
<1>1. ChainOK /\ OracleOK /\ ClientOK
  BY InvParts
<1>2. /\ pc = "consensus" /\ FastLane \ work.asked # {}
      /\ UNCHANGED chainVars /\ UNCHANGED <<committee, processed, extraSubmitted>>
  BY DEF ReachConsensus
<1> DEFINE m == NextVoter
           w == [work EXCEPT !.asked = @ \cup {m}]
<1>3. \/ Throw("refused") /\ votes' = votes
      \/ Continue(pc, w) /\ votes' = VotesWith(m)
  BY DEF ReachConsensus
<1>4. m \in FastLane
  <2> DEFINE left == FastLane \ work.asked
  <2>1. left \in SUBSET Nat /\ left # {}
    BY <1>1, <1>2, LaneTyped
  <2>2. m = CHOOSE x \in left : \A y \in left : x <= y
    BY DEF NextVoter, Min
  <2> HIDE DEF left, m
  <2>3. m \in left
    BY <2>1, <2>2, NatMin
  <2> QED
    BY <2>3 DEF left
<1>5. m \in Nat /\ m \in 0..committee.total - 1
  BY <1>1, <1>4, LaneTyped
<1> HIDE DEF m
<1>6. \A v \in votes' : v.member \in 0..committee.total - 1
  <2>1. \A v \in votes' : v \in votes \/ v = [member |-> m, data |-> data]
    BY <1>3 DEF VotesWith
  <2> QED
    BY <1>1, <1>5, <2>1 DEF OracleOK
<1>7. OracleOK'
  BY <1>1, <1>2, <1>6 DEF OracleOK
<1>8. w \in WorkType
  BY <1>1, <1>5, WorkTyped DEF ClientOK
<1> HIDE DEF w
<1>9. ClientOK'
  <2>1. pc \in Places /\ "refused" \in Failures /\ pc # "simulate"
    BY <1>2 DEF Places, Failures
  <2> QED
    BY <1>1, <1>3, <1>8, <2>1, Control
<1> QED
  BY <1>1, <1>2, <1>7, <1>9, Kept, InvParts

\* The client looks whether there is consensus.
LEMMA ConsensusExpectedInv == Inv /\ ConsensusExpected => Inv'
<1> SUFFICES ASSUME Inv, ConsensusExpected PROVE Inv'
  OBVIOUS
<1>1. ChainOK /\ OracleOK /\ ClientOK
  BY InvParts
<1>2. /\ Continue("main", work) \/ Throw("expectation")
      /\ UNCHANGED chainVars /\ UNCHANGED oracleVars
  BY DEF ConsensusExpected
<1>3. "main" \in Places /\ "expectation" \in Failures /\ work \in WorkType
  BY <1>1 DEF Places, Failures, ClientOK
<1>4. ClientOK'
  BY <1>1, <1>2, <1>3, Control
<1> QED
  BY <1>1, <1>2, <1>4, Kept, InvParts

\* The report is settled, or refused.
LEMMA SubmitReportDataInv == Inv /\ Solvent /\ SubmitReportData => Inv'
<1> SUFFICES ASSUME Inv, Solvent, SubmitReportData PROVE Inv'
  OBVIOUS
<1>1. ChainOK /\ OracleOK /\ ClientOK
  BY InvParts
<1>2. /\ pc = "main" /\ UNCHANGED <<slot, committee, votes>>
  BY DEF SubmitReportData
<1>3. PICK outcome \in Submitted(pool, data) :
        \/ /\ outcome.accepted /\ Continue("extra", work) /\ pool' = outcome.pool
           /\ processed' = data.refSlot /\ extraSubmitted' = FALSE
        \/ Throw("refused") /\ UNCHANGED <<pool, processed, extraSubmitted>>
  BY DEF SubmitReportData
<1>4. work \in WorkType /\ data \in ReportType
  BY <1>1, WorkTyped DEF ClientOK, data
<1>5. CASE /\ outcome.accepted /\ Continue("extra", work) /\ pool' = outcome.pool
           /\ processed' = data.refSlot /\ extraSubmitted' = FALSE
  <2> DEFINE told == OnOracleReport(pool, data)
             d == data
  <2>1. /\ Sound(told) /\ TotalPooledEther(told) = TotalPooledEther(pool)
        /\ BatchesAccepted(told, d) = BatchesAccepted(pool, d)
        /\ EtherToLock(told, d) = EtherToLock(pool, d)
    BY <1>1, <1>4, OnOracleReportSound DEF ChainOK
  <2>2. outcome \in HandleOracleReport(told, d) /\ d \in ReportType /\ outcome.accepted
    BY <1>4, <1>5 DEF Submitted
  <2>3. /\ TotalPooledEther(pool) > 0
        /\ BatchesAccepted(pool, d) /\ d.batches # << >> => EtherToLock(pool, d) > 0
    BY <1>2 DEF Solvent
  <2> HIDE DEF told, d
  <2>4. Sound(outcome.pool)
    BY <2>1, <2>2, <2>3, ReportSound
  <2>5. ChainOK'
    BY <1>1, <1>2, <1>5, <2>4 DEF ChainOK
  <2>6. processed' \in Nat
    BY <1>4, <1>5 DEF ReportType
  <2>7. OracleOK'
    BY <1>1, <1>2, <1>5, <2>6 DEF OracleOK
  <2>8. ClientOK'
    BY <1>1, <1>4, <1>5, Control DEF Places
  <2> QED
    BY <2>5, <2>7, <2>8, InvParts
<1>6. CASE Throw("refused") /\ UNCHANGED <<pool, processed, extraSubmitted>>
  <2>1. ClientOK'
    BY <1>1, <1>6, Control DEF Failures
  <2>2. UNCHANGED chainVars /\ UNCHANGED oracleVars
    BY <1>2, <1>6 DEF chainVars, oracleVars
  <2> QED
    BY <1>1, <2>1, <2>2, Kept, InvParts
<1> QED
  BY <1>3, <1>5, <1>6

\* The extra data, and the expectations after it.
LEMMA SubmitReportExtraDataInv == Inv /\ SubmitReportExtraData => Inv'
<1> SUFFICES ASSUME Inv, SubmitReportExtraData PROVE Inv'
  OBVIOUS
<1>1. ChainOK /\ OracleOK /\ ClientOK
  BY InvParts
<1>2. /\ Throw("expectation") \/ Continue("queue", NoWork) \/ Return
      /\ extraSubmitted' = TRUE /\ UNCHANGED chainVars
      /\ UNCHANGED <<committee, votes, processed>>
  BY DEF SubmitReportExtraData
<1>3. OracleOK'
  BY <1>1, <1>2 DEF OracleOK
<1>4. "queue" \in Places /\ "expectation" \in Failures /\ NoWork \in WorkType
  BY NoWorkTyped DEF Places, Failures
<1>5. ClientOK'
  BY <1>1, <1>2, <1>4, Control
<1> QED
  BY <1>1, <1>2, <1>3, <1>5, Kept, InvParts

\* The head of the loop of finalizeWithdrawalQueue, and its readings.
LEMMA DrainControl ==
  ASSUME ClientOK,
         NEW b \in BOOLEAN,
         \/ HeadOfLoop(b) \/ Throw("balance") \/ Return
         \/ Continue("topup", [NoWork EXCEPT !.drained = b])
  PROVE  ClientOK'
<1> DEFINE loops == [NoWork EXCEPT !.drains = TRUE]
           reads == [NoWork EXCEPT !.drained = b]
<1>1. NoWork \in WorkType /\ loops \in WorkType /\ reads \in WorkType
  BY NoWorkTyped
<1>2. \/ Continue("last", NoWork) \/ Continue("wait", loops) \/ Continue("topup", reads)
      \/ Throw("balance") \/ Return
  BY DEF HeadOfLoop
<1>3. {"last", "wait", "topup"} \subseteq Places /\ "balance" \in Failures
  BY DEF Places, Failures
<1> HIDE DEF loops, reads
<1> QED
  BY <1>1, <1>2, <1>3, Control

LEMMA ReadingInv == Inv /\ (HolderExpected \/ ReadQueue) => Inv'
<1> SUFFICES ASSUME Inv, HolderExpected \/ ReadQueue PROVE Inv'
  OBVIOUS
<1>1. ChainOK /\ OracleOK /\ ClientOK
  BY InvParts
<1>2. /\ \/ HeadOfLoop(Drained) \/ Throw("balance")
         \/ Continue("topup", [NoWork EXCEPT !.drained = Drained])
      /\ UNCHANGED chainVars /\ UNCHANGED oracleVars
  BY DEF HolderExpected, ReadQueue
<1>3. Drained \in BOOLEAN
  BY DEF Drained
<1>4. ClientOK'
  BY <1>1, <1>2, <1>3, DrainControl
<1> QED
  BY <1>1, <1>2, <1>4, Kept, InvParts

\* The submits in the loop and after it.
LEMMA TopUpInv == Inv /\ Solvent /\ (TopUp \/ LastTopUp) => Inv'
<1> SUFFICES ASSUME Inv, Solvent, TopUp \/ LastTopUp PROVE Inv'
  OBVIOUS
<1>1. ChainOK /\ OracleOK /\ ClientOK
  BY InvParts
<1>2. /\ HeadOfLoop(work.drained) \/ Return
      /\ pool' = Submit(pool, TopUpAmount) /\ slot' = slot /\ UNCHANGED oracleVars
  BY DEF TopUp, LastTopUp
<1>3. TopUpAmount \in Nat /\ work.drained \in BOOLEAN
  BY <1>1, ReportingAssumption DEF ClientOK, WorkType
<1>4. ChainOK'
  BY <1>1, <1>2, <1>3, SubmitKeeps
<1>5. ClientOK'
  BY <1>1, <1>2, <1>3, DrainControl
<1> QED
  BY <1>1, <1>2, <1>4, <1>5, Kept, InvParts

\* handleOracleReport straight to Lido.
LEMMA HandleReportDirectlyInv == Inv /\ Solvent /\ HandleReportDirectly => Inv'
<1> SUFFICES ASSUME Inv, Solvent, HandleReportDirectly PROVE Inv'
  OBVIOUS
<1>1. ChainOK /\ OracleOK /\ ClientOK
  BY InvParts
<1>2. PICK o \in ReportOptions : \E outcome \in HandleOracleReport(pool, ReadData(o)) :
        /\ pool' = IF outcome.accepted THEN outcome.pool ELSE pool
        /\ failure' = IF outcome.accepted THEN "none" ELSE "refused"
  BY DEF HandleReportDirectly
<1>3. PICK outcome \in HandleOracleReport(pool, ReadData(o)) :
        /\ pool' = IF outcome.accepted THEN outcome.pool ELSE pool
        /\ failure' = IF outcome.accepted THEN "none" ELSE "refused"
  BY <1>2
<1>4. slot' = slot /\ UNCHANGED oracleVars /\ pc' = pc /\ work' = work
  BY DEF HandleReportDirectly
<1>5. Sound(pool')
  <2>1. CASE outcome.accepted
    <3> DEFINE d == ReadData(o)
    <3>1. d \in ReportType /\ d.batches = << >>
      BY <1>1, ReportingAssumption, DataTyped
    <3>2. outcome \in HandleOracleReport(pool, d)
      BY <1>3
    <3> HIDE DEF d
    <3>3. Sound(pool) /\ TotalPooledEther(pool) > 0
      BY <1>1 DEF ChainOK, Solvent
    <3>4. Sound(outcome.pool)
      BY <2>1, <3>1, <3>2, <3>3, ReportSound
    <3> QED
      BY <1>3, <2>1, <3>4
  <2>2. CASE ~outcome.accepted
    BY <1>1, <1>3, <2>2 DEF ChainOK
  <2> QED
    BY <2>1, <2>2
<1>6. ChainOK'
  BY <1>1, <1>4, <1>5 DEF ChainOK
<1>7. ClientOK'
  <2>1. failure' \in Failures
    BY <1>3 DEF Failures
  <2> QED
    BY <1>1, <1>4, <2>1 DEF ClientOK, data
<1> QED
  BY <1>1, <1>4, <1>6, <1>7, Kept, InvParts

\* Nothing changes.
LEMMA StutterInv == Inv /\ UNCHANGED vars => Inv'
<1> SUFFICES ASSUME Inv, UNCHANGED vars PROVE Inv'
  OBVIOUS
<1>1. UNCHANGED chainVars /\ UNCHANGED oracleVars /\ UNCHANGED clientVars
  BY DEF vars
<1> QED
  BY <1>1, Kept, InvParts

\* So every step does, in which the pool is worth something.
LEMMA StepKeepsInv == Inv /\ Solvent /\ [Next]_vars => Inv'
BY UserActsInv, PassTimeInv, ReportInv, FinalizeInv, EnsureInv, HandleReportDirectlyInv,
   WaitInv, ReadInv, SimulateInv, BudgetInv, CalculateInv, BunkerInv, ReachConsensusInv,
   ConsensusExpectedInv, SubmitReportDataInv, SubmitReportExtraDataInv, ReadingInv,
   TopUpInv, StutterInv DEF Next, ClientStep

\* TypeOK, along every behaviour in which the pool is worth something and the
\* requests finalized are: the contracts' records, the committee's votes and the
\* client's place keep their types, so that no balance, share or count ever falls
\* below zero (the contracts would revert, or wrap) whoever acts in between.
THEOREM ReportingTyped == Spec /\ []Solvent => []TypeOK
<1>1. Inv => TypeOK
  BY DEF Inv
<1> QED
  BY <1>1, InitInv, StepKeepsInv, PTL DEF Spec

\* Conserved, under the same hypothesis: for every number of modules, fees, limit,
\* amount and committee, whatever is reported, simulated or recovered and whoever
\* acts between the client's calls, the shares of all accounts add up to the total,
\* the buffer is the contract's ether, the burner holds what it is asked to burn
\* and the queue the shares of the requests that are not finalized.
THEOREM AlwaysConserved == Spec /\ []Solvent => []Conserved
<1>1. Inv => Conserved
  BY DEF Inv, Sound, Conserved
<1> QED
  BY <1>1, InitInv, StepKeepsInv, PTL DEF Spec

-------------------------------------------------------------------------------
\* Bunker mode

\* The pooled ether that the report r leads to, what the queue is paid included.
Expected(p, r) ==
  TotalPooledEther(p) + (r.clBalance - PreCLBalance(p, r))
    + (Smoothed(p, r).withdrawals + Smoothed(p, r).elRewards)

\* What the vaults may pay in depends on the balances reported, and neither on the
\* shares to burn nor on the requests to finalize: the simulation leaves both out.
LEMMA ExpectedFromBalances ==
  ASSUME NEW p, NEW q, NEW d, NEW e,
         TotalPooledEther(q) = TotalPooledEther(p), q.totalShares = p.totalShares,
         q.clBalance = p.clBalance, q.clValidators = p.clValidators,
         e.numValidators = d.numValidators, e.clBalance = d.clBalance,
         e.withdrawalVaultBalance = d.withdrawalVaultBalance,
         e.elRewardsVaultBalance = d.elRewardsVaultBalance
  PROVE  Expected(q, e) = Expected(p, d)
<1> DEFINE LimiterOf(x) == InitLimiterState(Limits.maxPositiveTokenRebase, TotalPooledEther(x),
                                            x.totalShares)
           AfterCL(x, r) == AfterCLUpdate(LimiterOf(x), PreCLBalance(x, r), r.clBalance)
           AfterWd(x, r) == IncreaseEther(LimiterOf(x), AfterCL(x, r), r.withdrawalVaultBalance)
           Wd(x, r) == Consumed(LimiterOf(x), AfterCL(x, r), r.withdrawalVaultBalance)
           El(x, r) == Consumed(LimiterOf(x), AfterWd(x, r), r.elRewardsVaultBalance)
<1>1. ASSUME NEW x, NEW r
      PROVE  Smoothed(x, r).withdrawals = Wd(x, r) /\ Smoothed(x, r).elRewards = El(x, r)
  BY DEF Smoothed, SmoothenTokenRebase
<1>2. PreCLBalance(q, e) = PreCLBalance(p, d) /\ LimiterOf(q) = LimiterOf(p)
  BY Zenon DEF PreCLBalance
<1> HIDE DEF LimiterOf
<1>3. AfterCL(q, e) = AfterCL(p, d)
  BY <1>2, Zenon
<1> HIDE DEF AfterCL
<1>4. AfterWd(q, e) = AfterWd(p, d)
  BY <1>2, <1>3, Zenon
<1> HIDE DEF AfterWd
<1>5. Wd(q, e) = Wd(p, d) /\ El(q, e) = El(p, d)
  BY <1>2, <1>3, <1>4, Zenon
<1> HIDE DEF Wd, El
<1> QED
  BY <1>1, <1>2, <1>5, Zenon DEF Expected

\* What an accepted report does lead to.
LEMMA EtherSettled ==
  ASSUME NEW p, Sound(p), TotalPooledEther(p) > 0, NEW r \in ReportType,
         NEW o \in HandleOracleReport(p, r), o.accepted,
         BatchesAccepted(p, r) /\ r.batches # << >> => EtherToLock(p, r) > 0
  PROVE  /\ TotalPooledEther(o.pool) + EtherToLock(p, r) = Expected(p, r)
         /\ o.pool.lockedEther = p.lockedEther + EtherToLock(p, r)
         /\ o.pool.bunker = p.bunker
         /\ Expected(p, r) \in Int /\ EtherToLock(p, r) \in Nat
<1> DEFINE q == o.pool
           s == Smoothed(p, r)
           lock == EtherToLock(p, r)
           paid == s.withdrawals + s.elRewards
           size == DEPOSIT_SIZE
           deposited == p.depositedValidators
           before == p.clValidators
           after == r.numValidators
<1>1. /\ PaidIn(p, r, s, q) /\ s.withdrawals \in Nat /\ s.elRewards \in Nat /\ lock \in Nat
      /\ CLStateAccepted(p, r)
  BY ReportSound
<1>2. /\ p.bufferedEther \in Nat /\ p.clBalance \in Nat
      /\ deposited \in Nat /\ before \in Nat /\ after \in Nat /\ size \in Nat
      /\ r.clBalance \in Int
  BY PoolTyped, LidoAssumption DEF Sound, ReportType
<1>3. /\ q.bufferedEther = p.bufferedEther + (paid - lock) /\ q.clBalance = r.clBalance
      /\ q.clValidators = after /\ q.depositedValidators = deposited
      /\ q.lockedEther = p.lockedEther + lock /\ q.bunker = p.bunker
  BY <1>1 DEF PaidIn
<1>4. paid \in Nat
  <2> HIDE DEF s
  <2> QED
    BY <1>1
<1>5. /\ TotalPooledEther(q) = p.bufferedEther + (paid - lock) + r.clBalance
                                 + (deposited - after) * size
      /\ TotalPooledEther(p) = p.bufferedEther + p.clBalance + (deposited - before) * size
      /\ PreCLBalance(p, r) = p.clBalance + (after - before) * size
  <2> HIDE DEF q, paid, lock
  <2> QED
    BY <1>3 DEF TotalPooledEther, PreCLBalance
<1>6. Expected(p, r) = TotalPooledEther(p) + (r.clBalance - PreCLBalance(p, r)) + paid
  BY DEF Expected
<1> DEFINE x == (deposited - after) * size
           y == (deposited - before) * size
           z == (after - before) * size
           buffer == p.bufferedEther
           clBefore == p.clBalance
           clAfter == r.clBalance
<1> HIDE DEF size, deposited, before, after
<1>7. x \in Int /\ y \in Int /\ z \in Int /\ x = y - z
  BY <1>2
<1> HIDE DEF x, y, z, paid, lock, buffer, clBefore, clAfter
<1>8. /\ buffer \in Int /\ clBefore \in Int /\ clAfter \in Int
      /\ TotalPooledEther(q) = buffer + (paid - lock) + clAfter + x
      /\ TotalPooledEther(p) = buffer + clBefore + y
      /\ Expected(p, r) = TotalPooledEther(p) + (clAfter - (clBefore + z)) + paid
  BY <1>2, <1>5, <1>6 DEF x, y, z, buffer, clBefore, clAfter
<1>9. TotalPooledEther(q) + lock = Expected(p, r) /\ Expected(p, r) \in Int
  BY <1>1, <1>4, <1>7, <1>8
<1> QED
  BY <1>1, <1>3, <1>9 DEF lock

\* What the client has in hand while nobody else acts: the simulation, and then the
\* mode of the report, are what the report will do.
Simulated == {"budget", "calculate", "bunker"}
Prepared  == {"consensus", "main"}

Foreseen ==
  ~touched /\ ~opt.skipWithdrawals =>
    /\ pc \in Simulated => work.sim.postTotalPooledEther = Expected(pool, data)
    /\ pc \in Prepared  => data.bunker = (TotalPooledEther(pool) > Expected(pool, data))

LEMMA InitForeseen == Init => Foreseen
  BY DEF Init, Foreseen, Simulated, Prepared

\* It says nothing elsewhere, and holds on while the report and the pool are kept.
LEMMA ForeseenKept ==
  /\ pc' \notin Simulated \cup Prepared => Foreseen'
  /\ touched' => Foreseen'
  /\ opt'.skipWithdrawals => Foreseen'
  /\ /\ Foreseen /\ pool' = pool /\ touched' = touched
     /\ opt' = opt /\ data' = data /\ work'.sim = work.sim
     /\ \/ pc \in Simulated /\ pc' \in Simulated
        \/ pc \in Prepared /\ pc' \in Prepared
     => Foreseen'
<1>1. pc' \notin Simulated \cup Prepared => Foreseen'
  BY DEF Foreseen
<1>2. (touched' => Foreseen') /\ (opt'.skipWithdrawals => Foreseen')
  BY DEF Foreseen
<1>3. ASSUME Foreseen, pool' = pool, touched' = touched, opt' = opt, data' = data,
             work'.sim = work.sim,
             \/ pc \in Simulated /\ pc' \in Simulated
             \/ pc \in Prepared /\ pc' \in Prepared
      PROVE  Foreseen'
  <2>1. Simulated \cap Prepared = {}
    BY DEF Simulated, Prepared
  <2>2. Expected(pool, data)' = Expected(pool, data)
    BY <1>3
  <2>3. TotalPooledEther(pool)' = TotalPooledEther(pool)
    BY <1>3
  <2> QED
    BY <1>3, <2>1, <2>2, <2>3 DEF Foreseen
<1> QED
  BY <1>1, <1>2, <1>3

\* Fields of the client's local variables that a step leaves alone.
LEMMA WorkFields ==
  ASSUME NEW w \in WorkType
  PROVE  /\ \A d : [w EXCEPT !.data = d].opt = w.opt /\ [w EXCEPT !.data = d].data = d
         /\ \A c : LET v == [w EXCEPT !.calc = c]
                   IN v.opt = w.opt /\ v.data = w.data /\ v.sim = w.sim
         /\ \A m : LET v == [w EXCEPT !.asked = @ \cup {m}]
                   IN v.opt = w.opt /\ v.data = w.data /\ v.sim = w.sim
BY DEF WorkType

\* The simulation foresees the report.
LEMMA SimulateForeseen == Inv /\ Solvent /\ Simulate => Foreseen'
<1> SUFFICES ASSUME Inv, Solvent, Simulate PROVE Foreseen'
  OBVIOUS
<1>1. ChainOK /\ ClientOK
  BY InvParts
<1>2. pool' = pool
  BY DEF Simulate, chainVars
<1> DEFINE next(s) == [work EXCEPT !.sim = [postTotalPooledEther |-> TotalPooledEther(s.pool),
                                            collected            |-> s.withdrawals + s.elRewards],
                                   !.data.rate = RateAfter(s.pool)]
           d == [data EXCEPT !.sharesRequestedToBurn = 0]
<1>3. PICK s \in SimulatedReport(data) :
        IF s.accepted THEN Continue("budget", next(s)) ELSE Throw("refused")
  BY DEF Simulate
<1>4. s \in HandleOracleReport(pool, d)
  BY DEF SimulatedReport
<1>5. CASE s.accepted
  <2>1. data \in ReportType /\ work \in WorkType /\ data.batches = << >>
    BY <1>1, WorkTyped DEF data, ClientOK, Simulate
  <2>2. /\ d \in ReportType /\ d.batches = << >> /\ d.numValidators = data.numValidators
        /\ d.clBalance = data.clBalance
        /\ d.withdrawalVaultBalance = data.withdrawalVaultBalance
        /\ d.elRewardsVaultBalance = data.elRewardsVaultBalance
    BY <2>1 DEF ReportType
  <2>3. Sound(pool) /\ TotalPooledEther(pool) > 0
    BY <1>1 DEF ChainOK, Solvent
  <2> DEFINE ether == TotalPooledEther(s.pool)
             got == s.withdrawals + s.elRewards
             rate == RateAfter(s.pool)
             after == next(s).data
  <2>4. /\ next(s).sim.postTotalPooledEther = ether
        /\ after.numValidators = data.numValidators /\ after.clBalance = data.clBalance
        /\ after.withdrawalVaultBalance = data.withdrawalVaultBalance
        /\ after.elRewardsVaultBalance = data.elRewardsVaultBalance
    <3> HIDE DEF ether, got, rate
    <3>1. next(s) = [work EXCEPT !.sim = [postTotalPooledEther |-> ether, collected |-> got],
                                 !.data.rate = rate]
      BY DEF ether, got, rate
    <3> HIDE DEF next
    <3>2. /\ next(s).sim = [postTotalPooledEther |-> ether, collected |-> got]
          /\ next(s).data = [work.data EXCEPT !.rate = rate]
      BY <2>1, <3>1 DEF WorkType
    <3> QED
      BY <2>1, <3>2 DEF ReportType, data
  <2> HIDE DEF d
  <2>5. TotalPooledEther(s.pool) + EtherToLock(pool, d) = Expected(pool, d)
        /\ Expected(pool, d) \in Int
    BY <1>4, <1>5, <2>2, <2>3, EtherSettled
  <2>6. EtherToLock(pool, d) = 0 /\ ether \in Nat
    <3>1. Sound(s.pool)
      BY <1>4, <1>5, <2>2, <2>3, ReportSound
    <3> QED
      BY <2>2, <3>1, EtherTyped DEF EtherToLock
  <2> HIDE DEF ether, after, next
  <2>7. ether = Expected(pool, d)
    BY <2>5, <2>6 DEF ether
  <2>8. Expected(pool, after) = Expected(pool, d)
    BY <2>2, <2>4, ExpectedFromBalances
  <2>9. pc' = "budget" /\ work' = next(s) /\ data' = after
    BY <1>3, <1>5 DEF Continue, data, after
  <2>10. pc' \notin Prepared /\ work'.sim.postTotalPooledEther = Expected(pool, data)'
    BY <1>2, <2>4, <2>7, <2>8, <2>9 DEF Prepared
  <2> QED
    BY <2>10 DEF Foreseen
<1>6. CASE ~s.accepted
  <2>1. pc' = "idle"
    BY <1>3, <1>6 DEF Throw
  <2> QED
    BY <2>1, ForeseenKept DEF Simulated, Prepared
<1> QED
  BY <1>5, <1>6

\* The mode of the report is read off the simulation.
LEMMA BunkerForeseen == Inv /\ Foreseen /\ Bunker => Foreseen'
<1> SUFFICES ASSUME Inv, Foreseen, Bunker PROVE Foreseen'
  OBVIOUS
<1>1. ChainOK /\ ClientOK
  BY InvParts
<1> DEFINE b == work.calc.batches
           loss == IsLoss
           old == data
           d == [old EXCEPT !.batches = b, !.bunker = loss]
           w == [work EXCEPT !.data = d]
<1>2. /\ WithData([work EXCEPT !.data.batches = b, !.data.bunker = loss])
      /\ pool' = pool /\ touched' = touched /\ pc = "bunker"
  BY DEF Bunker, chainVars
<1>3. work \in WorkType /\ data \in ReportType
  BY <1>1, WorkTyped DEF ClientOK, data
<1>4. [work EXCEPT !.data.batches = b, !.data.bunker = loss] = w
  <2> HIDE DEF b, loss
  <2> QED
    BY <1>3 DEF WorkType, data
<1>5. /\ d.bunker = loss /\ d.numValidators = data.numValidators
      /\ d.clBalance = data.clBalance
      /\ d.withdrawalVaultBalance = data.withdrawalVaultBalance
      /\ d.elRewardsVaultBalance = data.elRewardsVaultBalance
  <2> HIDE DEF b, loss
  <2> QED
    BY <1>3 DEF ReportType
<1> HIDE DEF d, b
<1>6. w.opt = opt /\ w.data = d
  BY <1>3, WorkFields DEF opt
<1> HIDE DEF w
<1>7. Expected(pool, d) = Expected(pool, data)
  BY <1>5, ExpectedFromBalances
<1>8. CASE Return
  BY <1>8, ForeseenKept DEF Return, Simulated, Prepared
<1>9. CASE Continue("consensus", w)
  <2>1. pc' = "consensus" /\ opt' = opt /\ data' = d
    BY <1>6, <1>9 DEF Continue, opt, data
  <2> SUFFICES ASSUME ~touched', ~opt'.skipWithdrawals PROVE Foreseen'
    BY DEF Foreseen
  <2>2. work.sim.postTotalPooledEther = Expected(pool, data)
    BY <1>2, <2>1 DEF Foreseen, Simulated
  <2>3. data'.bunker = (TotalPooledEther(pool) > Expected(pool, d))
    BY <1>5, <1>7, <2>1, <2>2, Zenon DEF IsLoss
  <2>4. pc' \notin Simulated /\ data'.bunker = (TotalPooledEther(pool) > Expected(pool, data))'
    BY <1>2, <2>1, <2>3 DEF Simulated
  <2> QED
    BY <2>4 DEF Foreseen
<1> QED
  BY <1>2, <1>4, <1>8, <1>9 DEF WithData

\* The other steps of the client.
LEMMA ClientForeseen == Inv /\ Solvent /\ Foreseen /\ ClientStep => Foreseen'
<1> SUFFICES ASSUME Inv, Solvent, Foreseen, ClientStep PROVE Foreseen'
  OBVIOUS
<1> USE DEF Simulated, Prepared
<1>1. work \in WorkType
  BY InvParts DEF ClientOK
<1>2. CASE WaitNextAvailableReportTime
  <2>1. pc' \in {"read", "idle"}
    BY <1>2 DEF WaitNextAvailableReportTime, Continue, Throw
  <2> QED
    BY <2>1, ForeseenKept
<1>3. CASE Read
  <2> DEFINE w == [work EXCEPT !.data = ReadData(opt)]
  <2>1. IF opt.skipWithdrawals THEN WithData(w) ELSE Continue("simulate", w)
    BY <1>3 DEF Read
  <2>2. w.opt = opt
    BY <1>1, WorkFields DEF opt
  <2> HIDE DEF w
  <2>3. pc' \in {"idle", "simulate"} \/ opt'.skipWithdrawals
    BY <2>1, <2>2 DEF WithData, Continue, Return, opt
  <2> QED
    BY <2>3, ForeseenKept
<1>4. CASE Simulate
  BY <1>4, SimulateForeseen
<1>5. CASE Budget
  <2> DEFINE c == StartState(AvailableEth)
             w == [work EXCEPT !.calc = c]
             place == IF AvailableEth = 0 THEN "bunker" ELSE "calculate"
  <2>1. Continue(place, w) /\ pool' = pool /\ touched' = touched /\ pc = "budget"
    BY <1>5 DEF Budget, chainVars
  <2>2. place \in Simulated
    OBVIOUS
  <2> HIDE DEF c, place
  <2>3. w.opt = opt /\ w.data = data /\ w.sim = work.sim
    BY <1>1, WorkFields DEF opt, data
  <2> HIDE DEF w
  <2>4. opt' = opt /\ data' = data /\ work'.sim = work.sim /\ pc' = place
    BY <2>1, <2>3 DEF Continue, opt, data
  <2> QED
    BY <2>1, <2>2, <2>4, ForeseenKept
<1>6. CASE Calculate
  <2> DEFINE c == CalculateFinalizationBatches(pool.queue, pool.lastFinalized, data.rate,
                                               MaxTimestamp, CallSize, work.calc)
             w == [work EXCEPT !.calc = c]
             place == IF IsFinished(pool.queue, pool.lastFinalized, c) THEN "bunker" ELSE pc
  <2>1. /\ Throw("exhausted") \/ Continue(place, w)
        /\ pool' = pool /\ touched' = touched /\ pc = "calculate"
    BY <1>6 DEF Calculate, chainVars
  <2>2. place \in Simulated
    BY <2>1
  <2> HIDE DEF c, place
  <2>3. w.opt = opt /\ w.data = data /\ w.sim = work.sim
    BY <1>1, WorkFields DEF opt, data
  <2> HIDE DEF w
  <2>4. CASE Throw("exhausted")
    BY <2>4, ForeseenKept DEF Throw
  <2>5. CASE Continue(place, w)
    <3>1. opt' = opt /\ data' = data /\ work'.sim = work.sim /\ pc' = place
      BY <2>3, <2>5 DEF Continue, opt, data
    <3> QED
      BY <2>1, <2>2, <3>1, ForeseenKept
  <2> QED
    BY <2>1, <2>4, <2>5
<1>7. CASE Bunker
  BY <1>7, BunkerForeseen
<1>8. CASE ReachConsensus
  <2> DEFINE m == NextVoter
             w == [work EXCEPT !.asked = @ \cup {m}]
  <2>1. /\ Throw("refused") \/ Continue(pc, w)
        /\ pool' = pool /\ touched' = touched /\ pc = "consensus"
    BY <1>8 DEF ReachConsensus, chainVars
  <2> HIDE DEF m
  <2>2. w.opt = opt /\ w.data = data /\ w.sim = work.sim
    BY <1>1, WorkFields DEF opt, data
  <2> HIDE DEF w
  <2>3. CASE Throw("refused")
    BY <2>3, ForeseenKept DEF Throw
  <2>4. CASE Continue(pc, w)
    <3>1. opt' = opt /\ data' = data /\ work'.sim = work.sim /\ pc' = pc
      BY <2>2, <2>4 DEF Continue, opt, data
    <3> QED
      BY <2>1, <3>1, ForeseenKept
  <2> QED
    BY <2>1, <2>3, <2>4
<1>9. CASE ConsensusExpected
  <2>1. /\ Continue("main", work) \/ Throw("expectation")
        /\ pool' = pool /\ touched' = touched /\ pc = "consensus"
    BY <1>9 DEF ConsensusExpected, chainVars
  <2>2. CASE Continue("main", work)
    <3>1. opt' = opt /\ data' = data /\ work'.sim = work.sim /\ pc' = "main"
      BY <2>2 DEF Continue, opt, data
    <3> QED
      BY <2>1, <3>1, ForeseenKept
  <2>3. CASE Throw("expectation")
    BY <2>3, ForeseenKept DEF Throw
  <2> QED
    BY <2>1, <2>2, <2>3
<1>10. CASE \/ SubmitReportData \/ SubmitReportExtraData
            \/ HolderExpected \/ ReadQueue \/ TopUp \/ LastTopUp
  <2>1. pc' \in {"extra", "queue", "topup", "last", "wait", "idle"}
    BY <1>10 DEF SubmitReportData, SubmitReportExtraData, HolderExpected, ReadQueue, TopUp,
                 LastTopUp, HeadOfLoop, Continue, Throw, Return
  <2> QED
    BY <2>1, ForeseenKept
<1> QED
  BY <1>2, <1>3, <1>4, <1>5, <1>6, <1>7, <1>8, <1>9, <1>10 DEF ClientStep

\* Anybody else's step is seen, or comes between two operations.
LEMMA StepForeseen == Inv /\ Solvent /\ Foreseen /\ [Next]_vars => Foreseen'
<1> SUFFICES ASSUME Inv, Solvent, Foreseen, [Next]_vars PROVE Foreseen'
  OBVIOUS
<1>1. CASE ClientStep
  BY <1>1, ClientForeseen
<1>2. CASE UserActs
  <2>1. touched' \/ pc' = "idle"
    BY <1>2 DEF UserActs, clientVars
  <2> QED
    BY <2>1, ForeseenKept DEF Simulated, Prepared
<1>3. CASE PassTime \/ HandleReportDirectly
  <2>1. pc' = "idle"
    BY <1>3 DEF PassTime, HandleReportDirectly, clientVars
  <2> QED
    BY <2>1, ForeseenKept DEF Simulated, Prepared
<1>4. CASE Report \/ FinalizeWithdrawalQueue \/ EnsureOracleCommitteeMembers
  <2>1. pc' \in {"wait", "read", "holder", "idle"}
    BY <1>4 DEF Report, FinalizeWithdrawalQueue, EnsureOracleCommitteeMembers, Begin, AtReport
  <2> QED
    BY <2>1, ForeseenKept DEF Simulated, Prepared
<1>5. CASE UNCHANGED vars
  <2>1. /\ pool' = pool /\ touched' = touched /\ pc' = pc
        /\ opt' = opt /\ data' = data /\ work'.sim = work.sim
    BY <1>5 DEF vars, chainVars, clientVars, opt, data
  <2> QED
    BY <2>1, ForeseenKept
<1> QED
  BY <1>1, <1>2, <1>3, <1>4, <1>5 DEF Next

\* Only one step gets from "main" to "extra": handleOracleReport accepts the report,
\* on a pool that has heard of it already and is otherwise the same.
LEMMA Pushed ==
  ASSUME Inv, Solvent, [Next]_vars, pc = "main", pc' = "extra"
  PROVE  LET told == OnOracleReport(pool, data)
         IN /\ \E o \in HandleOracleReport(told, data) : o.accepted /\ pool' = o.pool
            /\ Sound(pool) /\ Sound(told) /\ data \in ReportType
            /\ TotalPooledEther(told) = TotalPooledEther(pool) /\ TotalPooledEther(told) > 0
            /\ told.bunker = data.bunker /\ told.lockedEther = pool.lockedEther
            /\ told.totalShares = pool.totalShares /\ told.clBalance = pool.clBalance
            /\ told.clValidators = pool.clValidators
            /\ BatchesAccepted(told, data) /\ data.batches # << >> => EtherToLock(told, data) > 0
<1>1. ChainOK /\ ClientOK
  BY InvParts
<1>2. SubmitReportData
  <2>1. ~(UNCHANGED vars)
    BY DEF vars, clientVars
  <2>2. ~(UserActs \/ PassTime \/ HandleReportDirectly)
    BY DEF UserActs, PassTime, HandleReportDirectly, clientVars
  <2>3. ~(Report \/ FinalizeWithdrawalQueue \/ EnsureOracleCommitteeMembers)
    BY DEF Report, FinalizeWithdrawalQueue, EnsureOracleCommitteeMembers, Begin
  <2>4. ~(WaitNextAvailableReportTime \/ Read \/ Simulate \/ Budget \/ Calculate \/ Bunker)
    BY DEF WaitNextAvailableReportTime, Read, Simulate, Budget, Calculate, Bunker
  <2>5. ~(\/ ReachConsensus \/ ConsensusExpected \/ SubmitReportExtraData
          \/ HolderExpected \/ ReadQueue \/ TopUp \/ LastTopUp)
    BY DEF ReachConsensus, ConsensusExpected, SubmitReportExtraData, HolderExpected, ReadQueue,
           TopUp, LastTopUp
  <2> QED
    BY <2>1, <2>2, <2>3, <2>4, <2>5 DEF Next, ClientStep
<1> DEFINE told == OnOracleReport(pool, data)
           d == data
<1>3. PICK outcome \in Submitted(pool, data) : outcome.accepted /\ pool' = outcome.pool
  BY <1>2 DEF SubmitReportData, Throw
<1>4. d \in ReportType /\ Sound(pool) /\ pool \in Pool
  BY <1>1, WorkTyped DEF ClientOK, ChainOK, Sound, data
<1>5. /\ Sound(told) /\ TotalPooledEther(told) = TotalPooledEther(pool)
      /\ BatchesAccepted(told, d) = BatchesAccepted(pool, d)
      /\ EtherToLock(told, d) = EtherToLock(pool, d)
  BY <1>4, OnOracleReportSound
<1>6. /\ told.bunker = d.bunker /\ told.lockedEther = pool.lockedEther
      /\ told.totalShares = pool.totalShares /\ told.clBalance = pool.clBalance
      /\ told.clValidators = pool.clValidators
  BY <1>4 DEF OnOracleReport, Pool
<1>7. outcome \in HandleOracleReport(told, d)
  BY <1>3 DEF Submitted
<1>8. /\ TotalPooledEther(pool) > 0
      /\ BatchesAccepted(pool, d) /\ d.batches # << >> => EtherToLock(pool, d) > 0
  BY DEF Solvent
<1> HIDE DEF told, d
<1>9. TotalPooledEther(told) > 0
  BY <1>5, <1>8
<1>10. BatchesAccepted(told, d) /\ d.batches # << >> => EtherToLock(told, d) > 0
  BY <1>5, <1>8
<1> QED
  BY <1>3, <1>4, <1>5, <1>6, <1>7, <1>9, <1>10 DEF told, d

\* The report that is pushed does what was foreseen.
LEMMA ReportAsForeseen ==
  ASSUME Inv, Solvent, Foreseen, [Next]_vars, pc = "main", pc' = "extra",
         ~touched, ~opt.skipWithdrawals
  PROVE  pool'.bunker = (TotalPooledEther(pool') + (pool'.lockedEther - pool.lockedEther)
                           < TotalPooledEther(pool))
<1> DEFINE told == OnOracleReport(pool, data)
           d == data
<1>1. /\ Sound(pool) /\ Sound(told) /\ d \in ReportType
      /\ TotalPooledEther(told) = TotalPooledEther(pool) /\ TotalPooledEther(told) > 0
      /\ told.bunker = d.bunker /\ told.lockedEther = pool.lockedEther
      /\ told.totalShares = pool.totalShares /\ told.clBalance = pool.clBalance
      /\ told.clValidators = pool.clValidators
      /\ BatchesAccepted(told, d) /\ d.batches # << >> => EtherToLock(told, d) > 0
  BY Pushed
<1>2. PICK o \in HandleOracleReport(told, d) : o.accepted /\ pool' = o.pool
  BY Pushed
<1>3. d.bunker = (TotalPooledEther(pool) > Expected(pool, d))
  BY DEF Foreseen, Prepared
<1> HIDE DEF told, d
<1>4. /\ TotalPooledEther(o.pool) + EtherToLock(told, d) = Expected(told, d)
      /\ o.pool.lockedEther = told.lockedEther + EtherToLock(told, d)
      /\ o.pool.bunker = told.bunker
      /\ Expected(told, d) \in Int /\ EtherToLock(told, d) \in Nat
  BY <1>1, <1>2, EtherSettled
<1>5. Expected(told, d) = Expected(pool, d)
  BY <1>1, ExpectedFromBalances
<1> DEFINE ether == TotalPooledEther(pool)
           expected == Expected(pool, d)
           lock == EtherToLock(told, d)
           locked == pool.lockedEther
<1>6. /\ ether \in Int /\ expected \in Int /\ lock \in Nat /\ locked \in Nat
  BY <1>1, <1>4, <1>5, EtherTyped, PoolTyped DEF Sound
<1>7. /\ TotalPooledEther(pool') + lock = expected /\ pool'.lockedEther = locked + lock
      /\ pool'.bunker = (ether > expected)
  BY <1>1, <1>2, <1>3, <1>4, <1>5, Zenon
<1> HIDE DEF ether, expected, lock, locked
<1>8. TotalPooledEther(pool') \in Int
  <2>1. Sound(o.pool)
    BY <1>1, <1>2, ReportSound
  <2> QED
    BY <1>2, <2>1, EtherTyped
<1> DEFINE after == TotalPooledEther(pool') + (pool'.lockedEther - locked)
<1>9. after = expected
  BY <1>6, <1>7, <1>8
<1> HIDE DEF after
<1>10. (ether > expected) = (after < ether)
  BY <1>6, <1>9
<1> QED
  BY <1>7, <1>10, Zenon DEF ether, locked, after

\* BunkerIsLoss, along every behaviour in which the pool is worth something and the
\* requests finalized are: for every limit, fee, committee and size of the queue, a
\* report that was prepared and pushed while nobody else acted closes deposits exactly
\* if it lowers the pooled ether, its withdrawals set aside, although the mode was
\* decided on a simulation with other withdrawals and no shares to burn.
THEOREM BunkerModeIsLoss == Spec /\ []Solvent => BunkerIsLoss
<1>1. Inv /\ Solvent /\ Foreseen /\ [Next]_vars
        => [pc = "main" /\ pc' = "extra" /\ ~touched /\ ~opt.skipWithdrawals =>
              LET locked == pool'.lockedEther - pool.lockedEther
              IN pool'.bunker = (TotalPooledEther(pool') + locked < TotalPooledEther(pool))]_vars
  BY ReportAsForeseen
<1> QED
  BY <1>1, InitInv, StepKeepsInv, InitForeseen, StepForeseen, PTL DEF Spec, BunkerIsLoss

-------------------------------------------------------------------------------
\* The limit of a report

\* A gain of the consensus layer is counted up to the limit.
LEMMA GainCounted ==
  ASSUME NEW l \in Limiter, NEW pre \in Nat, NEW post \in Nat
  PROVE  LET gain == post - pre
             room == (l.positiveRebaseLimit * l.preTotalPooledEther) \div LIMITER_PRECISION_BASE
         IN /\ AfterCLUpdate(l, pre, post) = l.preTotalPooledEther
                                               + (IF gain > room THEN room ELSE gain)
            /\ room \in Nat
<1> DEFINE P == LIMITER_PRECISION_BASE
           T == l.preTotalPooledEther
           gain == post - pre
           x == l.positiveRebaseLimit * T
           room == x \div P
<1>1. P \in Nat \ {0} /\ T \in Nat /\ l.positiveRebaseLimit \in Nat /\ ~IsUnlimited(l)
  BY LimiterAssumption DEF Limiter, IsUnlimited
<1>2. x \in Nat
  BY <1>1, ProductTyped
<1> HIDE DEF P, T
<1>3. room \in Nat
  <2> HIDE DEF x
  <2> QED
    BY <1>1, <1>2, Quotient
<1>4. MaxTotalPooledEther(l) = T + room
  BY DEF MaxTotalPooledEther, P, T
<1> HIDE DEF x, room
<1>5. CASE post < pre
  <2>1. AfterCLUpdate(l, pre, post) = T - (pre - post)
    BY <1>1, <1>5 DEF AfterCLUpdate, DecreaseEther, T
  <2>2. AfterCLUpdate(l, pre, post) = T + gain /\ ~(gain > room)
    BY <1>1, <1>3, <1>5, <2>1
  <2> QED
    BY <1>3, <2>2 DEF T, room, x, P
<1>6. CASE ~(post < pre)
  <2>1. gain \in Nat
    BY <1>6
  <2>2. AfterCLUpdate(l, pre, post) = Least(T + gain, T + room)
    BY <1>1, <1>4, <1>6 DEF AfterCLUpdate, IncreaseEther, T
  <2> HIDE DEF gain
  <2>3. Least(T + gain, T + room) = T + (IF gain > room THEN room ELSE gain)
    BY <1>1, <1>3, <2>1 DEF Least
  <2> QED
    BY <1>3, <2>2, <2>3 DEF T, gain, room, x, P
<1> QED
  BY <1>5, <1>6

\* An accepted report stays within the limit.
LEMMA SettledWithinLimit ==
  ASSUME NEW p, Sound(p), TotalPooledEther(p) > 0, NEW r \in ReportType,
         NEW o \in HandleOracleReport(p, r), o.accepted,
         BatchesAccepted(p, r) /\ r.batches # << >> => EtherToLock(p, r) > 0,
         Limits.maxPositiveTokenRebase # UNLIMITED_REBASE
  PROVE  GrowsWithinLimit(p, o.pool, CLExcess(p, r))
<1> DEFINE lim == Limits.maxPositiveTokenRebase
           T == TotalPooledEther(p)
           S == p.totalShares
           l == InitLimiterState(lim, T, S)
           pre == PreCLBalance(p, r)
           cl == r.clBalance
           wv == r.withdrawalVaultBalance
           ev == r.elRewardsVaultBalance
           asked == r.sharesRequestedToBurn
           lock == EtherToLock(p, r)
           n == SharesToFinalize(p, r)
           s == Smoothed(p, r)
           after == TotalPooledEther(o.pool)
           left == o.pool.totalShares
           excess == CLExcess(p, r)
           room == (lim * T) \div LIMITER_PRECISION_BASE
           final == after - excess
<1>1. /\ Sound(o.pool) /\ s.withdrawals \in Nat /\ s.elRewards \in Nat
      /\ lock \in Nat /\ n \in Nat /\ pre \in Nat /\ ~s.negative
      /\ S <= left + s.sharesToBurn /\ CLStateAccepted(p, r)
  BY ReportSound
<1>2. /\ T \in Nat \ {0} /\ S \in Nat /\ after \in Nat /\ left \in Nat /\ lim \in Nat \ {0}
      /\ cl \in Nat /\ wv \in Nat /\ ev \in Nat /\ asked \in Nat
  <2>1. T \in Nat \ {0} /\ S \in Nat
    BY EtherTyped, PoolTyped DEF Sound
  <2>2. after \in Nat /\ left \in Nat
    BY <1>1, EtherTyped, PoolTyped DEF Sound
  <2>3. lim \in Nat \ {0}
    BY LidoAssumption DEF LimitsType
  <2>4. cl \in Nat /\ wv \in Nat /\ ev \in Nat /\ asked \in Nat
    BY <1>1 DEF CLStateAccepted, ReportType
  <2> QED
    BY <2>1, <2>2, <2>3, <2>4
<1>3. after + lock = T + (cl - pre) + (s.withdrawals + s.elRewards)
  BY EtherSettled DEF Expected
<1>4. s = SmoothenTokenRebase(l, pre, cl, wv, ev, asked, lock, n)
  BY DEF Smoothed
<1>5. excess = (IF cl - pre > room THEN cl - pre - room ELSE 0) /\ lim # UNLIMITED_REBASE
  BY DEF CLExcess
<1> HIDE DEF lim, T, S, pre, cl, wv, ev, asked, lock, n, s, after, left, excess
<1>6. l = [preTotalPooledEther |-> T, preTotalShares |-> S, positiveRebaseLimit |-> lim]
  BY <1>2 DEF InitLimiterState
<1>7. /\ l \in Limiter /\ l.preTotalPooledEther = T /\ l.preTotalShares = S
      /\ l.positiveRebaseLimit = lim
  BY <1>2, <1>5, <1>6 DEF Limiter
<1> HIDE DEF l
<1>8. /\ AfterCLUpdate(l, pre, cl) = T + (IF cl - pre > room THEN room ELSE cl - pre)
      /\ room \in Nat
  BY <1>1, <1>2, <1>7, GainCounted
<1> HIDE DEF room
<1> DEFINE ether == AfterCLUpdate(l, pre, cl) + s.withdrawals + s.elRewards
<1>9. WithinLimit(l, ether - lock, s.sharesToBurn) /\ s.sharesToBurn \in 0..S
  BY <1>1, <1>2, <1>4, <1>7, RebaseStaysWithinLimit
<1>10. ether - lock = final
  <2>1. s.withdrawals \in Int /\ s.elRewards \in Int /\ lock \in Int /\ after \in Int
        /\ T \in Int /\ cl \in Int /\ pre \in Int
    BY <1>1, <1>2
  <2> DEFINE counted == AfterCLUpdate(l, pre, cl)
             gain == cl - pre
             wd == s.withdrawals
             el == s.elRewards
  <2>2. gain \in Int /\ counted = T + (IF gain > room THEN room ELSE gain)
        /\ excess = (IF gain > room THEN gain - room ELSE 0)
    BY <1>5, <1>8, <2>1
  <2>3. ether = counted + wd + el /\ after + lock = T + gain + (wd + el)
        /\ wd \in Int /\ el \in Int
    BY <1>3, <2>1
  <2> HIDE DEF counted, gain, wd, el, ether
  <2>4. counted = T + gain - excess /\ excess \in Int /\ counted \in Int /\ gain \in Int
    BY <1>8, <2>1, <2>2
  <2>5. ether - lock = after - excess
    BY <2>1, <2>3, <2>4
  <2> QED
    BY <2>5
<1>11. final \in Int
  BY <1>2, <1>5, <1>8, <1>1
<1> HIDE DEF ether, final
<1> DEFINE burnt == s.sharesToBurn
           P == LIMITER_PRECISION_BASE
           R == lim + P
<1>12. burnt \in Nat /\ S - burnt <= left /\ S - burnt \in Nat /\ R \in Nat
  BY <1>1, <1>2, <1>9, LimiterAssumption
<1>13. final * S * P <= T * ((S - burnt) * R + S)
  BY <1>7, <1>9, <1>10, Zenon DEF WithinLimit
<1> HIDE DEF burnt, P, R
<1>14. T * ((S - burnt) * R + S) <= T * (left * R + S)
  <2> DEFINE a == (S - burnt) * R
             b == left * R
  <2>1. a <= b /\ a \in Nat /\ b \in Nat
    BY <1>2, <1>12, ProductTyped, ProductMonotone
  <2> HIDE DEF a, b
  <2>2. T * (a + S) <= T * (b + S)
    BY <1>2, <2>1
  <2> QED
    BY <2>2 DEF a, b
<1>15. final * S * P <= T * (left * R + S)
  <2> DEFINE x == final * S * P
             y == T * ((S - burnt) * R + S)
             z == T * (left * R + S)
  <2>1. x \in Int /\ y \in Int /\ z \in Int
    BY <1>2, <1>11, <1>12, LimiterAssumption DEF P
  <2> HIDE DEF x, y, z
  <2>2. x <= y /\ y <= z
    BY <1>13, <1>14 DEF x, y, z
  <2>3. x <= z
    BY <2>1, <2>2
  <2> QED
    BY <2>3 DEF x, z
<1> QED
  BY <1>15 DEF GrowsWithinLimit, final, after, excess, left, S, T, R, P, lim

\* LiftedWithinLimit, along every behaviour in which the pool is worth something and
\* the requests finalized are: for every limit and every pool, what the vaults pay in, the
\* shares burnt, the requests finalized and the fee minted lift the share rate by no
\* more than the limit allows, whatever the users did meanwhile.
THEOREM ReportsLiftWithinLimit == Spec /\ []Solvent => LiftedWithinLimit
<1>1. Inv /\ Solvent /\ [Next]_vars
        => [pc = "main" /\ pc' = "extra" /\ Limits.maxPositiveTokenRebase # UNLIMITED_REBASE
              => GrowsWithinLimit(pool, pool', CLExcess(pool, data))]_vars
  <2> SUFFICES ASSUME Inv, Solvent, [Next]_vars, pc = "main", pc' = "extra",
                      Limits.maxPositiveTokenRebase # UNLIMITED_REBASE
               PROVE  GrowsWithinLimit(pool, pool', CLExcess(pool, data))
    OBVIOUS
  <2> DEFINE told == OnOracleReport(pool, data)
             d == data
  <2>1. /\ Sound(told) /\ d \in ReportType
        /\ TotalPooledEther(told) = TotalPooledEther(pool) /\ TotalPooledEther(told) > 0
        /\ told.totalShares = pool.totalShares /\ told.clBalance = pool.clBalance
        /\ told.clValidators = pool.clValidators
        /\ BatchesAccepted(told, d) /\ d.batches # << >> => EtherToLock(told, d) > 0
    BY Pushed
  <2>2. PICK o \in HandleOracleReport(told, d) : o.accepted /\ pool' = o.pool
    BY Pushed
  <2> HIDE DEF told, d
  <2>3. CLExcess(told, d) = CLExcess(pool, d)
    BY <2>1, Zenon DEF CLExcess, PreCLBalance
  <2>4. GrowsWithinLimit(told, o.pool, CLExcess(told, d))
    BY <2>1, <2>2, SettledWithinLimit
  <2> QED
    BY <2>1, <2>2, <2>3, <2>4, Zenon DEF GrowsWithinLimit, d
<1> QED
  BY <1>1, InitInv, StepKeepsInv, PTL DEF Spec, LiftedWithinLimit

-------------------------------------------------------------------------------
\* What the client expects of the committee and of the clock

\* The members that have voted in this frame.
Voters == {m \in 0..committee.total - 1 : HasVoted(m)}

\* Time, and a committee whose quorum is a majority.
ClockOK == slot \in Nat /\ FrameStarted(slot, FrameCfg)

CommitteeOK ==
  /\ committee \in [total : Nat, quorum : Nat]
  /\ committee.total # 0 => /\ committee.total < 2 * committee.quorum
                            /\ committee.quorum <= committee.total

\* Only members vote.
VotesOK ==
  \A v \in votes : /\ v = [member |-> v.member, data |-> v.data]
                   /\ v.member \in 0..committee.total - 1

\* A frame is processed only after a quorum has voted in it: so many members that any
\* fast lane has one of them.
ProcessedOK ==
  /\ processed \in Nat /\ processed <= CurrentRefSlot
  /\ processed = CurrentRefSlot
       => committee.total > 0 /\ Cardinality(Voters) > committee.total - committee.quorum

CommitteeSound == ClockOK /\ CommitteeOK /\ VotesOK /\ ProcessedOK

\* The client before and after it has read the slot it reports for.
Preparing == {"wait", "read", "simulate", "budget", "calculate", "bunker"}

Reported == {"simulate", "budget", "calculate", "bunker", "consensus", "main", "extra"}

\* The client reports for the current frame, and whom it has not asked yet, it knows.
PreparedOK ==
  /\ DOMAIN work = DOMAIN NoWork /\ DOMAIN data = DOMAIN NoData
  /\ pc \in Preparing => work.asked = {}
  /\ pc \in Reported => data.refSlot = CurrentRefSlot

\* Who was asked has voted for the report; after the frame was processed, nobody who
\* has voted can have been asked.  Then there is consensus, until the report is processed.
AgreedOK ==
  /\ pc = "consensus" => \A m \in work.asked : IF processed < CurrentRefSlot
                                               THEN [member |-> m, data |-> data] \in votes
                                               ELSE ~HasVoted(m)
  /\ pc \in {"main", "extra"} => committee.total > 0 /\ IsConsensus(data)
  /\ pc = "extra" => processed = CurrentRefSlot

Agreed == CommitteeSound /\ PreparedOK /\ AgreedOK

\* No expectation fails in a step, if there is a committee.
ExpectationHolds == failure' = failure \/ failure' # "expectation" \/ committee.total = 0

\* The fast lane is made of members, as many as a quorum.
LEMMA LaneIsQuorum ==
  ASSUME ClockOK, CommitteeOK
  PROVE  /\ FastLane \subseteq 0..committee.total - 1 /\ FastLane \subseteq Nat
         /\ IsFiniteSet(FastLane)
         /\ Cardinality(FastLane) = IF committee.total = 0 THEN 0 ELSE committee.quorum
<1> DEFINE n == committee.total
           q == committee.quorum
           f == FrameIndex(slot, FrameCfg)
<1>1. n \in Nat /\ q \in Nat /\ (n # 0 => n < 2 * q /\ q <= n)
  BY DEF CommitteeOK
<1>2. f \in Nat
  BY ReportingAssumption, FrameFacts DEF ClockOK
<1> HIDE DEF f, n, q
<1>3. n = 0 \/ q > 0
  BY <1>1
<1> DEFINE lane == {i \in 0..n - 1 : IsFastLaneIndex(i, f, q, n)}
<1>4. IsFiniteSet(lane) /\ Cardinality(lane) = IF q < n THEN q ELSE n
  BY <1>1, <1>2, <1>3, FastLaneCounts
<1>5. lane = FastLane
  BY DEF FastLane, f, n, q
<1>6. lane \subseteq 0..n - 1 /\ lane \subseteq Nat
  BY <1>1
<1> HIDE DEF lane
<1>7. Cardinality(lane) = IF n = 0 THEN 0 ELSE q
  BY <1>1, <1>4
<1> QED
  BY <1>4, <1>5, <1>6, <1>7 DEF n, q

\* In a frame that was processed, the fast lane has a member that has voted.
LEMMA LaneHasVoter ==
  ASSUME CommitteeSound, processed = CurrentRefSlot
  PROVE  \E m \in FastLane : HasVoted(m)
<1> DEFINE n    == committee.total
           last == n - 1
           U    == 0..last
<1>1. /\ n \in Nat /\ committee.quorum \in Nat /\ n > 0
      /\ Cardinality(Voters) > n - committee.quorum
  BY DEF CommitteeSound, CommitteeOK, ProcessedOK
<1>2. FastLane \subseteq U /\ IsFiniteSet(FastLane) /\ Cardinality(FastLane) = committee.quorum
  BY <1>1, LaneIsQuorum DEF CommitteeSound
<1>3. Voters \subseteq U
  BY DEF Voters
<1>4. last \in Int /\ last + 1 = n /\ ~(0 > last)
  BY <1>1
<1> HIDE DEF last, n
<1>5. IsFiniteSet(U) /\ Cardinality(U) = last - 0 + 1
  BY <1>4, FS_Interval
<1> HIDE DEF U
<1>6. IsFiniteSet(Voters) /\ Cardinality(Voters) \in Nat
  BY <1>3, <1>5, FS_Subset, FS_CardinalityType
<1>7. Cardinality(FastLane) + Cardinality(Voters) > Cardinality(U)
  BY <1>1, <1>2, <1>4, <1>5, <1>6
<1>8. FastLane \cap Voters # {}
  BY <1>2, <1>3, <1>5, <1>7, FS_MajoritiesIntersect
<1> QED
  BY <1>8 DEF Voters

\* The votes for one report are of as many members.
VotesFor(d) == {v \in votes : v.data = d}

LEMMA VotesForCounted ==
  ASSUME CommitteeOK, VotesOK, NEW d
  PROVE  /\ IsFiniteSet(VotesFor(d)) /\ Cardinality(VotesFor(d)) \in Nat
         /\ IsFiniteSet(Voters) /\ Cardinality(Voters) \in Nat
         /\ Cardinality(VotesFor(d)) <= Cardinality(Voters)
<1> DEFINE last == committee.total - 1
           g    == [v \in VotesFor(d) |-> v.member]
<1>1. last \in Int
  BY DEF CommitteeOK
<1>2. Voters \subseteq 0..last
  BY DEF Voters
<1> HIDE DEF last
<1>3. IsFiniteSet(Voters)
  <2>1. IsFiniteSet(0..last)
    BY <1>1, FS_Interval
  <2> QED
    BY <1>2, <2>1, FS_Subset
<1>4. g \in Injection(VotesFor(d), Voters)
  <2>1. \A v \in VotesFor(d) : v.member \in Voters
    BY DEF VotesFor, Voters, HasVoted, VotesOK
  <2>2. g \in [VotesFor(d) -> Voters]
    BY <2>1
  <2>3. \A v, w \in VotesFor(d) : g[v] = g[w] => v = w
    <3> SUFFICES ASSUME NEW v \in VotesFor(d), NEW w \in VotesFor(d), g[v] = g[w] PROVE v = w
      OBVIOUS
    <3>1. v.member = w.member /\ v.data = w.data
      BY DEF VotesFor
    <3>2. v = [member |-> v.member, data |-> v.data] /\ w = [member |-> w.member, data |-> w.data]
      BY DEF VotesFor, VotesOK
    <3> QED
      BY <3>1, <3>2
  <2> HIDE DEF g
  <2> QED
    BY <2>2, <2>3, Fun_IsInj
<1>5. IsFiniteSet(VotesFor(d)) /\ Cardinality(VotesFor(d)) <= Cardinality(Voters)
  BY <1>3, <1>4, FS_Injection
<1> QED
  BY <1>3, <1>5, FS_CardinalityType

\* A consensus is one of so many members that any fast lane has one of them.
LEMMA ConsensusVoted ==
  ASSUME CommitteeOK, VotesOK, NEW d, IsConsensus(d)
  PROVE  committee.total > 0 /\ Cardinality(Voters) > committee.total - committee.quorum
<1>1. committee.total \in Nat /\ committee.quorum \in Nat
  BY DEF CommitteeOK
<1>2. PICK v \in votes : TRUE
  BY DEF IsConsensus
<1>3. v.member \in 0..committee.total - 1
  BY DEF VotesOK
<1>4. committee.total > 0
  BY <1>1, <1>3
<1>5. committee.total < 2 * committee.quorum
  BY <1>1, <1>4 DEF CommitteeOK
<1>6. Cardinality(VotesFor(d)) >= committee.quorum
  BY DEF IsConsensus, VotesFor
<1>7. /\ Cardinality(VotesFor(d)) \in Nat /\ Cardinality(Voters) \in Nat
      /\ Cardinality(VotesFor(d)) <= Cardinality(Voters)
  BY VotesForCounted
<1> QED
  BY <1>1, <1>4, <1>5, <1>6, <1>7

\* When the whole fast lane has voted for a report, there is consensus on it.
LEMMA LaneAgrees ==
  ASSUME ClockOK, CommitteeOK, VotesOK, committee.total # 0, NEW d,
         \A m \in FastLane : [member |-> m, data |-> d] \in votes
  PROVE  IsConsensus(d)
<1> DEFINE g == [m \in FastLane |-> [member |-> m, data |-> d]]
<1>1. /\ IsFiniteSet(FastLane) /\ Cardinality(FastLane) = committee.quorum
      /\ committee.quorum \in Nat
  BY LaneIsQuorum DEF CommitteeOK
<1>2. committee.quorum > 0
  BY DEF CommitteeOK
<1>3. g \in Injection(FastLane, VotesFor(d))
  <2>1. g \in [FastLane -> VotesFor(d)]
    BY DEF VotesFor
  <2>2. \A m, n \in FastLane : g[m] = g[n] => m = n
    OBVIOUS
  <2> HIDE DEF g
  <2> QED
    BY <2>1, <2>2, Fun_IsInj
<1>4. IsFiniteSet(VotesFor(d)) /\ Cardinality(VotesFor(d)) \in Nat
  BY VotesForCounted
<1>5. Cardinality(FastLane) <= Cardinality(VotesFor(d))
  BY <1>3, <1>4, FS_Injection
<1>6. votes # {}
  <2>1. FastLane # {}
    BY <1>1, <1>2, FS_EmptySet
  <2> QED
    BY <2>1
<1>7. Cardinality(VotesFor(d)) >= committee.quorum
  BY <1>1, <1>4, <1>5
<1> QED
  BY <1>6, <1>7 DEF IsConsensus, VotesFor

\* Nothing changes for the committee, and for the client, while their variables do not.
LEMMA CommitteeStays ==
  CommitteeSound /\ UNCHANGED <<slot, committee, votes, processed>> => CommitteeSound'
BY DEF CommitteeSound, ClockOK, CommitteeOK, VotesOK, ProcessedOK, Voters, HasVoted,
       CurrentRefSlot

LEMMA ClientStays ==
  PreparedOK /\ AgreedOK /\ UNCHANGED <<slot, committee, votes, processed, pc, work>>
    => PreparedOK' /\ AgreedOK'
BY DEF PreparedOK, AgreedOK, HasVoted, IsConsensus, CurrentRefSlot, data

\* The client moves on to a place before the vote, and has asked nobody.
LEMMA MovesOn ==
  ASSUME NEW place, NEW w, pc' = place, work' = w,
         DOMAIN w = DOMAIN NoWork, DOMAIN w.data = DOMAIN NoData,
         w.asked = {}, place \notin {"main", "extra"},
         place \in Reported => w.data.refSlot = CurrentRefSlot'
  PROVE  PreparedOK' /\ AgreedOK'
BY DEF PreparedOK, AgreedOK, data

\* The operation ends or throws.
LEMMA Ends ==
  ASSUME pc' = "idle", work' = NoWork
  PROVE  PreparedOK' /\ AgreedOK'
<1>1. NoWork.asked = {} /\ NoWork.data = NoData
  BY DEF NoWork
<1> QED
  BY <1>1, MovesOn DEF Reported

\* The fields of the client's variables after a change of one of them.
LEMMA WorkChanged ==
  ASSUME DOMAIN work = DOMAIN NoWork, DOMAIN data = DOMAIN NoData
  PROVE  /\ \A x : LET w == [work EXCEPT !.data = x]
                   IN DOMAIN w = DOMAIN NoWork /\ w.data = x /\ w.asked = work.asked
         /\ \A x : LET w == [work EXCEPT !.calc = x]
                   IN DOMAIN w = DOMAIN NoWork /\ w.data = data /\ w.asked = work.asked
         /\ \A x : LET w == [work EXCEPT !.asked = @ \cup {x}]
                   IN DOMAIN w = DOMAIN NoWork /\ w.data = data /\ w.asked = work.asked \cup {x}
         /\ \A x : LET w == [NoWork EXCEPT !.opt = x]
                   IN DOMAIN w = DOMAIN NoWork /\ w.data = NoData /\ w.asked = {}
         /\ \A x : LET w == [NoWork EXCEPT !.drains = x]
                   IN DOMAIN w = DOMAIN NoWork /\ w.data = NoData /\ w.asked = {}
<1>1. DOMAIN NoWork = {"opt", "data", "sim", "calc", "asked", "drains", "before", "held", "drained"}
  BY DEF NoWork
<1>2. NoWork.data = NoData /\ NoWork.asked = {}
  BY DEF NoWork
<1>3. work.data = data
  BY DEF data
<1>4. ASSUME NEW x
      PROVE  LET w == [work EXCEPT !.data = x]
             IN DOMAIN w = DOMAIN NoWork /\ w.data = x /\ w.asked = work.asked
  BY <1>1
<1>5. ASSUME NEW x
      PROVE  LET w == [work EXCEPT !.calc = x]
             IN DOMAIN w = DOMAIN NoWork /\ w.data = data /\ w.asked = work.asked
  BY <1>1, <1>3
<1>6. ASSUME NEW x
      PROVE  LET w == [work EXCEPT !.asked = @ \cup {x}]
             IN DOMAIN w = DOMAIN NoWork /\ w.data = data /\ w.asked = work.asked \cup {x}
  BY <1>1, <1>3
<1>7. ASSUME NEW x
      PROVE  LET w == [NoWork EXCEPT !.opt = x]
             IN DOMAIN w = DOMAIN NoWork /\ w.data = NoData /\ w.asked = {}
  BY <1>1, <1>2
<1>8. ASSUME NEW x
      PROVE  LET w == [NoWork EXCEPT !.drains = x]
             IN DOMAIN w = DOMAIN NoWork /\ w.data = NoData /\ w.asked = {}
  BY <1>1, <1>2
<1> QED
  BY <1>4, <1>5, <1>6, <1>7, <1>8

\* The initial states.
LEMMA InitAgreed == Init => Agreed
<1> SUFFICES ASSUME Init PROVE Agreed
  OBVIOUS
<1>1. /\ slot \in Nat /\ FrameStarted(slot, FrameCfg) /\ CurrentRefSlot > 0
      /\ RefSlotAt(slot, FrameCfg) \in Nat
  <2>1. slot \in Nat /\ FrameStarted(slot, FrameCfg) /\ RefSlotAt(slot, FrameCfg) > 0
    BY ReportingAssumption DEF Init
  <2> QED
    BY <2>1, ReportingAssumption, SlotInFrame DEF CurrentRefSlot
<1>2. CommitteeOK
  <2>1. /\ committee.total \in Nat /\ committee.quorum \in Nat
        /\ committee \in [total : Nat, quorum : Nat]
        /\ committee.total = 0 \/ committee.quorum \in committee.total \div 2 + 1..committee.total
    BY ReportingAssumption DEF Init
  <2> DEFINE n == committee.total
             q == committee.quorum
             h == n \div 2
  <2> HIDE DEF n, q
  <2>2. n \in Nat /\ q \in Nat /\ (n = 0 \/ q \in h + 1..n)
    BY <2>1 DEF n, q
  <2>3. h \in Nat /\ n < 2 * h + 2
    BY <2>2, Quotient
  <2> HIDE DEF h
  <2>4. n # 0 => n < 2 * q /\ q <= n
    BY <2>2, <2>3
  <2> QED
    BY <2>1, <2>4 DEF CommitteeOK, n, q
<1>3. VotesOK /\ processed = 0
  BY DEF Init, VotesOK
<1>4. CommitteeSound
  BY <1>1, <1>2, <1>3 DEF CommitteeSound, ClockOK, ProcessedOK, CurrentRefSlot
<1>5. pc = "idle" /\ work = NoWork
  BY DEF Init
<1>6. PreparedOK /\ AgreedOK
  <2>1. NoWork.data = NoData
    BY DEF NoWork
  <2> QED
    BY <1>5, <2>1 DEF PreparedOK, AgreedOK, Preparing, Reported, data
<1> QED
  BY <1>4, <1>6 DEF Agreed

\* Time passes between two operations: the frame stays, with its votes, or a
\* later one begins.
LEMMA PassTimeAgreed == Agreed /\ PassTime => Agreed'
<1> SUFFICES ASSUME Agreed, PassTime PROVE Agreed'
  OBVIOUS
<1>1. /\ pc = "idle" /\ pc' = pc /\ work' = work /\ committee' = committee
      /\ processed' = processed
      /\ votes' = IF CurrentRefSlot' = CurrentRefSlot THEN votes ELSE {}
  BY DEF PassTime, clientVars
<1>2. PICK n \in Waits : slot' = slot + n
  BY DEF PassTime
<1>3. /\ slot \in Nat /\ slot' \in Nat /\ slot <= slot' /\ FrameStarted(slot, FrameCfg)
      /\ FrameCfg \in FrameConfig
  BY <1>2, ReportingAssumption DEF Agreed, CommitteeSound, ClockOK
<1>4. /\ FrameStarted(slot', FrameCfg)
      /\ RefSlotAt(slot', FrameCfg) = RefSlotAt(slot, FrameCfg)
         \/ RefSlotAt(slot', FrameCfg) >= RefSlotAt(slot, FrameCfg) + FrameLength(FrameCfg)
  BY <1>3, RefSlotGrowsWithTime DEF FrameLength
<1>5. /\ CurrentRefSlot = RefSlotAt(slot, FrameCfg) /\ CurrentRefSlot \in Nat
      /\ CurrentRefSlot' = RefSlotAt(slot', FrameCfg) /\ CurrentRefSlot' \in Nat
      /\ FrameLength(FrameCfg) \in Nat
      /\ slot <= CurrentRefSlot + FrameLength(FrameCfg) /\ CurrentRefSlot < slot
  BY <1>3, <1>4, SlotInFrame DEF CurrentRefSlot
<1>6. CommitteeSound'
  <2>1. ClockOK' /\ CommitteeOK'
    BY <1>1, <1>3, <1>4 DEF Agreed, CommitteeSound, ClockOK, CommitteeOK
  <2>2. VotesOK'
    BY <1>1 DEF Agreed, CommitteeSound, VotesOK
  <2>3. ProcessedOK'
    <3>1. CASE CurrentRefSlot' = CurrentRefSlot
      <4>1. votes' = votes
        BY <1>1, <3>1
      <4>2. Voters' = Voters
        BY <1>1, <4>1 DEF Voters, HasVoted
      <4> QED
        BY <1>1, <3>1, <4>2 DEF Agreed, CommitteeSound, ProcessedOK
    <3>2. CASE CurrentRefSlot' # CurrentRefSlot
      <4>1. CurrentRefSlot' > CurrentRefSlot
        BY <1>4, <1>5, <3>2
      <4>2. processed \in Nat /\ processed <= CurrentRefSlot
        BY DEF Agreed, CommitteeSound, ProcessedOK
      <4>3. processed' < CurrentRefSlot' /\ processed' \in Nat
        BY <1>1, <1>5, <4>1, <4>2
      <4> QED
        BY <1>5, <4>3 DEF ProcessedOK
    <3> QED
      BY <3>1, <3>2
  <2> QED
    BY <2>1, <2>2, <2>3 DEF CommitteeSound
<1>7. PreparedOK' /\ AgreedOK'
  BY <1>1 DEF Agreed, PreparedOK, AgreedOK, Preparing, Reported, data
<1> QED
  BY <1>6, <1>7 DEF Agreed

\* More members and a larger quorum: what is left beside a quorum is as many as before.
LEMMA EnsureAgreed == Agreed /\ EnsureOracleCommitteeMembers => Agreed'
<1> SUFFICES ASSUME Agreed, EnsureOracleCommitteeMembers PROVE Agreed'
  OBVIOUS
<1> DEFINE missing == MIN_MEMBERS_COUNT - Cardinality(FastLane)
           n == committee.total
           q == committee.quorum
           k == MIN_MEMBERS_COUNT
<1>1. /\ pc' = "idle" /\ work' = NoWork /\ slot' = slot /\ votes' = votes
      /\ processed' = processed
      /\ committee' = IF missing > 0 THEN [total |-> n + missing, quorum |-> k] ELSE committee
  BY DEF EnsureOracleCommitteeMembers, Begin, chainVars
<1>2. PreparedOK' /\ AgreedOK'
  BY <1>1, Ends
<1>3. CASE ~(missing > 0)
  BY <1>1, <1>2, <1>3, CommitteeStays DEF Agreed
<1>4. CASE missing > 0
  <2>1. /\ n \in Nat /\ q \in Nat /\ (n # 0 => n < 2 * q /\ q <= n) /\ k \in Nat \ {0}
        /\ missing = IF n = 0 THEN k ELSE k - q
    <3>1. k \in Nat \ {0}
      BY ReportingAssumption
    <3>2. Cardinality(FastLane) = IF n = 0 THEN 0 ELSE q
      BY LaneIsQuorum DEF Agreed, CommitteeSound
    <3>3. n \in Nat /\ q \in Nat /\ (n # 0 => n < 2 * q /\ q <= n)
      BY DEF Agreed, CommitteeSound, CommitteeOK
    <3> HIDE DEF n, q, k
    <3>4. missing = k - Cardinality(FastLane)
      BY DEF k
    <3> QED
      BY <3>1, <3>2, <3>3, <3>4
  <2>2. committee'.total = n + missing /\ committee'.quorum = k
        /\ committee' = [total |-> n + missing, quorum |-> k]
    BY <1>1, <1>4
  <2> HIDE DEF missing, q, k, n
  <2>3. /\ n + missing \in Nat /\ n <= n + missing /\ n + missing # 0
        /\ n + missing < 2 * k /\ k <= n + missing
        /\ n # 0 => (n + missing) - k = n - q
    BY <1>4, <2>1
  <2>4. CommitteeOK'
    BY <2>1, <2>2, <2>3 DEF CommitteeOK
  <2>5. ClockOK'
    BY <1>1 DEF Agreed, CommitteeSound, ClockOK
  <2>6. ASSUME NEW v \in votes
        PROVE  v = [member |-> v.member, data |-> v.data] /\ v.member \in 0..committee'.total - 1
    <3>1. v = [member |-> v.member, data |-> v.data] /\ v.member \in 0..n - 1
      BY DEF Agreed, CommitteeSound, VotesOK, n
    <3>2. v.member \in 0..(n + missing) - 1
      BY <2>1, <2>3, <3>1
    <3>3. v.member \in 0..committee'.total - 1
      BY <2>2, <3>2, Zenon
    <3> QED
      BY <3>1, <3>3
  <2>7. VotesOK'
    BY <1>1, <2>6 DEF VotesOK
  <2>8. Voters' = Voters
    <3>1. \A m : HasVoted(m) => m \in 0..committee.total - 1 /\ m \in 0..committee'.total - 1
      BY <2>6 DEF HasVoted, Agreed, CommitteeSound, VotesOK
    <3>2. \A m : HasVoted(m)' <=> HasVoted(m)
      BY <1>1 DEF HasVoted
    <3> QED
      BY <3>1, <3>2 DEF Voters
  <2>9. ProcessedOK'
    <3>1. CurrentRefSlot' = CurrentRefSlot
      BY <1>1 DEF CurrentRefSlot
    <3>2. processed = CurrentRefSlot => n > 0 /\ Cardinality(Voters) > n - q
      BY DEF Agreed, CommitteeSound, ProcessedOK, n, q
    <3>3. processed = CurrentRefSlot
            => n + missing > 0 /\ Cardinality(Voters) > (n + missing) - k
      BY <2>1, <2>3, <3>2
    <3>4. processed \in Nat /\ processed <= CurrentRefSlot
      BY DEF Agreed, CommitteeSound, ProcessedOK
    <3>5. processed' \in Nat /\ processed' <= CurrentRefSlot'
      BY <1>1, <3>1, <3>4
    <3>6. processed' = CurrentRefSlot'
            => committee'.total > 0 /\ Cardinality(Voters') > committee'.total - committee'.quorum
      BY <1>1, <2>2, <2>8, <3>1, <3>3
    <3> QED
      BY <3>5, <3>6 DEF ProcessedOK
  <2> QED
    BY <1>2, <2>4, <2>5, <2>7, <2>9 DEF Agreed, CommitteeSound
<1> QED
  BY <1>3, <1>4

\* The clock moves to the next frame, as expected, where nobody has voted.
LEMMA WaitAgreed == Agreed /\ WaitNextAvailableReportTime => Agreed' /\ ExpectationHolds
<1> SUFFICES ASSUME Agreed, WaitNextAvailableReportTime PROVE Agreed' /\ ExpectationHolds
  OBVIOUS
<1> DEFINE n == FrameLength(FrameCfg)
           r == RefSlotAt(slot, FrameCfg)
           k == OffsetSlots
<1>1. /\ pc = "wait" /\ slot' = CurrentRefSlot + SlotsPerFrame + OffsetSlots /\ votes' = {}
      /\ committee' = committee /\ processed' = processed
      /\ IF RefSlotAt(slot', FrameCfg) = CurrentRefSlot + SlotsPerFrame
         THEN Continue("read", work) ELSE Throw("expectation")
  BY DEF WaitNextAvailableReportTime, NextReportSlot
<1>2. /\ slot \in Nat /\ FrameStarted(slot, FrameCfg) /\ FrameCfg \in FrameConfig /\ k \in 1..n
  BY ReportingAssumption DEF Agreed, CommitteeSound, ClockOK, FrameLength
<1>3. n \in Nat /\ r \in Nat /\ slot <= r + n
  BY <1>2, SlotInFrame
<1>4. CurrentRefSlot = r /\ SlotsPerFrame = n
  BY DEF CurrentRefSlot, SlotsPerFrame, FrameLength
<1>5. RefSlotAt(r + n + k, FrameCfg) = r + n
  BY <1>2, NextFrame
<1>6. slot' = r + n + k
  BY <1>1, <1>4
<1> HIDE DEF n, r, k
<1>7. slot' \in Nat /\ slot <= slot' /\ n > 0
  BY <1>2, <1>3, <1>6
<1>8. CurrentRefSlot' = r + n
  BY <1>5, <1>6 DEF CurrentRefSlot
<1>9. Continue("read", work)
  BY <1>1, <1>4, <1>5, <1>6
<1>10. CommitteeSound'
  <2>1. ClockOK'
    BY <1>2, <1>7, RefSlotGrowsWithTime DEF ClockOK
  <2>2. CommitteeOK' /\ VotesOK'
    BY <1>1 DEF Agreed, CommitteeSound, CommitteeOK, VotesOK
  <2>3. processed \in Nat /\ processed <= r
    BY <1>4 DEF Agreed, CommitteeSound, ProcessedOK
  <2>4. processed' \in Nat /\ processed' < CurrentRefSlot' /\ CurrentRefSlot' \in Nat
    BY <1>1, <1>3, <1>7, <1>8, <2>3
  <2>5. ProcessedOK'
    BY <2>4 DEF ProcessedOK
  <2> QED
    BY <2>1, <2>2, <2>5 DEF CommitteeSound
<1>11. PreparedOK' /\ AgreedOK'
  <2>1. /\ pc' = "read" /\ work' = work /\ DOMAIN work = DOMAIN NoWork
        /\ DOMAIN work.data = DOMAIN NoData /\ work.asked = {}
    BY <1>1, <1>9 DEF Continue, Agreed, PreparedOK, Preparing, data
  <2> QED
    BY <2>1, MovesOn DEF Reported
<1>12. ExpectationHolds
  BY <1>9 DEF Continue, ExpectationHolds
<1> QED
  BY <1>10, <1>11, <1>12 DEF Agreed

\* A step of the client that leaves the committee alone, and goes on with its own
\* variables or ends.
LEMMA ClientMoves ==
  ASSUME Agreed, UNCHANGED <<slot, committee, votes, processed>>,
         NEW place, NEW w,
         DOMAIN w = DOMAIN NoWork, DOMAIN w.data = DOMAIN NoData, w.asked = {},
         place \notin {"main", "extra"}, place \in Reported => w.data.refSlot = CurrentRefSlot,
         Continue(place, w) \/ Return \/ Throw("refused") \/ Throw("exhausted")
  PROVE  Agreed' /\ ExpectationHolds
<1>1. CommitteeSound' /\ CurrentRefSlot' = CurrentRefSlot
  BY CommitteeStays DEF Agreed, CurrentRefSlot
<1>2. CASE Continue(place, w)
  <2>1. pc' = place /\ work' = w /\ failure' = failure
    BY <1>2 DEF Continue
  <2>2. PreparedOK' /\ AgreedOK'
    BY <1>1, <2>1, MovesOn
  <2> QED
    BY <1>1, <2>1, <2>2 DEF Agreed, ExpectationHolds
<1>3. CASE Return \/ Throw("refused") \/ Throw("exhausted")
  <2>1. pc' = "idle" /\ work' = NoWork /\ (failure' = failure \/ failure' # "expectation")
    BY <1>3 DEF Return, Throw
  <2>2. PreparedOK' /\ AgreedOK'
    BY <2>1, Ends
  <2> QED
    BY <1>1, <2>1, <2>2 DEF Agreed, ExpectationHolds
<1> QED
  BY <1>2, <1>3

\* The client reads the slot it reports for, and the pool.
LEMMA ReadAgreed == Agreed /\ Read => Agreed' /\ ExpectationHolds
<1> SUFFICES ASSUME Agreed, Read PROVE Agreed' /\ ExpectationHolds
  OBVIOUS
<1> DEFINE d == ReadData(opt)
           w == [work EXCEPT !.data = d]
<1>1. /\ pc = "read" /\ UNCHANGED <<slot, committee, votes, processed>>
      /\ WithData(w) \/ Continue("simulate", w)
  BY DEF Read, chainVars, oracleVars
<1>2. d.refSlot = CurrentRefSlot /\ DOMAIN d = DOMAIN NoData
  BY DEF ReadData, NoData
<1>3. /\ DOMAIN work = DOMAIN NoWork /\ DOMAIN data = DOMAIN NoData /\ work.asked = {}
  BY <1>1 DEF Agreed, PreparedOK, Preparing
<1> HIDE DEF d
<1>4. DOMAIN w = DOMAIN NoWork /\ w.data = d /\ w.asked = {}
  BY <1>3, WorkChanged
<1> HIDE DEF w
<1>5. Return \/ Continue("consensus", w) \/ Continue("simulate", w)
  BY <1>1 DEF WithData
<1>6. CASE Return \/ Continue("consensus", w)
  BY <1>1, <1>2, <1>4, <1>6, ClientMoves
<1>7. CASE Continue("simulate", w)
  BY <1>1, <1>2, <1>4, <1>7, ClientMoves
<1> QED
  BY <1>5, <1>6, <1>7

\* What a simulation, a budget, a call of the batch calculation and the bunker mode
\* add to the report leaves its slot.
LEMMA PrepareAgreed ==
  ASSUME Agreed, Simulate \/ Budget \/ Calculate \/ Bunker
  PROVE  Agreed' /\ ExpectationHolds
<1>1. /\ pc \in {"simulate", "budget", "calculate", "bunker"}
      /\ UNCHANGED <<slot, committee, votes, processed>>
  BY DEF Simulate, Budget, Calculate, Bunker, chainVars, oracleVars
<1>2. /\ DOMAIN work = DOMAIN NoWork /\ DOMAIN data = DOMAIN NoData /\ work.asked = {}
      /\ data.refSlot = CurrentRefSlot /\ work.data = data
  BY <1>1 DEF Agreed, PreparedOK, Preparing, Reported, data
<1>3. /\ DOMAIN NoWork = {"opt", "data", "sim", "calc", "asked",
                         "drains", "before", "held", "drained"}
      /\ DOMAIN NoData = {"refSlot", "numValidators", "clBalance", "withdrawalVaultBalance",
                          "elRewardsVaultBalance", "sharesRequestedToBurn", "batches", "rate",
                          "bunker"}
  BY DEF NoWork, NoData
<1>4. CASE Simulate
  <2>1. PICK s \in SimulatedReport(data) :
          IF s.accepted
          THEN Continue("budget",
                 [work EXCEPT !.sim = [postTotalPooledEther |-> TotalPooledEther(s.pool),
                                       collected            |-> s.withdrawals + s.elRewards],
                              !.data.rate = RateAfter(s.pool)])
          ELSE Throw("refused")
    BY <1>4 DEF Simulate
  <2> DEFINE x == [postTotalPooledEther |-> TotalPooledEther(s.pool),
                   collected            |-> s.withdrawals + s.elRewards]
             y == RateAfter(s.pool)
             w == [work EXCEPT !.sim = x, !.data.rate = y]
  <2>2. Continue("budget", w) \/ Throw("refused")
    BY <2>1
  <2> HIDE DEF x, y
  <2>3. DOMAIN w = DOMAIN NoWork /\ w.asked = {} /\ w.data = [work.data EXCEPT !.rate = y]
    BY <1>2, <1>3
  <2>4. DOMAIN w.data = DOMAIN NoData /\ w.data.refSlot = CurrentRefSlot
    BY <1>2, <1>3, <2>3
  <2>5. w.asked = {} /\ DOMAIN w = DOMAIN NoWork
    BY <2>3
  <2> HIDE DEF w
  <2>6. CASE Continue("budget", w)
    BY <1>1, <2>4, <2>5, <2>6, ClientMoves
  <2>7. CASE Throw("refused")
    BY <1>1, <2>4, <2>5, <2>7, ClientMoves
  <2> QED
    BY <2>2, <2>6, <2>7
<1>5. CASE Budget
  <2> DEFINE x == StartState(AvailableEth)
             w == [work EXCEPT !.calc = x]
  <2>1. Continue("bunker", w) \/ Continue("calculate", w)
    BY <1>5 DEF Budget
  <2> HIDE DEF x
  <2>2. DOMAIN w = DOMAIN NoWork /\ w.asked = {} /\ w.data = data
    BY <1>2, WorkChanged
  <2> HIDE DEF w
  <2>3. CASE Continue("bunker", w)
    BY <1>1, <1>2, <2>2, <2>3, ClientMoves
  <2>4. CASE Continue("calculate", w)
    BY <1>1, <1>2, <2>2, <2>4, ClientMoves
  <2> QED
    BY <2>1, <2>3, <2>4
<1>6. CASE Calculate
  <2> DEFINE x == CalculateFinalizationBatches(pool.queue, pool.lastFinalized, data.rate,
                                               MaxTimestamp, CallSize, work.calc)
             w == [work EXCEPT !.calc = x]
  <2>1. Throw("exhausted") \/ Continue("bunker", w) \/ Continue("calculate", w)
    BY <1>6 DEF Calculate
  <2> HIDE DEF x
  <2>2. DOMAIN w = DOMAIN NoWork /\ w.asked = {} /\ w.data = data
    BY <1>2, WorkChanged
  <2> HIDE DEF w
  <2>3. CASE Continue("bunker", w) \/ Throw("exhausted")
    BY <1>1, <1>2, <2>2, <2>3, ClientMoves
  <2>4. CASE Continue("calculate", w)
    BY <1>1, <1>2, <2>2, <2>4, ClientMoves
  <2> QED
    BY <2>1, <2>3, <2>4
<1>7. CASE Bunker
  <2> DEFINE x == work.calc.batches
             y == IsLoss
             w == [work EXCEPT !.data.batches = x, !.data.bunker = y]
             d == [[work.data EXCEPT !.batches = x] EXCEPT !.bunker = y]
  <2>1. Return \/ Continue("consensus", w)
    BY <1>7 DEF Bunker, WithData
  <2> HIDE DEF x, y
  <2>2. DOMAIN w = DOMAIN NoWork /\ w.asked = {} /\ w.data = d
    BY <1>2, <1>3
  <2>3. DOMAIN d = DOMAIN NoData /\ d.refSlot = CurrentRefSlot
    BY <1>2, <1>3
  <2> HIDE DEF w, d
  <2> QED
    BY <1>1, <2>1, <2>2, <2>3, ClientMoves
<1> QED
  BY <1>4, <1>5, <1>6, <1>7

\* A member of the fast lane votes for the report, or passes since the frame was
\* processed without it.
LEMMA ReachConsensusAgreed == Agreed /\ ReachConsensus => Agreed' /\ ExpectationHolds
<1> SUFFICES ASSUME Agreed, ReachConsensus PROVE Agreed' /\ ExpectationHolds
  OBVIOUS
<1> DEFINE m == NextVoter
           w == [work EXCEPT !.asked = @ \cup {m}]
           x == [member |-> m, data |-> data]
<1>1. /\ pc = "consensus" /\ FastLane \ work.asked # {}
      /\ slot' = slot /\ committee' = committee /\ processed' = processed
      /\ \/ Throw("refused") /\ votes' = votes
         \/ ~VoteRefused(m) /\ Continue(pc, w) /\ votes' = VotesWith(m)
  BY DEF ReachConsensus, chainVars
<1>2. /\ DOMAIN work = DOMAIN NoWork /\ DOMAIN data = DOMAIN NoData
      /\ data.refSlot = CurrentRefSlot /\ CurrentRefSlot' = CurrentRefSlot
      /\ CommitteeSound
  BY <1>1 DEF Agreed, PreparedOK, Reported, CurrentRefSlot
<1>3. CASE Throw("refused") /\ votes' = votes
  <2>1. CommitteeSound'
    BY <1>1, <1>2, <1>3, CommitteeStays
  <2>2. PreparedOK' /\ AgreedOK'
    BY <1>3, Ends DEF Throw
  <2> QED
    BY <1>3, <2>1, <2>2 DEF Agreed, Throw, ExpectationHolds
<1>4. CASE ~VoteRefused(m) /\ Continue(pc, w) /\ votes' = VotesWith(m)
  <2>1. m \in FastLane /\ m \notin work.asked /\ m \in 0..committee.total - 1
    <3> DEFINE left == FastLane \ work.asked
    <3>1. left \in SUBSET Nat /\ left # {} /\ FastLane \subseteq 0..committee.total - 1
      BY <1>1, <1>2, LaneIsQuorum DEF CommitteeSound
    <3>2. m = CHOOSE i \in left : \A j \in left : i <= j
      BY DEF NextVoter, Min
    <3> HIDE DEF left, m
    <3>3. m \in left
      BY <3>1, <3>2, NatMin
    <3> QED
      BY <3>1, <3>3 DEF left
  <2>2. /\ pc' = "consensus" /\ work' = w /\ failure' = failure
        /\ DOMAIN w = DOMAIN NoWork /\ w.data = data /\ w.asked = work.asked \cup {m}
    BY <1>1, <1>2, <1>4, WorkChanged DEF Continue
  <2>3. data' = data
    BY <2>2 DEF data
  <2>4. processed \in Nat /\ processed <= CurrentRefSlot /\ CurrentRefSlot \in Nat
    <3>1. CurrentRefSlot \in Nat
      BY <1>2, ReportingAssumption, SlotInFrame DEF CommitteeSound, ClockOK, CurrentRefSlot
    <3> QED
      BY <1>2, <3>1 DEF CommitteeSound, ProcessedOK
  <2> HIDE DEF m, w
  <2>5. CASE processed < CurrentRefSlot
    <3>1. votes' = {v \in votes : v.member # m} \cup {x}
      BY <1>2, <1>4, <2>4, <2>5 DEF VotesWith
    <3>2. CommitteeSound'
      <4>1. ClockOK' /\ CommitteeOK'
        BY <1>1, <1>2 DEF CommitteeSound, ClockOK, CommitteeOK
      <4>2. VotesOK'
        BY <1>1, <1>2, <2>1, <3>1 DEF CommitteeSound, VotesOK
      <4>3. ProcessedOK'
        BY <1>1, <1>2, <2>4, <2>5 DEF ProcessedOK
      <4> QED
        BY <4>1, <4>2, <4>3 DEF CommitteeSound
    <3>3. ASSUME NEW i \in w.asked PROVE [member |-> i, data |-> data] \in votes'
      <4>1. CASE i = m
        BY <3>1, <4>1
      <4>2. CASE i # m
        <5>1. i \in work.asked
          BY <2>2, <4>2
        <5>2. [member |-> i, data |-> data] \in votes
          BY <1>1, <2>5, <5>1 DEF Agreed, AgreedOK
        <5> QED
          BY <3>1, <4>2, <5>2
      <4> QED
        BY <4>1, <4>2
    <3>4. PreparedOK'
      BY <1>2, <2>2, <2>3 DEF PreparedOK, Preparing, Reported
    <3>5. AgreedOK'
      BY <1>1, <1>2, <2>2, <2>3, <2>5, <3>3 DEF AgreedOK
    <3> QED
      BY <2>2, <3>2, <3>4, <3>5 DEF Agreed, ExpectationHolds
  <2>6. CASE ~(processed < CurrentRefSlot)
    <3>1. processed >= data.refSlot
      BY <1>2, <2>4, <2>6
    <3>2. votes' = votes /\ ~HasVoted(m)
      BY <1>4, <3>1 DEF VotesWith, VoteRefused
    <3>3. CommitteeSound'
      BY <1>1, <1>2, <3>2, CommitteeStays
    <3>4. \A i \in w.asked : ~HasVoted(i)
      BY <1>1, <2>2, <2>6, <3>2 DEF Agreed, AgreedOK
    <3>5. \A i \in w.asked : ~HasVoted(i)'
      BY <3>2, <3>4 DEF HasVoted
    <3>6. PreparedOK'
      BY <1>2, <2>2, <2>3 DEF PreparedOK, Preparing, Reported
    <3>7. AgreedOK'
      BY <1>1, <1>2, <2>2, <2>6, <3>5 DEF AgreedOK
    <3> QED
      BY <2>2, <3>3, <3>6, <3>7 DEF Agreed, ExpectationHolds
  <2> QED
    BY <2>5, <2>6
<1> QED
  BY <1>1, <1>3, <1>4

\* The fast lane has voted: it agrees on the report, if there is a committee.
LEMMA ConsensusExpectedAgreed == Agreed /\ ConsensusExpected => Agreed' /\ ExpectationHolds
<1> SUFFICES ASSUME Agreed, ConsensusExpected PROVE Agreed' /\ ExpectationHolds
  OBVIOUS
<1>1. /\ pc = "consensus" /\ FastLane \subseteq work.asked
      /\ UNCHANGED <<slot, committee, votes, processed>>
      /\ IF IsConsensus(data) THEN Continue("main", work) ELSE Throw("expectation")
  BY DEF ConsensusExpected, chainVars, oracleVars
<1>2. CommitteeSound /\ CommitteeSound'
  BY <1>1, CommitteeStays DEF Agreed
<1>3. CASE IsConsensus(data)
  <2>1. pc' = "main" /\ work' = work /\ failure' = failure
    BY <1>1, <1>3 DEF Continue
  <2>2. PreparedOK'
    BY <1>1, <2>1 DEF Agreed, PreparedOK, Preparing, Reported, CurrentRefSlot, data
  <2>3. committee.total > 0
    BY <1>2, <1>3, ConsensusVoted DEF CommitteeSound
  <2>4. AgreedOK'
    BY <1>1, <1>3, <2>1, <2>3 DEF AgreedOK, IsConsensus, data
  <2> QED
    BY <1>2, <2>1, <2>2, <2>4 DEF Agreed, ExpectationHolds
<1>4. CASE ~IsConsensus(data)
  <2>1. pc' = "idle" /\ work' = NoWork
    BY <1>1, <1>4 DEF Throw
  <2>2. PreparedOK' /\ AgreedOK'
    BY <2>1, Ends
  <2>3. committee.total = 0
    <3> SUFFICES ASSUME committee.total # 0 PROVE FALSE
      OBVIOUS
    <3>1. processed \in Nat /\ CurrentRefSlot \in Nat /\ processed <= CurrentRefSlot
      BY <1>2, ReportingAssumption, SlotInFrame
         DEF CommitteeSound, ClockOK, ProcessedOK, CurrentRefSlot
    <3>2. CASE processed < CurrentRefSlot
      <4>1. \A m \in FastLane : [member |-> m, data |-> data] \in votes
        BY <1>1, <3>2 DEF Agreed, AgreedOK
      <4>2. IsConsensus(data)
        BY <1>2, <4>1, LaneAgrees DEF CommitteeSound
      <4> QED
        BY <1>4, <4>2
    <3>3. CASE processed = CurrentRefSlot
      <4>1. PICK m \in FastLane : HasVoted(m)
        BY <1>2, <3>3, LaneHasVoter
      <4>2. ~(processed < CurrentRefSlot)
        BY <3>1, <3>3
      <4> QED
        BY <1>1, <4>1, <4>2 DEF Agreed, AgreedOK
    <3> QED
      BY <3>1, <3>2, <3>3
  <2> QED
    BY <1>2, <2>2, <2>3 DEF Agreed, ExpectationHolds
<1> QED
  BY <1>3, <1>4

\* The report is processed, after a quorum has voted for it.
LEMMA SubmitReportDataAgreed == Agreed /\ SubmitReportData => Agreed' /\ ExpectationHolds
<1> SUFFICES ASSUME Agreed, SubmitReportData PROVE Agreed' /\ ExpectationHolds
  OBVIOUS
<1>1. /\ pc = "main" /\ slot' = slot /\ committee' = committee /\ votes' = votes
      /\ \/ Throw("refused") /\ processed' = processed
         \/ Continue("extra", work) /\ processed' = data.refSlot
  BY DEF SubmitReportData
<1>2. /\ CommitteeSound /\ CurrentRefSlot' = CurrentRefSlot /\ data.refSlot = CurrentRefSlot
      /\ committee.total > 0 /\ IsConsensus(data)
  BY <1>1 DEF Agreed, PreparedOK, AgreedOK, Reported, CurrentRefSlot
<1>3. CASE Throw("refused") /\ processed' = processed
  <2>1. CommitteeSound'
    BY <1>1, <1>2, <1>3, CommitteeStays
  <2>2. PreparedOK' /\ AgreedOK'
    BY <1>3, Ends DEF Throw
  <2> QED
    BY <1>3, <2>1, <2>2 DEF Agreed, Throw, ExpectationHolds
<1>4. CASE Continue("extra", work) /\ processed' = data.refSlot
  <2>1. /\ pc' = "extra" /\ work' = work /\ failure' = failure /\ data' = data
        /\ processed' = CurrentRefSlot
    BY <1>2, <1>4 DEF Continue, data
  <2>2. CurrentRefSlot \in Nat
    BY <1>2, ReportingAssumption, SlotInFrame DEF CommitteeSound, ClockOK, CurrentRefSlot
  <2>3. Cardinality(Voters) > committee.total - committee.quorum
    BY <1>2, ConsensusVoted DEF CommitteeSound
  <2>4. Voters' = Voters
    BY <1>1 DEF Voters, HasVoted
  <2>5. ProcessedOK'
    BY <1>1, <1>2, <2>1, <2>2, <2>3, <2>4 DEF ProcessedOK
  <2>6. CommitteeSound'
    BY <1>1, <1>2, <2>5 DEF CommitteeSound, ClockOK, CommitteeOK, VotesOK
  <2>7. PreparedOK'
    BY <1>1, <1>2, <2>1 DEF Agreed, PreparedOK, Preparing, Reported
  <2>8. IsConsensus(data)'
    BY <1>1, <1>2, <2>1 DEF IsConsensus
  <2>9. AgreedOK'
    BY <1>1, <1>2, <2>1, <2>8 DEF AgreedOK
  <2> QED
    BY <2>1, <2>6, <2>7, <2>9 DEF Agreed, ExpectationHolds
<1> QED
  BY <1>1, <1>3, <1>4

\* What the client expects after the second phase is what it has just done.
LEMMA SubmitReportExtraDataAgreed ==
  Agreed /\ SubmitReportExtraData => Agreed' /\ ExpectationHolds
<1> SUFFICES ASSUME Agreed, SubmitReportExtraData PROVE Agreed' /\ ExpectationHolds
  OBVIOUS
<1>1. pc = "extra" /\ UNCHANGED <<slot, committee, votes, processed>>
  BY DEF SubmitReportExtraData, chainVars
<1>2. CurrentRefSlot = data.refSlot /\ IsConsensus(data) /\ processed = data.refSlot
  BY <1>1 DEF Agreed, PreparedOK, AgreedOK, Reported
<1>3. Continue("queue", NoWork) \/ Return
  BY <1>2 DEF SubmitReportExtraData
<1>4. CommitteeSound'
  BY <1>1, CommitteeStays DEF Agreed
<1>5. CASE Continue("queue", NoWork)
  <2>1. pc' = "queue" /\ work' = NoWork /\ failure' = failure
    BY <1>5 DEF Continue
  <2>2. NoWork.asked = {} /\ NoWork.data = NoData
    BY DEF NoWork
  <2>3. PreparedOK' /\ AgreedOK'
    BY <2>1, <2>2, MovesOn DEF Reported
  <2> QED
    BY <1>4, <2>1, <2>3 DEF Agreed, ExpectationHolds
<1>6. CASE Return
  <2>1. PreparedOK' /\ AgreedOK'
    BY <1>6, Ends DEF Return
  <2> QED
    BY <1>4, <1>6, <2>1 DEF Agreed, Return, ExpectationHolds
<1> QED
  BY <1>3, <1>5, <1>6

\* The loop over the queue begins its next turn, or ends.
LEMMA DrainAgreed ==
  ASSUME Agreed, HolderExpected \/ ReadQueue \/ TopUp \/ LastTopUp
  PROVE  Agreed' /\ ExpectationHolds
<1>1. UNCHANGED <<slot, committee, votes, processed>>
  BY DEF HolderExpected, ReadQueue, TopUp, LastTopUp, chainVars, oracleVars
<1> DEFINE loops == [NoWork EXCEPT !.drains = TRUE]
           reads == [NoWork EXCEPT !.drained = Drained]
<1>2. \/ Return \/ Continue("wait", loops) \/ Continue("topup", reads)
      \/ Continue("last", NoWork) \/ Throw("balance")
  BY DEF HolderExpected, ReadQueue, TopUp, LastTopUp, HeadOfLoop
<1>3. NoWork.data = NoData /\ NoWork.asked = {}
  BY DEF NoWork
<1>4. /\ DOMAIN loops = DOMAIN NoWork /\ loops.data = NoData /\ loops.asked = {}
      /\ DOMAIN reads = DOMAIN NoWork /\ reads.data = NoData /\ reads.asked = {}
  BY DEF NoWork
<1> HIDE DEF loops, reads
<1>5. CASE Return \/ Continue("wait", loops)
  BY <1>1, <1>4, <1>5, ClientMoves DEF Reported
<1>6. CASE Continue("topup", reads)
  BY <1>1, <1>4, <1>6, ClientMoves DEF Reported
<1>7. CASE Continue("last", NoWork)
  BY <1>1, <1>3, <1>7, ClientMoves DEF Reported
<1>8. CASE Throw("balance")
  <2>1. PreparedOK' /\ AgreedOK'
    BY <1>8, Ends DEF Throw
  <2> QED
    BY <1>1, <1>8, <2>1, CommitteeStays DEF Agreed, Throw, ExpectationHolds
<1> QED
  BY <1>2, <1>5, <1>6, <1>7, <1>8

\* Users, time, and the start of an operation.
LEMMA OthersAgreed ==
  ASSUME Agreed,
         \/ UserActs \/ PassTime \/ Report \/ FinalizeWithdrawalQueue
         \/ EnsureOracleCommitteeMembers \/ HandleReportDirectly \/ UNCHANGED vars
  PROVE  Agreed'
<1>1. CASE UserActs \/ HandleReportDirectly \/ UNCHANGED vars
  <2>1. UNCHANGED <<slot, committee, votes, processed, pc, work>>
    BY <1>1 DEF UserActs, HandleReportDirectly, vars, chainVars, oracleVars, clientVars
  <2> QED
    BY <2>1, CommitteeStays, ClientStays DEF Agreed
<1>2. CASE PassTime
  BY <1>2, PassTimeAgreed
<1>3. CASE Report
  <2>1. PICK o \in ReportOptions : Begin(AtReport(o), [NoWork EXCEPT !.opt = o])
    BY <1>3 DEF Report
  <2> DEFINE w == [NoWork EXCEPT !.opt = o]
  <2>2. UNCHANGED <<slot, committee, votes, processed>>
    BY <1>3 DEF Report, chainVars, oracleVars
  <2>3. DOMAIN w = DOMAIN NoWork /\ w.data = NoData /\ w.asked = {}
    BY DEF NoWork
  <2>4. pc' = AtReport(o) /\ work' = w /\ AtReport(o) \in {"wait", "read"}
    BY <2>1 DEF Begin, AtReport
  <2> HIDE DEF w
  <2>5. PreparedOK' /\ AgreedOK'
    BY <2>3, <2>4, MovesOn DEF Reported
  <2> QED
    BY <2>2, <2>5, CommitteeStays DEF Agreed
<1>4. CASE FinalizeWithdrawalQueue
  <2> DEFINE w(n) == [NoWork EXCEPT !.before = n,
                                    !.held   = n + GetSharesByPooledEth(pool, TopUpAmount)]
  <2>1. PICK n \in Holdings : Begin("holder", w(n))
    BY <1>4 DEF FinalizeWithdrawalQueue
  <2>2. UNCHANGED <<slot, committee, votes, processed>>
    BY <1>4 DEF FinalizeWithdrawalQueue, oracleVars
  <2>3. DOMAIN w(n) = DOMAIN NoWork /\ w(n).data = NoData /\ w(n).asked = {}
    BY DEF NoWork
  <2>4. pc' = "holder" /\ work' = w(n)
    BY <2>1 DEF Begin
  <2> HIDE DEF w
  <2>5. PreparedOK' /\ AgreedOK'
    BY <2>3, <2>4, MovesOn DEF Reported
  <2> QED
    BY <2>2, <2>5, CommitteeStays DEF Agreed
<1>5. CASE EnsureOracleCommitteeMembers
  BY <1>5, EnsureAgreed
<1> QED
  BY <1>1, <1>2, <1>3, <1>4, <1>5

\* Every step of the client keeps the invariant and meets the expectation it makes.
LEMMA ClientAgreed == Agreed /\ ClientStep => Agreed' /\ ExpectationHolds
BY WaitAgreed, ReadAgreed, PrepareAgreed, ReachConsensusAgreed, ConsensusExpectedAgreed,
   SubmitReportDataAgreed, SubmitReportExtraDataAgreed, DrainAgreed DEF ClientStep

LEMMA StepAgreed == Agreed /\ [Next]_vars => Agreed'
BY OthersAgreed, ClientAgreed DEF Next

\* ExpectationsMet, along every behaviour, for every frame configuration, committee, pool
\* and set of options, and whatever the contracts of the pool answer: as long as there are
\* members, the clock, the committee and the processed report are what the client expects.
THEOREM ExpectationsAlwaysMet == Spec => ExpectationsMet
<1>1. Agreed /\ [Next]_vars
        => [pc # "idle" /\ failure' # failure /\ failure' = "expectation"
              => committee.total = 0]_vars
  <2> SUFFICES ASSUME Agreed, Next, pc # "idle", failure' # failure, failure' = "expectation"
               PROVE  committee.total = 0
    BY DEF vars, clientVars
  <2>1. CASE ClientStep
    BY <2>1, ClientAgreed DEF ExpectationHolds
  <2>2. CASE UserActs
    BY <2>2 DEF UserActs, clientVars
  <2>3. CASE \/ PassTime \/ Report \/ FinalizeWithdrawalQueue \/ EnsureOracleCommitteeMembers
             \/ HandleReportDirectly
    BY <2>3 DEF PassTime, Report, FinalizeWithdrawalQueue, EnsureOracleCommitteeMembers,
                HandleReportDirectly, Begin
  <2> QED
    BY <2>1, <2>2, <2>3 DEF Next
<1> QED
  BY <1>1, InitAgreed, StepAgreed, PTL DEF Spec, ExpectationsMet

===================================================================================
