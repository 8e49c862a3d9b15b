------------------------------ MODULE Economics -----------------------------
(***************************************************************************)
(* The arithmetic behind a recommendation: a forecast of the monthly       *)
(* on-demand costs of each service (seasonal naive), the candidates among  *)
(* the frozen price items with their expected saving and downside, the one *)
(* that is recommended under the policy, and the replay of a backtest over *)
(* the same months.  Amounts are integer cents.                            *)
(***************************************************************************)
EXTENDS Integers, SequencesExt

CONSTANTS
  Services, Window,         \* services; months 1 .. Window of history (bound)
  Histories,                \* what may have been billed, None for a month without lines
  Policies, ItemLists,      \* frozen policies and price items (bounds)
  None,
  YearLength, Horizon,      \* months of a year (12 in the code) and of a forecast
  MinWindow, MinMonths,     \* history below which a forecast has a warning
  HoursPerMonth,            \* 730
  Bps                       \* 10000

Policy == [maxDownside : Nat, minSavings : Nat, maxGap : Nat, approvalThreshold : Nat,
           liquidity : Nat, discount : Nat]
Item == [service : Services \cup {None}, hourly : Nat, term : Nat \ {0}, upfront : Nat]
Candidate == [item : Item, commitment : Nat, savings : Nat, downside : Nat,
              usedP50 : 0 .. Bps, usedP95 : 0 .. Bps, band : {"low", "medium", "high"},
              binding : SUBSET {"risk_budget", "minimum_expected_savings", "utilization_gap"}]
Recommendation == [type : {"buy"}, candidate : Candidate, confidence : {"0.9000"},
                   status : {"pending_approval", "ready"}]

ASSUME EconomicsAssumption ==
  /\ IsFiniteSet(Services)
  /\ Window \in Nat \ {0} /\ YearLength \in Nat \ {0} /\ Horizon \in Nat \ {0}
  /\ HoursPerMonth \in Nat \ {0} /\ Bps \in Nat \ {0}
  /\ Histories \subseteq [(1 .. Window) \X Services -> Nat \cup {None}]
  /\ Policies \subseteq Policy /\ ItemLists \subseteq Seq(Item)
  /\ None \notin Recommendation

VARIABLES
  history, policy, items,   \* the evidence; history[<<month, service>>]
  forecast,                 \* the artifact of the forecast run, or None
  candidates,               \* points of the frontier, one for each item with points
  recommendation,           \* what the run recommends, or None
  replay                    \* results of the backtest, or None

economicVars == <<history, policy, items, forecast, candidates, recommendation, replay>>

EconomicsInit ==
  /\ history \in Histories /\ policy \in Policies /\ items \in ItemLists
  /\ forecast = None /\ candidates = <<>> /\ recommendation = None /\ replay = None

Total(f) == FoldFunction(+, 0, f)
Smaller(a, b) == IF a < b THEN a ELSE b
Larger(a, b) == IF a > b THEN a ELSE b
-----------------------------------------------------------------------------
(* The forecast. *)

Billed(s) == {m \in 1 .. Window : history[<<m, s>>] # None}

Average(months, s) ==
  LET total == Total([m \in months |-> history[<<m, s>>]])
      count == Cardinality(months)
  IN (total + count \div 2) \div count

\* The same month of earlier years, or else all of the history.
Basis(s, month) ==
  LET seasonal == {m \in Billed(s) : m % YearLength = month % YearLength}
  IN IF seasonal # {} THEN seasonal ELSE Billed(s)

ForecastMonths == Window + 1 .. Window + Horizon

Warnings ==
  LET observed == UNION {Billed(s) : s \in Services}
  IN {w \in {"NO_ELIGIBLE_USAGE_HISTORY", "LOW_HISTORY_DAYS", "LOW_MONTHLY_OBSERVATIONS"} :
        CASE w = "NO_ELIGIBLE_USAGE_HISTORY" -> observed = {}
          [] w = "LOW_HISTORY_DAYS" -> Window < MinWindow
          [] w = "LOW_MONTHLY_OBSERVATIONS" -> Cardinality(observed) < MinMonths}

ForecastPoints ==
  {[service |-> s, month |-> m, cost |-> Average(Basis(s, m), s)] :
     s \in {s \in Services : Billed(s) # {}}, m \in ForecastMonths}

Forecast ==
  /\ forecast = None
  /\ forecast' = [points |-> ForecastPoints, warnings |-> Warnings]
  /\ UNCHANGED <<history, policy, items, candidates, recommendation, replay>>
-----------------------------------------------------------------------------
(* The candidates. *)

\* The k-th of the values of f in increasing order.
Ranked(f, k) ==
  CHOOSE v \in Range(f) : /\ Cardinality({x \in DOMAIN f : f[x] < v}) < k
                         /\ k <= Cardinality({x \in DOMAIN f : f[x] <= v})

\* Fault: the index is rounded down.
PercentileFloor(f, pct) == Ranked(f, Larger(1, (pct * Cardinality(DOMAIN f)) \div 100))

Percentile(f, pct) == Ranked(f, Larger(1, (pct * Cardinality(DOMAIN f) + 99) \div 100))

\* Half a unit away from zero; BigInt division truncates.
RoundedDiv(n, d) ==
  IF n >= 0 THEN (n + d \div 2) \div d ELSE -((-n + d \div 2) \div d)

PointsForItem(item) ==
  {p \in forecast.points : item.service \in {None, p.service}}

\* What a month of this cost saves with the item.
Net(cost, commitment, item) ==
  cost - item.hourly * HoursPerMonth - Larger(0, commitment - cost)
       - RoundedDiv(item.upfront, item.term)
       - RoundedDiv(item.upfront * policy.liquidity, Bps)

Utilization(cost, commitment) ==
  IF commitment = 0 THEN 0 ELSE (Smaller(cost, commitment) * Bps) \div commitment

Commitment(costs) == Percentile(costs, 50)

BindingConstraints(expected, p95Downside, gap) ==
  {c \in {"risk_budget", "minimum_expected_savings", "utilization_gap"} :
     CASE c = "risk_budget" -> p95Downside > policy.maxDownside
       [] c = "minimum_expected_savings" -> expected < policy.minSavings
       [] c = "utilization_gap" -> gap > policy.maxGap}

RiskBand(p95Downside) ==
  CASE p95Downside = 0 -> "low"
    [] p95Downside \in 1 .. policy.maxDownside -> "medium"
    [] OTHER -> "high"

\* evaluateItem, of an item that has points.
Evaluate(item) ==
  LET costs == [p \in PointsForItem(item) |-> p.cost]
      commitment == Commitment(costs)
      nets == [p \in DOMAIN costs |-> Net(costs[p], commitment, item)]
      expected == RoundedDiv(Total(nets), Cardinality(DOMAIN nets))
      downside == Percentile([p \in DOMAIN nets |-> Larger(0, -nets[p])], 95)
      used == [p \in DOMAIN costs |-> Utilization(costs[p], commitment)]
      binding == BindingConstraints(expected, downside, Bps - Percentile(used, 50))
  IN [item |-> item, commitment |-> commitment,
      savings |-> Larger(0, expected), downside |-> downside,
      usedP50 |-> Percentile(used, 50), usedP95 |-> Percentile(used, 95),
      band |-> RiskBand(downside), binding |-> binding]

Feasible(c) == c.binding = {}

\* compareCandidates
Before(c, d) ==
  \/ Feasible(c) /\ ~Feasible(d)
  \/ /\ Feasible(c) = Feasible(d)
     /\ \/ c.savings > d.savings
        \/ c.savings = d.savings /\ c.downside < d.downside

\* A candidate for each item that covers a point.
Found == [i \in {i \in DOMAIN items : PointsForItem(items[i]) # {}} |-> Evaluate(items[i])]

\* The sort is stable: ties stay in the order of the items.
Ahead(found, i) ==
  {j \in DOMAIN found : \/ Before(found[j], found[i])
                        \/ ~Before(found[i], found[j]) /\ j < i}
Sorted(found) ==
  [n \in 1 .. Cardinality(DOMAIN found) |->
     found[CHOOSE i \in DOMAIN found : Cardinality(Ahead(found, i)) = n - 1]]

Approval(c) == c.commitment >= policy.approvalThreshold

\* The first feasible candidate becomes the recommendation, whose confidence is fixed.
Recommend(cs) ==
  IF cs = <<>> \/ ~Feasible(cs[1]) THEN None
  ELSE [type |-> "buy", candidate |-> cs[1], confidence |-> "0.9000",
        status |-> IF Approval(cs[1]) THEN "pending_approval" ELSE "ready"]

Optimize ==
  /\ forecast # None /\ candidates = <<>>
  /\ candidates' = Sorted(Found)
  /\ recommendation' = Recommend(Sorted(Found))
  /\ UNCHANGED <<history, policy, items, forecast, replay>>
-----------------------------------------------------------------------------
(* The replay. *)

Baselines == {"no_commitment", "last_month_steady_state", "seventy_percent_utilization"}

\* monthlyTotals: the billed months in their order, with what all services cost.
Replayed ==
  LET months == UNION {Billed(s) : s \in Services}
      month(i) == Ranked([m \in months |-> m], i)
      bills(m) == [s \in {s \in Services : m \in Billed(s)} |-> history[<<m, s>>]]
  IN [i \in 1 .. Cardinality(months) |-> Total(bills(month(i)))]

\* The costs that are known when the commitment of month i is chosen.
Visible(actuals, i) == SubSeq(actuals, 1, i - 1)

CommitmentFor(baseline, prior) ==
  LET mean == (Total(prior) + Len(prior) \div 2) \div Len(prior)
  IN IF baseline = "no_commitment" \/ prior = <<>> THEN 0
     ELSE IF baseline = "last_month_steady_state" THEN prior[Len(prior)]
     ELSE (mean * 70) \div 100

SimulatedCost(cost, commitment) ==
  IF commitment = 0 THEN cost
  ELSE cost - Smaller(cost, commitment)
       + (commitment * (Bps - policy.discount) + Bps \div 2) \div Bps

ReplayBaseline(baseline, actuals) ==
  LET commitments == [i \in DOMAIN actuals |-> CommitmentFor(baseline, Visible(actuals, i))]
      costs == [i \in DOMAIN actuals |-> SimulatedCost(actuals[i], commitments[i])]
      savings == [i \in DOMAIN actuals |-> actuals[i] - costs[i]]
  IN [commitments |-> commitments, simulated |-> Total(costs), savings |-> Total(savings),
      regret |-> Total([i \in DOMAIN actuals |-> Larger(0, -savings[i])])]

\* Ties go to the baseline that comes first, which is no_commitment against any other.
Best(results) ==
  LET best == {b \in Baselines : \A c \in Baselines : results[b].savings >= results[c].savings}
  IN IF "no_commitment" \in best THEN "no_commitment"
     ELSE IF "last_month_steady_state" \in best THEN "last_month_steady_state"
     ELSE "seventy_percent_utilization"

Results == [b \in Baselines |-> ReplayBaseline(b, Replayed)]

Backtest ==
  /\ replay = None
  /\ replay' = [results |-> Results, best |-> Best(Results)]
  /\ UNCHANGED <<history, policy, items, forecast, candidates, recommendation>>

EconomicsNext == Forecast \/ Optimize \/ Backtest
EconomicsSpec == EconomicsInit /\ [][EconomicsNext]_economicVars
-----------------------------------------------------------------------------
EconomicsTypeOK ==
  /\ candidates \in Seq(Candidate)
  /\ recommendation \in Recommendation \cup {None}
  /\ recommendation # None => candidates # <<>>
  /\ replay # None => replay.best \in Baselines

\* Every service that was billed has one point for each month after the window, and no
\* point lies outside of what was ever billed for its service.
ForecastFromHistory ==
  forecast # None =>
    /\ {<<p.service, p.month>> : p \in forecast.points} =
         {s \in Services : Billed(s) # {}} \X ((Window + 1) .. (Window + Horizon))
    /\ Cardinality(forecast.points) = Horizon * Cardinality({s \in Services : Billed(s) # {}})
    /\ \A p \in forecast.points : \E l, h \in Billed(p.service) :
         history[<<l, p.service>>] <= p.cost /\ p.cost <= history[<<h, p.service>>]

\* The draws of the forecast, as the recommended candidate meets them.
RecommendedNets ==
  LET c == recommendation.candidate
  IN [p \in PointsForItem(c.item) |-> Net(p.cost, c.commitment, c.item)]

\* "The p95 downside stays within budget" (risk-policy.md): at most one draw in twenty
\* loses more than the policy allows, whatever the number of draws.
WithinRiskBudget ==
  recommendation # None =>
    LET nets == RecommendedNets
    IN 20 * Cardinality({p \in DOMAIN nets : -nets[p] > policy.maxDownside})
         <= Cardinality(DOMAIN nets)

\* A recommended saving is what the draws save on the average, to the nearest cent, and
\* reaches the policy's minimum: it is never the zero a loss is displayed as.
SavingIsReal ==
  recommendation # None =>
    LET nets == RecommendedNets
        n == Cardinality(DOMAIN nets)
        error == 2 * (n * recommendation.candidate.savings - Total(nets))
    IN error \in -n .. n /\ recommendation.candidate.savings >= policy.minSavings

\* The run recommends whenever some candidate is feasible, and then none that is feasible
\* saves more, or as much at a smaller downside.
NoBetterChoice ==
  forecast # None /\ candidates # <<>> =>
    LET feasible == {c \in ToSet(candidates) : Feasible(c)}
    IN /\ (recommendation = None) = (feasible = {})
       /\ recommendation # None =>
            LET best == recommendation.candidate
            IN best \in feasible /\ \A c \in feasible :
                 \/ c.savings < best.savings
                 \/ c.savings = best.savings /\ c.downside >= best.downside

\* The commitment is the median cost, so the median utilization is full, or none when the
\* median cost is zero: the policy's utilization gap can refuse nothing else.
UtilizationIsAllOrNothing ==
  \A c \in ToSet(candidates) :
    c.usedP50 = (IF c.commitment = 0 THEN 0 ELSE Bps) /\ c.usedP95 = c.usedP50

\* "no_future_leakage: true" (backtest-worker.ts): the commitment of a month stays the
\* same when the month itself and all that follow had cost anything else.
NoFutureLeakage ==
  replay # None =>
    \A b \in Baselines, i \in DOMAIN Replayed, other \in {0, 1 + Total(Replayed)} :
      ReplayBaseline(b, Append(SubSeq(Replayed, 1, i - 1), other)).commitments[i]
        = replay.results[b].commitments[i]

\* The accounts of a replay balance, and its best baseline is not worse than any other,
\* so never worse than making no commitment.
ReplayBalances ==
  replay # None =>
    LET best == replay.results[replay.best].savings
    IN best >= 0 /\ \A b \in Baselines :
         LET r == replay.results[b]
         IN /\ r.simulated + r.savings = Total(Replayed)
            /\ r.regret >= 0 /\ r.savings + r.regret >= 0 /\ r.savings <= best

\* The part of a commitment that is not used is paid like the rest of it.
CommitmentsArePaid ==
  replay # None => \A b \in Baselines :
    LET r == replay.results[b]
    IN Bps * r.simulated + Len(Replayed) * (Bps \div 2)
         >= (Bps - policy.discount) * Total(r.commitments)

\* What a run recommends follows from its evidence and is within the policy, and what a
\* backtest reports balances without a look at the future.
RecommendationIsSound ==
  ForecastFromHistory /\ WithinRiskBudget /\ SavingIsReal /\ NoBetterChoice
    /\ UtilizationIsAllOrNothing
ReplayIsSound == NoFutureLeakage /\ ReplayBalances /\ CommitmentsArePaid
MoneyIsRight == EconomicsTypeOK /\ RecommendationIsSound /\ ReplayIsSound
=============================================================================
