------------------------------ MODULE MCWorker ------------------------------
(***************************************************************************)
(* What the worker and the evidence of its runs are made of, for TLC.      *)
(* component says what moves in a behaviour: two worker processes that may *)
(* fail; two that do not but whose last stage is broken; requests to       *)
(* activate price tables of one instrument, or of two; or the arithmetic   *)
(* of a forecast, an optimizer run and a backtest.                         *)
(***************************************************************************)
EXTENDS Worker, PriceTables, Economics

VARIABLE component

Lasting == INSTANCE Worker WITH Broken <- {"adapters"}, MayFail <- FALSE

-----------------------------------------------------------------------------
\* Three tables of one instrument, of which t1 and t2 have a day in common and t3
\* is open, and a table of another that has the label of t1.
ItsInstrument == [t1 |-> "i1", t2 |-> "i1", t3 |-> "i1", t4 |-> "i2"]
ItsLabel == [t1 |-> 1, t2 |-> 2, t3 |-> 3, t4 |-> 1]
ItsFrom == [t1 |-> 0, t2 |-> 1, t3 |-> 2, t4 |-> 0]
ItsTo == [t1 |-> 1, t2 |-> 1, t3 |-> 2, t4 |-> 2]

\* The tables that exist and the requests for them.
Among(ts, qs) ==
    /\ \A t \in Tables \ ts : tables'[t] = "none"
    /\ \A q \in Requests : request'[q].table \in ts /\ (q \in qs \/ request'[q].pc = "idle")

\* Three requests for the tables of one instrument, which come in the order of their
\* names as nothing else tells them apart, or two for those of two.
Touching ==
    /\ Among({"t1", "t2", "t3"}, Requests)
    /\ request'["q2"].pc # "idle" => request'["q1"].pc # "idle"
    /\ request'["q3"].pc # "idle" => request'["q2"].pc # "idle"
Labelled == Among({"t1", "t2", "t4"}, {"q1", "q2"})

-----------------------------------------------------------------------------
\* Three months of two services, a year of two months, a forecast of two months;
\* hourly rates of 0 and 1 cent, and four policies.
TheHistories ==
    {h \in [(1 .. 3) \X {"s1", "s2"} -> {0, 730, 2000, None}] :
       \A m \in 1 .. 3 : h[<<m, "s2">>] \in {2000, None}}

APolicy(maxDownside, minSavings, liquidity, discount) ==
    [maxDownside |-> maxDownside, minSavings |-> minSavings, maxGap |-> 2000,
     approvalThreshold |-> 1000, liquidity |-> liquidity, discount |-> discount]
ThePolicies ==
    {APolicy(0, 0, 0, 3000), APolicy(500, 0, 200, 3000), APolicy(1500, 100, 0, 0),
     APolicy(5000, 0, 0, 10000)}

AnItem(service, hourly, term, upfront) ==
    [service |-> service, hourly |-> hourly, term |-> term, upfront |-> upfront]
TheItemLists ==
    {<<AnItem(None, 1, 12, 0)>>,
     <<AnItem("s1", 0, 12, 6000), AnItem("s1", 1, 12, 0)>>,
     <<AnItem("s2", 1, 36, 100), AnItem(None, 0, 36, 700), AnItem("s1", 1, 12, 7)>>}

-----------------------------------------------------------------------------
NoMoney ==
    /\ history = None /\ policy = None /\ items = None /\ forecast = None
    /\ candidates = <<>> /\ recommendation = None /\ replay = None
\* A request names its table when it comes.
NoPrices == PricesInit /\ \A q \in Requests : Table(q) = "t1"

MCInit ==
    /\ Init
    /\ \/ component \in {"failing", "lasting", "touching", "labelled"} /\ NoPrices /\ NoMoney
       \/ component = "money" /\ NoPrices /\ EconomicsInit

\* The failing processes have one forecast run only.
MCNext ==
    \/ /\ \/ component = "failing" /\ Next
             /\ \E f \in Forecasts : \A g \in Forecasts \ {f} : status'[g] = "absent"
          \/ component = "lasting" /\ Lasting!Next
       /\ UNCHANGED <<component, pricesVars, economicVars>>
    \/ /\ PricesNext
       /\ \/ component = "touching" /\ Touching
          \/ component = "labelled" /\ Labelled
       /\ UNCHANGED <<component, vars, economicVars>>
    \/ component = "money" /\ EconomicsNext /\ UNCHANGED <<component, vars, pricesVars>>

\* The fairness of Worker and of PriceTables.
MCFairness ==
    /\ \A w \in Workers : WF_vars(component = "lasting" /\ Lasting!Step(w))
    /\ \A q \in {"q1", "q2"} :
          /\ WF_pricesVars(component = "labelled" /\ (Get(q) \/ Decide(q) \/ Commit(q) \/ Read(q)))
          /\ SF_pricesVars(component = "labelled" /\ UpdateRow(q))
          /\ SF_pricesVars(component = "labelled" /\ LockInstrument(q))

MCSpec == MCInit /\ [][MCNext]_<<component, vars, pricesVars, economicVars>> /\ MCFairness
-----------------------------------------------------------------------------
(* Properties *)

\* Nothing starves: forecasts and backtests are taken although the stage behind them
\* throws in every cycle, and the activations of price tables are answered, whatever
\* rows and instruments they lock.
NothingStarves ==
    /\ component = "lasting" => ForecastsAreTaken /\ BacktestsAreTaken
    /\ component = "labelled" => RequestsEnd
=============================================================================
