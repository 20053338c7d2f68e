----------------------------- MODULE MCResearch -----------------------------
(***************************************************************************)
(* The research side, for TLC: a replay of the wheel strategy, the chunked *)
(* run of a backtest, the pool that evaluates a generation, the evolution  *)
(* search, the backtest API and what becomes of a report.  They share no   *)
(* state, so a behaviour runs one of them, picked at the start; the        *)
(* variables of the others keep their initial values.                      *)
(***************************************************************************)
EXTENDS BacktestSession, ChunkedRun, ParallelMap, EvolutionSearch, BacktestApi, ReportFlow

VARIABLE part   \* what runs

MCBarRows ==
    {[ts |-> 2, source |-> "tencent"], [ts |-> 3, source |-> "tencent"],
     [ts |-> 3, source |-> "futu"], [ts |-> 4, source |-> "futu"]}

MCSnapBatches ==
    {[at |-> 1, source |-> "futu"], [at |-> 3, source |-> "futu"],
     [at |-> 3, source |-> "hkex"], [at |-> 5, source |-> "futu"]}

MCRunOptions ==
    [from : {0, 2, 3}, to : {0, 3, 4}, quoteFrom : {0, 3}, limit : {1, 2, 4}, size : {1, 2}]

\* A group that tunes one bound of the range and one that tunes both.
MCGroups ==
    << [tunesMin |-> FALSE, tunesMax |-> TRUE, minLo |-> 0, minHi |-> 0,
        maxLo |-> 3, maxHi |-> 8, baseMin |-> 4, baseMax |-> 8],
       [tunesMin |-> TRUE, tunesMax |-> TRUE, minLo |-> 1, minHi |-> 4,
        maxLo |-> 2, maxHi |-> 9, baseMin |-> 4, baseMax |-> 8] >>

MCBarSets == {{0, 6, 7, 8, 10}, {0, 1, 2, 3, 9}, {0, 2, 3, 4}}

MCScores == {-2, -1, 2}

MCBaselines == {-2, 1}

MCDrawnGenes ==
    {[min |-> [n |-> 1, d |-> 3], max |-> [n |-> 2, d |-> 5]],
     [min |-> [n |-> 1, d |-> 1], max |-> [n |-> 1, d |-> 5]]}

MCPruneFactor == [n |-> 1, d |-> 2]

\* Two results of one strategy: the second without a completed cycle.
MCResults ==
    {[kind |-> "es_train", strategy |-> "wheel", cycle |-> c, ready |-> 1,
      bars |-> 2, beats |-> TRUE] : c \in BOOLEAN}

(* The replay: two puts and a call with two expiries, five bars and three   *)
(* closes.  A batch saw any of the prices, not only that of its bar.        *)
MCCode == 1 .. 3
MCKind == <<"put", "put", "call">>
MCStrike == <<9, 11, 13>>
MCExpiry == <<5, 3, 5>>
MCLot == 4
MCPrices == {8, 12, 14}

Base ==
  [strategicState |-> "NORMAL", fullPositionPrice |-> 8, zeroPositionPrice |-> 16,
   maxInventory |-> 8, moveIntervalPct |-> 0, minPremiumPerShare |-> 1,
   minOptionProfit |-> 4, stockSwitchPct |-> 0, coveredCallPct |-> 5,
   profitTakePct |-> 0, putDeltaMax |-> 0, callDeltaMax |-> 0, minIVRank |-> FALSE,
   tradeGap |-> 0, minDTE |-> 0, maxDTE |-> 4, minOptionQuality |-> 0]

MCConfigs ==
  { Base,
    [Base EXCEPT !.profitTakePct = 50, !.moveIntervalPct = 15],
    [Base EXCEPT !.stockSwitchPct = 30, !.profitTakePct = 50, !.strategicState = "CAUTION"],
    [Base EXCEPT !.stockSwitchPct = 15, !.minIVRank = TRUE, !.putDeltaMax = 60,
                 !.maxInventory = 7],
    [Base EXCEPT !.strategicState = "PAUSE_BUY", !.stockSwitchPct = 15, !.tradeGap = 1] }

\* Delta in shares per contract.
MCDelta(c, p) ==
  CASE MCKind[c] = "put" /\ p <= MCStrike[c] -> -3
    [] MCKind[c] = "put" /\ p > MCStrike[c] -> -2
    [] MCKind[c] = "call" /\ p >= MCStrike[c] -> 3
    [] OTHER -> 1

\* Two price levels; "none" is a quote with an ask and no bid, "stale" one that
\* does not pass validation.
Quote(c, p, level) ==
  [bid |-> CASE level = "none" -> 0 [] level = "high" -> 3 [] OTHER -> 1,
   ask |-> IF level = "high" THEN 3 ELSE 1,
   delta |-> MCDelta(c, p), usable |-> level \in {"low", "high"},
   quality |-> IF level = "high" THEN 30 ELSE 10]

MCBatches ==
  { [price |-> p, ivRankOK |-> TRUE, quotes |-> [c \in MCCode |-> Quote(c, p, lv[c])]] :
      p \in MCPrices, lv \in [MCCode -> {"low", "high"}] }
  \cup
  { [price |-> p, ivRankOK |-> FALSE, quotes |-> [c \in MCCode |-> Quote(c, p, "high")]] :
      p \in MCPrices }
  \cup
  { [price |-> p, ivRankOK |-> TRUE, quotes |-> [c \in cs |-> Quote(c, p, level)]] :
      p \in MCPrices, cs \in {{1}, {3}, MCCode}, level \in {"none", "stale"} }

-----------------------------------------------------------------------------
Part == {"replay", "chunked", "pool", "search", "api", "report"}

researchVars == <<vars, ckVars, pmVars, esVars, btVars, rpVars>>

\* An arbitrary but fixed start for a part that does not run.
ReplayRests  == cfg = Base
ChunkedRests == ckTable = {} /\ ckSnaps = {} /\ ckOpt = CHOOSE o \in RunOptions : TRUE
PoolRests    == pmFails = {}
SearchRests  ==
    /\ esBars = CHOOSE b \in BarSets : TRUE
    /\ esBaseline = CHOOSE s \in Baselines : TRUE
    /\ ~esPruning /\ esBudget = CHOOSE n \in Budgets : TRUE
ReportRests  == \A c \in Command : rpResult[c] = CHOOSE x \in Results : TRUE

ResearchInit ==
    /\ part \in Part
    /\ BtInit
    /\ Init /\ (part # "replay" => ReplayRests)
    /\ PmInit /\ (part # "pool" => PoolRests)
    /\ EsInit /\ (part # "search" => SearchRests)
    /\ RpInit /\ (part # "report" => ReportRests)
    /\ CkInit /\ (part # "chunked" => ChunkedRests)

ResearchNext ==
    \/ part = "replay" /\ Next /\ UNCHANGED <<part, ckVars, pmVars, esVars, btVars, rpVars>>
    \/ part = "chunked" /\ CkNext /\ UNCHANGED <<part, vars, pmVars, esVars, btVars, rpVars>>
    \/ part = "pool" /\ PmNext /\ UNCHANGED <<part, vars, ckVars, esVars, btVars, rpVars>>
    \/ part = "search" /\ EsNext /\ UNCHANGED <<part, vars, ckVars, pmVars, btVars, rpVars>>
    \/ part = "api" /\ BtNext /\ UNCHANGED <<part, vars, ckVars, pmVars, esVars, rpVars>>
    \/ part = "report" /\ RpNext /\ UNCHANGED <<part, vars, ckVars, pmVars, esVars, btVars>>

\* Of these only the pool promises progress.  Its fairness leaves the behaviours
\* in which the pool runs and is scheduled; safety is checked of all.
ResearchSpec == ResearchInit /\ [][ResearchNext]_<<part, researchVars>> /\ PmFairness
=============================================================================
