--------------------------- MODULE EvolutionSearch ---------------------------
(***************************************************************************)
(* Parameter search over backtests: Search of internal/backtestes/es.go    *)
(* under the orchestration of `wbot backtest -tune` (cmd/wbot), which runs *)
(* one search per group in order, prunes searches that fall behind, tests  *)
(* the candidates of every group on the held-out window and picks the best *)
(* group.  `-train` is the same with one group and no pruning.             *)
(*                                                                         *)
(* A score stands for Metrics.Score of one evaluation; what a backtest     *)
(* yields is a choice.  Evaluations of one generation run in ParallelMap   *)
(* and are one step here.  Of the tactical parameters the two DTE bounds   *)
(* are kept: they are the pair that decode ties together.  Genes are       *)
(* fractions, [n, d] with 0 <= n <= d.                                     *)
(***************************************************************************)
EXTENDS Integers, Sequences, FiniteSets

CONSTANTS
  Groups,          \* sequence of search spaces, one per space and seed
  BarSets,         \* sets of bar timestamps, in nanoseconds
  Scores,          \* scores an evaluation may have
  Baselines,       \* buy-hold returns of the window
  DrawnGenes,      \* genes that random draws and mutations may give
  PopulationSize, MaxGenerations, Budgets, Patience,
  MinImprovement,  \* MinAbsoluteImprovement
  RelImprovement,  \* 1 / MinRelativeImprovement
  PruneWindow, PruneFactor,    \* the factor as [n, d]
  SampleCandidates, SampleSeeds, \* sampleOutCandidateCount, sampleOutSeedCount
  MinSplitBars,
  NoScore          \* math.Inf(-1)

\* A tuned parameter has bounds, the others their base value.
SearchSpace == [tunesMin : BOOLEAN, tunesMax : BOOLEAN, minLo : Nat, minHi : Nat,
                maxLo : Nat, maxHi : Nat, baseMin : Nat, baseMax : Nat]

\* A gene is between zero and one.
Unit(f) == f.n \in 0 .. f.d /\ f.d > 0

ASSUME SearchAssumption ==
  /\ Scores \subseteq Int /\ Baselines \subseteq Int /\ NoScore \notin Scores
  /\ PopulationSize \in Nat \ {0} /\ Patience \in Nat \ {0} /\ MaxGenerations \in Nat
  /\ SampleCandidates \in Nat /\ SampleSeeds \in Nat /\ Budgets \subseteq Nat
  /\ \A b \in Budgets : b > SampleCandidates * SampleSeeds + PopulationSize
  /\ RelImprovement \in Nat \ {0} /\ MinSplitBars \in Nat \ {0}
  /\ PruneFactor \in [n : Nat, d : Nat] /\ Unit(PruneFactor)
  /\ DrawnGenes \subseteq [min : [n : Nat, d : Nat], max : [n : Nat, d : Nat]]
  /\ \A g \in DrawnGenes : Unit(g.min) /\ Unit(g.max)
  \* what a query returns is finite
  /\ \A bars \in BarSets : bars \subseteq Int
       /\ (bars # {} => \E f, l \in bars : \A t \in bars : f <= t /\ t <= l)
  /\ Groups # <<>> /\ Groups \in Seq(SearchSpace)
  /\ \A i \in DOMAIN Groups :   \* ParseSpace
       LET b == Groups[i]
       IN /\ b.tunesMin \/ b.tunesMax
          /\ b.minLo <= b.minHi /\ b.maxLo <= b.maxHi
          /\ b.tunesMin => b.minHi <= (IF b.tunesMax THEN b.maxHi ELSE b.baseMax)
          /\ b.tunesMax /\ ~b.tunesMin => b.baseMin <= b.maxHi

VARIABLES
  esPc, esBars, esBaseline,
  esGroup,        \* index of the running group
  esGen,          \* generations completed in the group
  esGenes,        \* the population
  esCount,        \* result.EvaluationCount
  esTrain,        \* train scores of the generation, by gene
  esBestValid, esGlobal, esStale,  \* validation champion and its age
  esHistory,      \* historyBestScore
  esAll,          \* evaluated parameters
  esStop,         \* StopReason
  esGlobalBest,   \* globalBestReward of the tune run
  esResults,      \* finished groups: [group, stop, history, sampleOut]
  esPruning, esBudget   \* -tune-prune, -budget

esSearch == <<esGen, esGenes, esCount, esTrain, esBestValid, esGlobal, esStale,
              esHistory, esAll, esStop>>
esVars == <<esPc, esBars, esBaseline, esGroup, esSearch, esGlobalBest, esResults, esPruning, esBudget>>

-----------------------------------------------------------------------------
\* math.Round of a non-negative fraction.
RoundFrac(n, d) == (2 * n + d) \div (2 * d)
Spread(g, lo, hi) == lo + RoundFrac(g.n * (hi - lo), g.d)
Larger(a, b) == IF a >= b THEN a ELSE b

\* Mutant: max_dte is decoded from its own bounds only.
DecodeUntied(b, g) ==
  [min |-> IF b.tunesMin THEN Spread(g.min, b.minLo, b.minHi) ELSE b.baseMin,
   max |-> IF b.tunesMax THEN Spread(g.max, b.maxLo, b.maxHi) ELSE b.baseMax]
\* Space.decode: a tuned max_dte starts at the decoded min_dte.
Decode(b, g) ==
  LET min == IF b.tunesMin THEN Spread(g.min, b.minLo, b.minHi) ELSE b.baseMin
      max == IF ~b.tunesMax THEN b.baseMax
             ELSE IF b.tunesMin THEN Spread(g.max, Larger(min, b.maxLo), b.maxHi)
             ELSE Spread(g.max, b.maxLo, b.maxHi)
  IN [min |-> min, max |-> Larger(min, max)]

Zero == [n |-> 0, d |-> 1]
\* Mutant: the fraction of the upper bound.
FractionOfMax(v, lo, hi) == [n |-> v, d |-> hi]
\* clamp01((v - lo) / (hi - lo)), zero for an empty range.
Fraction(v, lo, hi) ==
  IF hi <= lo \/ v <= lo THEN Zero
  ELSE IF v >= hi THEN [n |-> 1, d |-> 1] ELSE [n |-> v - lo, d |-> hi - lo]
\* encode, which knows each parameter's own bounds only.
Encode(b, p) ==
  [min |-> IF b.tunesMin THEN Fraction(p.min, b.minLo, b.minHi) ELSE Zero,
   max |-> IF b.tunesMax THEN Fraction(p.max, b.maxLo, b.maxHi) ELSE Zero]

\* SplitWindows of the first and last bar, 60/20/20.
First(bars) == CHOOSE t \in bars : \A u \in bars : t <= u
Last(bars) == CHOOSE t \in bars : \A u \in bars : t >= u
SplitWindows(bars) ==
  LET d == Last(bars) - First(bars)
      a == First(bars) + (d * 3) \div 5
      b == First(bars) + (d * 4) \div 5
  IN [train |-> [from |-> First(bars), to |-> a],
      valid |-> [from |-> a, to |-> b],
      test |-> [from |-> b, to |-> Last(bars)]]

InWindow(bars, w) == {t \in bars : w.from <= t /\ t < w.to}
\* ValidateWindowBars.
WindowsHaveBars(bars) ==
  LET w == SplitWindows(bars)
  IN /\ Cardinality(bars) >= MinSplitBars
     /\ InWindow(bars, w.train) # {} /\ InWindow(bars, w.valid) # {}
     /\ \E t \in bars : w.test.from <= t

\* Mutant: every window is read up to its end.
PreparedClosed(bars) ==
  LET w == SplitWindows(bars)
  IN [k \in {"train", "valid", "test"} |-> {t \in bars : w[k].from <= t /\ t <= w[k].to}]
\* What Prepare reads: up to a nanosecond before the end, the test window
\* with its end.
Prepared(bars) ==
  LET w == SplitWindows(bars)
  IN [k \in {"train", "valid", "test"} |->
        {t \in bars : w[k].from <= t /\ t <= (IF k = "test" THEN w[k].to ELSE w[k].to - 1)}]

-----------------------------------------------------------------------------
Reserved == SampleCandidates * SampleSeeds
Space == Groups[esGroup]
Member == 1 .. PopulationSize
Params == [min : Nat, max : Nat]

EsTypeOK ==
  /\ esPc \in {"probe", "start", "train", "validate", "breed", "sample", "done", "failed"}
  /\ esBars \in BarSets /\ esBaseline \in Baselines
  /\ esGroup \in 1 .. Len(Groups) + 1 /\ esGen \in 0 .. MaxGenerations
  /\ esGenes \in Seq([min : [n : Nat, d : Nat], max : [n : Nat, d : Nat]])
  /\ esCount \in Nat /\ esStale \in 0 .. Patience
  /\ esBestValid \in Scores \union {NoScore} /\ esHistory \in Scores \union {NoScore}
  /\ esGlobalBest \in Scores \union {NoScore}
  /\ esStop \in {"none", "timeout", "budget_exhausted", "pruned", "early_stop", "max_generations"}
  /\ esPruning \in BOOLEAN /\ esBudget \in Budgets

\* A fresh Search over the group's space with drawn genes.
FreshSearch(gs) ==
  /\ esGen' = 0 /\ esGenes' = gs /\ esCount' = 0 /\ esTrain' = <<>>
  /\ esBestValid' = NoScore /\ esGlobal' = <<>> /\ esStale' = 0
  /\ esHistory' = NoScore /\ esAll' = {} /\ esStop' = "none"

EsInit ==
  /\ esPc = "probe" /\ esBars \in BarSets
  /\ esBaseline \in Baselines
  /\ esGroup = 1 /\ esGen = 0 /\ esGenes = <<>> /\ esCount = 0 /\ esTrain = <<>>
  /\ esBestValid = NoScore /\ esGlobal = <<>> /\ esStale = 0 /\ esHistory = NoScore
  /\ esAll = {} /\ esStop = "none" /\ esGlobalBest = NoScore /\ esResults = <<>>
  /\ esPruning \in BOOLEAN /\ esBudget \in Budgets

\* The data probe, the split and the preparation of the three windows.
ProbeData ==
  /\ esPc = "probe"
  /\ \/ ~WindowsHaveBars(esBars) /\ esPc' = "failed" /\ UNCHANGED esSearch
     \/ /\ WindowsHaveBars(esBars) /\ esPc' = "start"
        /\ \E gs \in [Member -> DrawnGenes] : FreshSearch(gs)
  /\ UNCHANGED <<esBars, esBaseline, esGroup, esGlobalBest, esResults, esPruning, esBudget>>

\* Mutant: the validation run is not counted in advance.
FitsPopulation == esCount + PopulationSize <= esBudget - Reserved
\* A generation starts only if its evaluations fit the budget.
FitsBudget == esCount + PopulationSize + 1 <= esBudget - Reserved

StopSearch(reason) == esStop' = reason /\ esPc' = "sample"

\* The head of the loop: last generation, context, budget.
StartGeneration ==
  /\ esPc = "start"
  /\ \/ esGen = MaxGenerations /\ StopSearch("max_generations")
     \/ esGen < MaxGenerations /\ StopSearch("timeout")
     \/ esGen < MaxGenerations /\ ~FitsBudget /\ StopSearch("budget_exhausted")
     \/ esGen < MaxGenerations /\ FitsBudget /\ esPc' = "train" /\ UNCHANGED esStop
  /\ UNCHANGED <<esBars, esBaseline, esGroup, esGen, esGenes, esCount, esTrain, esBestValid,
                 esGlobal, esStale, esHistory, esAll, esGlobalBest, esResults, esPruning, esBudget>>

BestOf(ss) == CHOOSE m \in Member : \A k \in Member : ss[m] >= ss[k] /\ (ss[m] = ss[k] => m <= k)

\* The population on the train window.
EvaluateTrain ==
  /\ esPc = "train"
  /\ \E ss \in [Member -> Scores] :
       /\ esTrain' = ss
       /\ esAll' = esAll \union {Decode(Space, esGenes[m]) : m \in Member}
       /\ esHistory' = IF esHistory = NoScore \/ ss[BestOf(ss)] > esHistory
                       THEN ss[BestOf(ss)] ELSE esHistory
  /\ esCount' = esCount + PopulationSize /\ esPc' = "validate"
  /\ UNCHANGED <<esBars, esBaseline, esGroup, esGen, esGenes, esBestValid, esGlobal, esStale,
                 esStop, esGlobalBest, esResults, esPruning, esBudget>>

Absolute(x) == IF x < 0 THEN -x ELSE x
Improved(v) ==
  \/ esBestValid = NoScore
  \/ esBestValid # NoScore /\ v > esBestValid + Larger(MinImprovement, Absolute(esBestValid) \div RelImprovement)

\* Mutant: the rule looks at the scores of the generation.
ShouldPruneGeneration(gen, history, baseline, best) ==
  /\ gen + 1 >= PruneWindow /\ best # NoScore /\ best >= baseline
  /\ \/ esTrain[BestOf(esTrain)] < baseline
     \/ esTrain[BestOf(esTrain)] * PruneFactor.d < best * PruneFactor.n
\* tuneShouldPrune, with the floor max(baseline, best * factor).
ShouldPrune(gen, history, baseline, best) ==
  /\ gen + 1 >= PruneWindow /\ best # NoScore /\ best >= baseline
  /\ \/ history < baseline
     \/ history * PruneFactor.d < best * PruneFactor.n

\* The champion on the validation window, then the racing hook and patience.
Validate ==
  /\ esPc = "validate"
  /\ \E v \in Scores :
       LET prune == esPruning /\ ShouldPrune(esGen, esHistory, esBaseline, esGlobalBest)
       IN /\ esCount' = esCount + 1 /\ esGen' = esGen + 1
          /\ IF Improved(v)
             THEN /\ esBestValid' = v /\ esStale' = 0
                  /\ esGlobal' = Decode(Space, esGenes[BestOf(esTrain)])
             ELSE esStale' = esStale + 1 /\ UNCHANGED <<esBestValid, esGlobal>>
          /\ esGlobalBest' = IF esPruning /\ (esGlobalBest = NoScore \/ esHistory > esGlobalBest)
                             THEN esHistory ELSE esGlobalBest
          /\ \/ prune /\ StopSearch("pruned")
             \/ ~prune /\ esStale' >= Patience /\ StopSearch("early_stop")
             \/ ~prune /\ esStale' < Patience /\ esPc' = "breed" /\ UNCHANGED esStop
  /\ esTrain' = <<>>
  /\ UNCHANGED <<esBars, esBaseline, esGroup, esGenes, esHistory, esAll, esResults, esPruning, esBudget>>

\* The next population: the global champion, then children and immigrants.
Breed ==
  /\ esPc = "breed"
  /\ \E gs \in [Member \ {1} -> DrawnGenes] :
       esGenes' = [m \in Member |-> IF m = 1 THEN Encode(Space, esGlobal) ELSE gs[m]]
  /\ esPc' = "start"
  /\ UNCHANGED <<esBars, esBaseline, esGroup, esGen, esCount, esTrain, esBestValid, esGlobal,
                 esStale, esHistory, esAll, esStop, esGlobalBest, esResults, esPruning, esBudget>>

\* A context that ends during an evaluation, or an evaluation that fails,
\* ends the whole command.
EvaluationFails ==
  /\ esPc \in {"train", "validate", "sample"}
  /\ esPc' = "failed"
  /\ UNCHANGED <<esBars, esBaseline, esGroup, esSearch, esGlobalBest, esResults, esPruning, esBudget>>

\* sampleOutTestCandidates: the group's best candidates on the test window.
SampleOut ==
  /\ esPc = "sample"
  /\ \/ /\ Cardinality(esAll) < SampleCandidates
        /\ esPc' = "failed" /\ UNCHANGED <<esGroup, esSearch, esResults>>
     \/ /\ Cardinality(esAll) >= SampleCandidates
        /\ \E s \in Scores :
             esResults' = Append(esResults, [group |-> esGroup, stop |-> esStop, history |-> esHistory,
                                             evaluations |-> esCount + Reserved, sampleOut |-> s])
        /\ esGroup' = esGroup + 1
        /\ IF esGroup = Len(Groups) THEN esPc' = "done" /\ UNCHANGED esSearch
           ELSE esPc' = "start" /\ \E gs \in [Member -> DrawnGenes] : FreshSearch(gs)
  /\ UNCHANGED <<esBars, esBaseline, esGlobalBest, esPruning, esBudget>>

EsNext ==
  \/ ProbeData \/ StartGeneration \/ EvaluateTrain \/ Validate \/ Breed
  \/ EvaluationFails \/ SampleOut
EsSpec == EsInit /\ [][EsNext]_esVars

-----------------------------------------------------------------------------
\* No bar is seen by two of train, validation and test, none is left out,
\* and no window the search uses is empty: held-out data stays held out.
WindowsPartitionBars ==
  esPc \notin {"probe", "failed"} =>
    LET p == Prepared(esBars)
    IN /\ p["train"] \union p["valid"] \union p["test"] = esBars
       /\ \A j, k \in {"train", "valid", "test"} : j # k => p[j] \intersect p[k] = {}
       /\ \A k \in {"train", "valid", "test"} : p[k] # {}

\* A group never spends more backtests than -budget, the validation runs and
\* the held-out test included.
BudgetKept == esCount + Reserved <= esBudget

\* Every gene decodes to an ordered pair inside its bounds, the re-encoded
\* champion too, so no candidate is refused by the strategy's validation.
DecodedInBounds ==
  \A i \in DOMAIN esGenes :
    esPc # "done" =>
      LET p == Decode(Space, esGenes[i])
      IN /\ p.min <= p.max
         /\ Space.tunesMin => Space.minLo <= p.min /\ p.min <= Space.minHi
         /\ Space.tunesMax => p.max <= Space.maxHi

\* "global champion is never lost": the next population holds its parameters.
ChampionKept == [][Breed => Decode(Space, esGenes'[1]) = esGlobal]_esVars

\* The same for the spaces that tune one of the two DTE bounds.
ChampionKeptOneBound ==
  [][Breed /\ ~(Space.tunesMin /\ Space.tunesMax) => Decode(Space, esGenes'[1]) = esGlobal]_esVars

\* "the current best group is not killed by mistake": a pruned search is
\* behind the best one.
LeaderNotPruned == [][Validate /\ esStop' = "pruned" => esHistory < esGlobalBest']_esVars

\* The same once the best reward is not negative.
GainingLeaderNotPruned ==
  [][Validate /\ esStop' = "pruned" /\ esGlobalBest >= 0 => esHistory < esGlobalBest']_esVars

\* A search plays by its rules: held-out bars, the budget, legal candidates, and
\* neither the champion nor a gaining leader is dropped.
SearchIsFair ==
  /\ [](EsTypeOK /\ WindowsPartitionBars /\ BudgetKept /\ DecodedInBounds)
  /\ ChampionKeptOneBound
  /\ GainingLeaderNotPruned
=============================================================================
