------------------------------- MODULE LivePass -------------------------------
(***************************************************************************)
(* The market data of one live evaluation (runSymbol): which broker        *)
(* positions belong to the symbol (internal/wheelrun/positions.go), which  *)
(* contracts are quoted (quote_collection.go, atm_expansion.go), and the   *)
(* quotes themselves with the cache of greeks that all passes share        *)
(* (internal/futu/option_quote.go).                                        *)
(*                                                                         *)
(* A contract is its bare code; its quote is kept as the times it rests    *)
(* on.  One unit of time is one turn of the snapshot limiter.              *)
(***************************************************************************)
EXTENDS Integers, SequencesExt

CONSTANTS
    Underlying,  \* the symbols with a wheel binding
    Chain,       \* underlying -> set of contracts inside its DTE window
    ContractOf,    \* contract -> [letters, kind, strike, delta], delta in shares
    Position,    \* positions the broker may report: records, see LivePassAssumption
    CodeOrder,   \* contract -> its place in the order legs are asked in
    Letters,     \* underlying -> the letters of its option codes
    SpotPrice,   \* underlying -> its price
    Target,      \* underlying -> target inventory at that price
    TradeGap,    \* trade_gap
    Radius,      \* maxATMExpansionRadius
    MinQuality,  \* minQualityCandidates
    CallPct,     \* covered_call_pct, in percent
    Good,        \* contracts whose quality score reaches min_option_quality
    GreeksTTL,   \* greeksTTL
    MaxAge,      \* max_quote_age_seconds
    MaxTime,     \* bound on the clock
    MaxPasses    \* bound on the passes

\* Two chains never share a code or its letters.
ASSUME LivePassAssumption ==
    /\ GreeksTTL \in Nat /\ Radius \in Nat /\ MinQuality \in Nat /\ CallPct \in 0 .. 100
    /\ MaxTime \in Nat /\ MaxPasses \in Nat
    /\ IsFiniteSet(DOMAIN ContractOf)
    /\ \A c \in DOMAIN ContractOf : ContractOf[c].strike \in Nat
    /\ \A u \in Underlying : SpotPrice[u] \in Nat /\ Chain[u] \subseteq DOMAIN ContractOf
    /\ \A u \in Underlying : \A c \in Chain[u] : ContractOf[c].letters = Letters[u]
    /\ \A u, v \in Underlying : u # v => Letters[u] # Letters[v]
    /\ \A p \in Position :
          /\ p.form \in {"stock", "option", "unsupported"}
          /\ p.form = "option" => p.code \in DOMAIN ContractOf
          /\ p.form = "stock" => p.code \in Underlying
          /\ p.side \in {"long", "short", "unknown"} /\ p.qty \in Int /\ p.cost \in Nat

VARIABLES
    lpPc,       \* control point of the pass
    lpSym,      \* the symbol it evaluates
    held,       \* the positions the broker reported
    level,      \* levels of the expansion asked so far
    selected,   \* contracts selected so far
    toFetch,    \* contracts of the page that still need an option-quote
    answered,   \* contracts the snapshot answered in this pass
    optQuotes,  \* contract -> [at, greeks]: times of the snapshot and of the greeks, -1 none
    greeks,     \* contract -> the time of its cached option-quote, -1 none
    lpNow,      \* the clock
    lpBegan,    \* when the pass began
    passes      \* passes so far

lpVars == <<lpPc, lpSym, held, level, selected, toFetch, answered, optQuotes, greeks,
            lpNow, lpBegan, passes>>

Codes == DOMAIN ContractOf
NoQuote == [at |-> -1, greeks |-> -1]

LpTypeOK ==
    /\ lpPc \in {"idle", "level", "fetch", "held", "heldFetch", "evaluate"}
    /\ lpSym \in Underlying /\ held \subseteq Position
    /\ level \in 0 .. 2 * Radius + 1
    /\ selected \subseteq Codes /\ toFetch \subseteq Codes /\ answered \subseteq Codes
    /\ greeks \in [Codes -> -1 .. MaxTime]
    /\ lpNow \in 0 .. MaxTime /\ passes \in 0 .. MaxPasses

LpInit ==
    /\ lpPc = "idle" /\ lpSym \in Underlying /\ held = {} /\ level = 0
    /\ selected = {} /\ toFetch = {} /\ answered = {}
    /\ optQuotes = [c \in Codes |-> NoQuote] /\ greeks = [c \in Codes |-> -1]
    /\ lpNow = 0 /\ lpBegan = 0 /\ passes = 0

-----------------------------------------------------------------------------
(* Positions *)

\* signedQty: an unknown side or a negative quantity is an error.
SignedOK(p) == p.qty >= 0 /\ p.side # "unknown"
SignedQty(p) == IF p.side = "long" THEN p.qty ELSE -p.qty

\* filterPositions: the symbol's own stock and the options of its chain; other
\* options are left over.
FilterPositions(u, ps) ==
    [matched    |-> {p \in ps : \/ p.form = "option" /\ p.code \in Chain[u]
                                \/ p.form = "stock" /\ p.code = u},
     unassigned |-> {p \in ps : \/ p.form = "option" /\ p.code \notin Chain[u]
                                \/ p.form = "unsupported"}]

\* Mutant: every short leg that is left over is a candidate for closing.
ClosePositionLegsOfAll(u, ps) ==
    {p \in FilterPositions(u, ps).unassigned :
        p.form = "option" /\ Chain[u] # {} /\ SignedOK(p) /\ SignedQty(p) < 0}

\* closePositionLegs: short legs outside the window whose letters are the chain's
\* (chainUnderlyingLetters); without a chain there are no letters, and none.
ClosePositionLegs(u, ps) ==
    {p \in FilterPositions(u, ps).unassigned :
        /\ p.form = "option" /\ Chain[u] # {} /\ ContractOf[p.code].letters = Letters[u]
        /\ SignedOK(p) /\ SignedQty(p) < 0}

\* PositionsInput: shares and option legs of the inventory, or an error.
PositionsInput(ps) ==
    [ok     |-> \A p \in ps : SignedOK(p),
     shares |-> MapThenSumSet(SignedQty, {p \in ps : p.form = "stock"}),
     opts   |-> {p \in ps : p.form = "option"}]

\* StockAverageCost, kept as amount and shares of the long positions with a cost.
StockBasis(ps) ==
    LET long == {p \in ps : p.form = "stock" /\ p.side = "long" /\ p.qty > 0 /\ p.cost > 0}
    IN  [shares |-> MapThenSumSet(LAMBDA p : p.qty, long),
         amount |-> MapThenSumSet(LAMBDA p : p.qty * p.cost, long)]

Mine(u, ps) == FilterPositions(u, ps).matched
Input == PositionsInput(Mine(lpSym, held))

\* The direction of a gap, if it is outside the band.
DirectionOf(gap) == IF gap < -TradeGap THEN "call" ELSE IF gap > TradeGap THEN "put" ELSE "none"

\* desiredOptionType: the legs have no delta yet.
DesiredOptionType == DirectionOf(Target[lpSym] - Input.shares)

\* Evaluate, once the deltas of the legs are filled in from their quotes.
EvaluatedDirection ==
    LET quoted == {p \in Input.opts : optQuotes[p.code].greeks # -1}
    IN  DirectionOf(Target[lpSym] - Input.shares
                    - MapThenSumSet(LAMBDA p : SignedQty(p) * ContractOf[p.code].delta, quoted))

-----------------------------------------------------------------------------
(* The expansion from the money *)

AbsDiff(a, b) == IF a >= b THEN a - b ELSE b - a

\* Numbers in ascending order: the i-th is the one that has i of them up to itself.
Ascending(S) ==
    [i \in 1 .. Cardinality(S) |-> CHOOSE x \in S : Cardinality({y \in S : y <= x}) = i]

\* strikeLevels, in the order of the strikes.
Strikes(u) == Ascending({ContractOf[c].strike : c \in Chain[u]})
\* The level nearest to the price, the lower one of two.
Center(u) ==
    LET s == Strikes(u)
        d(i) == AbsDiff(s[i], SpotPrice[u])
    IN  CHOOSE i \in DOMAIN s : \A j \in DOMAIN s : d(i) < d(j) \/ (d(i) = d(j) /\ i <= j)

\* Offsets 0, -1, 1, -2, 2, ...
Offset(k) == IF k % 2 = 0 THEN -(k \div 2) ELSE k \div 2

\* Mutant: the expansion ends when either side of the chain does.
AtmLevelsToEdge(u) ==
    LET s == Strikes(u)
        inside(k) == /\ Center(u) - (k \div 2) \in DOMAIN s
                     /\ Center(u) + (k \div 2) \in DOMAIN s
    IN  IF s = <<>> THEN <<>>
        ELSE [i \in 1 .. Cardinality({k \in 1 .. 2 * Radius + 1 : inside(k)}) |->
                s[Center(u) + Offset(i)]]

\* atmExpansionLevels: strikes from the money outwards, up to Radius on each side;
\* a side that has ended is left out.
AtmExpansionLevels(u) ==
    LET s == Strikes(u)
        inside(k) == Center(u) + Offset(k) \in DOMAIN s
        ks == Ascending({k \in 1 .. 2 * Radius + 1 : inside(k)})
    IN  IF s = <<>> THEN <<>> ELSE [i \in DOMAIN ks |-> s[Center(u) + Offset(ks[i])]]

\* The contracts of a level that are asked for: the direction's, once each.
LevelContracts(k) ==
    {c \in Chain[lpSym] : /\ ContractOf[c].strike = AtmExpansionLevels(lpSym)[k]
                          /\ ContractOf[c].kind = DesiredOptionType}

\* Validate, of what the quote's times decide: greeks are there, and the
\* snapshot is fresh and not from the future.
ValidQuote(q) == q.greeks # -1 /\ q.at # -1 /\ q.at <= lpNow /\ lpNow - q.at <= MaxAge

\* qualityCandidateCount: a put below the price, or a call above it that covered_call_pct
\* and the cost of the shares allow.
QualityCandidates ==
    LET basis == StockBasis(Mine(lpSym, held))
    IN  {c \in selected :
            /\ c \in Good /\ ValidQuote(optQuotes[c])
            /\ ContractOf[c].kind = "put" => ContractOf[c].strike < SpotPrice[lpSym]
            /\ ContractOf[c].kind = "call" =>
                 /\ ContractOf[c].strike > SpotPrice[lpSym]
                 /\ ContractOf[c].strike * 100 >= SpotPrice[lpSym] * (100 + CallPct)
                 /\ ContractOf[c].strike * basis.shares >= basis.amount}

-----------------------------------------------------------------------------
(* One pass *)

\* Chain, positions and direction; PositionsInput's error ends the pass, and
\* without a direction no level is asked.
BeginPass(u, ps) ==
    /\ lpPc = "idle" /\ passes < MaxPasses
    /\ passes' = passes + 1 /\ lpBegan' = lpNow
    /\ lpSym' = u /\ held' = ps
    /\ level' = 0 /\ selected' = {} /\ toFetch' = {} /\ answered' = {}
    /\ optQuotes' = [c \in Codes |-> NoQuote]
    /\ lpPc' = IF ~PositionsInput(Mine(u, ps)).ok THEN "idle"
               ELSE IF DesiredOptionType' = "none" THEN "held" ELSE "level"
    /\ UNCHANGED <<greeks, lpNow>>

\* Mutant: an entry never grows too old.
FreshForever(got) == {c \in got : greeks[c] # -1}
\* The contracts whose cached option-quote is reused.
Fresh(got) == {c \in got : greeks[c] # -1 /\ lpNow - greeks[c] <= GreeksTTL}

\* parseQuoteTime: the gateway's own time of the snapshot; -1 stands for one that
\* is malformed (the zero time) or was too old already.
ParseQuoteTime == {-1, lpNow}

\* OptionQuotes, up to the greeks: the snapshot answers some of the symbols (a
\* slice that fails answers none), and a fresh cache entry is applied to those.
OptionQuotes(symbols, next) ==
    \E got \in SUBSET symbols, t \in ParseQuoteTime :
        /\ answered' = answered \cup got
        /\ toFetch' = symbols \ Fresh(got)
        /\ optQuotes' = [c \in Codes |->
              IF c \in Fresh(got) THEN [at |-> t, greeks |-> greeks[c]]
              ELSE IF c \in got THEN [at |-> t, greeks |-> -1] ELSE optQuotes[c]]
        /\ lpPc' = next

\* The next level, or the end of the levels; a subscription that fails ends the pass.
AskLevel ==
    /\ lpPc = "level"
    /\ \/ /\ level = Len(AtmExpansionLevels(lpSym))
          /\ lpPc' = "held" /\ UNCHANGED <<level, selected, toFetch, answered, optQuotes>>
       \/ /\ level < Len(AtmExpansionLevels(lpSym))
          /\ level' = level + 1
          /\ LET symbols == LevelContracts(level + 1)
             IN  /\ selected' = selected \cup symbols
                 /\ \/ symbols = {} /\ UNCHANGED <<lpPc, toFetch, answered, optQuotes>>
                    \/ symbols # {} /\ OptionQuotes(symbols, "fetch")
                    \/ symbols # {} /\ lpPc' = "idle" /\ UNCHANGED <<toFetch, answered, optQuotes>>
    /\ UNCHANGED <<lpSym, held, greeks, lpNow, lpBegan, passes>>

\* fetchOptionQuote of one leg, a turn of the limiter later: the greeks are
\* cached and applied, or the leg stays without.
FetchOptionQuote(c) ==
    /\ lpPc \in {"fetch", "heldFetch"} /\ c \in toFetch /\ lpNow < MaxTime
    /\ \A d \in toFetch : CodeOrder[c] <= CodeOrder[d]
    /\ lpNow' = lpNow + 1
    /\ toFetch' = toFetch \ {c}
    /\ \/ /\ greeks' = [greeks EXCEPT ![c] = lpNow + 1]
          /\ optQuotes' = [optQuotes EXCEPT ![c] =
                [at |-> IF c \in answered THEN @.at ELSE lpNow + 1, greeks |-> lpNow + 1]]
       \/ UNCHANGED <<greeks, optQuotes>>
    /\ UNCHANGED <<lpPc, lpSym, held, level, selected, answered, lpBegan, passes>>

\* The page is complete; after a level, two good candidates end the expansion.
EndPage ==
    /\ toFetch = {}
    /\ \/ /\ lpPc = "fetch"
          /\ lpPc' = IF Cardinality(QualityCandidates) >= MinQuality THEN "held" ELSE "level"
       \/ lpPc = "heldFetch" /\ lpPc' = "evaluate"
    /\ UNCHANGED <<lpSym, held, level, selected, toFetch, answered, optQuotes, greeks,
                   lpNow, lpBegan, passes>>

\* Held legs, in the inventory or to be closed, that no level asked for.
UnquotedLegs ==
    {c \in {p.code : p \in Input.opts \cup ClosePositionLegs(lpSym, held)} :
        optQuotes[c] = NoQuote}

\* They are asked for one by one; a call that fails leaves its leg without a quote.
AskHeld ==
    /\ lpPc = "held"
    /\ \E symbols \in SUBSET UnquotedLegs : OptionQuotes(symbols, "heldFetch")
    /\ UNCHANGED <<lpSym, held, level, selected, greeks, lpNow, lpBegan, passes>>

\* The decision is taken and what the pass collected is dropped.
EndPass ==
    /\ lpPc = "evaluate" /\ lpPc' = "idle"
    /\ level' = 0 /\ selected' = {} /\ answered' = {}
    /\ optQuotes' = [c \in Codes |-> NoQuote]
    /\ UNCHANGED <<lpSym, held, toFetch, greeks, lpNow, lpBegan, passes>>

\* Time passes between passes.
LpTick ==
    /\ lpPc = "idle" /\ lpNow < MaxTime /\ lpNow' = lpNow + 1
    /\ UNCHANGED <<lpPc, lpSym, held, level, selected, toFetch, answered, optQuotes, greeks,
                   lpBegan, passes>>

LpNext ==
    \/ \E u \in Underlying, ps \in SUBSET Position : BeginPass(u, ps)
    \/ AskLevel \/ EndPage \/ AskHeld \/ EndPass \/ LpTick
    \/ \E c \in Codes : FetchOptionQuote(c)

LpSpec == LpInit /\ [][LpNext]_lpVars

-----------------------------------------------------------------------------
(* Properties *)

\* No leg counts for two symbols, none counts in the inventory and as a leg to
\* close, and no well-formed short leg of a symbol with a chain is lost: one
\* outside the window stays closable (filterPositions, closePositionLegs).
AttributionSound ==
    LET closing(u) == ClosePositionLegs(u, held)
        all(u)     == Mine(u, held) \cup closing(u)
    IN  /\ \A u, v \in Underlying : u # v => all(u) \cap all(v) = {}
        /\ \A u \in Underlying : Mine(u, held) \cap closing(u) = {}
        /\ \A p \in held, u \in Underlying :
              /\ p.form = "option" /\ SignedOK(p) /\ SignedQty(p) < 0
              /\ Chain[u] # {} /\ ContractOf[p.code].letters = Letters[u]
              => p \in all(u)

\* The expansion ends with enough candidates, or with every contract of the
\* direction whose strike is at most Radius strikes from the money: a chain
\* that ends early on one side is still searched on the other.
CollectionComplete ==
    lpPc \in {"held", "heldFetch", "evaluate"} /\ DesiredOptionType # "none" =>
        LET u == lpSym
            strikes == {ContractOf[c].strike : c \in Chain[u]}
            away(c) == {s \in strikes : \/ ContractOf[c].strike <= s /\ s < Strikes(u)[Center(u)]
                                        \/ Strikes(u)[Center(u)] < s /\ s <= ContractOf[c].strike}
        IN  \/ lpPc = "held" /\ Cardinality(QualityCandidates) >= MinQuality
            \/ lpPc # "held" /\ \E S \in SUBSET (selected \cap Good) :
                                   Cardinality(S) = MinQuality /\ \A c \in S : optQuotes[c].greeks # -1
            \/ \A c \in Chain[u] : ContractOf[c].kind = DesiredOptionType
                                   /\ Cardinality(away(c)) <= Radius => c \in selected

\* However passes share the cache and fetches take their turns, no decision rests
\* on greeks that were older than greeksTTL when its pass began.
GreeksAgeBounded ==
    lpPc = "evaluate" =>
        \A c \in Codes : optQuotes[c].greeks # -1 => lpBegan - optQuotes[c].greeks <= GreeksTTL

\* The quotes a decision rests on: enough of them around the money, and none with
\* greeks older than allowed.
QuotesAreSound ==
    /\ LpTypeOK
    /\ CollectionComplete
    /\ GreeksAgeBounded

\* desiredOptionType "mirrors only the direction prerequisite already computed by
\* wheel.Evaluate": when Evaluate wants an option, its direction was collected.
DirectionMirrorsEvaluate ==
    lpPc = "evaluate" /\ EvaluatedDirection # "none" => EvaluatedDirection = DesiredOptionType
=============================================================================
