---------------------------- MODULE WheelDecision ----------------------------
(***************************************************************************)
(* The pure decision of the wheel strategy, Evaluate of                    *)
(* internal/wheel/wheel.go, as the backtest adapter calls it: cash is      *)
(* known, there are no futures and no resting orders (Pending is nil).     *)
(*                                                                         *)
(* Quantities are integers: money and prices in cents of a share, deltas   *)
(* in shares per contract, percentages in percent, time in bars.  A leg is *)
(* short (buys only ever close one): n contracts, for which credit was     *)
(* received per share and contract; its AvgPremium is credit / n.  The     *)
(* stock basis is StockAverageCost times the shares.                       *)
(***************************************************************************)
EXTENDS Integers, FiniteSetsExt

CONSTANTS
  Code,     \* contract codes, numbered in the order of their names
  Kind,     \* "put" or "call" for each contract
  Strike,   \* its strike
  Expiry,   \* the bar at which it expires
  Lot       \* shares per contract

ASSUME ContractsAssumption ==
  /\ Code \subseteq Nat /\ IsFiniteSet(Code)
  /\ Kind \in [Code -> {"put", "call"}]
  /\ Strike \in [Code -> Nat \ {0}]
  /\ Expiry \in [Code -> Nat]
  /\ Lot \in Nat \ {0}

Abs(x) == IF x < 0 THEN -x ELSE x

\* The signals: hold, a buy-to-close of a held leg, a stock suggestion and a
\* sell-to-open alert.
Hold == [act |-> "hold", code |-> 0, shares |-> 0]
CloseAlert(c) == [act |-> "close", code |-> c, shares |-> 0]
StockSuggestion(side, shares) == [act |-> side, code |-> 0, shares |-> shares]
Alert(c) == [act |-> "alert", code |-> c, shares |-> 0]

-----------------------------------------------------------------------------
\* The position curve between the two price anchors: full below one, empty above
\* the other (rounded down here).
TargetInventory(cfg, p) ==
  CASE p <= cfg.fullPositionPrice -> cfg.maxInventory
    [] p >= cfg.zeroPositionPrice -> 0
    [] OTHER -> (cfg.maxInventory * (cfg.zeroPositionPrice - p))
                  \div (cfg.zeroPositionPrice - cfg.fullPositionPrice)

Short(legs, kind) == {c \in Code : legs[c].n > 0 /\ Kind[c] = kind}

SumOver(F, cs) == MapThenSumSet(LAMBDA c : F[c], cs)

\* Shares and cash that the open short legs may call for.
LegShares(legs) == [c \in Code |-> legs[c].n * Lot]
LegCash(legs) == [c \in Code |-> legs[c].n * Lot * Strike[c]]
CoveredShares(legs) == SumOver(LegShares(legs), Short(legs, "call"))
PutAssignmentShares(legs) == SumOver(LegShares(legs), Short(legs, "put"))
\* Mutant: signed contracts are tested the wrong way round, and none is short.
NoPutCash(legs) ==
  SumOver(LegCash(legs), {c \in Short(legs, "put") : -legs[c].n > 0})
PutAssignmentCash(legs) == SumOver(LegCash(legs), Short(legs, "put"))

\* A short leg counts with the opposite of its delta.
OptionDeltaStock(legs) == SumOver([c \in Code |-> -(legs[c].n * legs[c].delta)], Code)
EffectiveInventory(in) == in.shares + OptionDeltaStock(in.legs)
InventoryGap(cfg, in) == TargetInventory(cfg, in.price) - EffectiveInventory(in)

-----------------------------------------------------------------------------
\* Mutant: the ask of one contract is held against the credit of all.
OneContractProfit(cfg, in, c) ==
  /\ in.quotes[c].ask < in.legs[c].credit
  /\ Expiry[c] > in.asOf
  /\ (in.legs[c].credit - in.quotes[c].ask) * 100 >= cfg.profitTakePct * in.legs[c].credit

\* The share of a leg's credit that buying it back at the ask would keep has
\* reached profit_take_pct.  A leg that expires at this bar is left to expiry.
ProfitReached(cfg, in, c) ==
  LET leg == in.legs[c]  cost == leg.n * in.quotes[c].ask
  IN  /\ cost < leg.credit
      /\ Expiry[c] > in.asOf
      /\ (leg.credit - cost) * 100 >= cfg.profitTakePct * leg.credit

\* takeProfitSignal: the leg with the largest share wins, ties by name.
TakeProfit(cfg, in) ==
  LET ready == {c \in Code \cap DOMAIN in.quotes :
                  cfg.profitTakePct > 0 /\ in.legs[c].n > 0 /\ ProfitReached(cfg, in, c)}
      cost(c) == in.legs[c].n * in.quotes[c].ask
      ahead(c, d) == LET x == cost(c) * in.legs[d].credit
                         y == cost(d) * in.legs[c].credit
                     IN  x < y \/ (x = y /\ c <= d)
  IN  {c \in ready : \A d \in ready : ahead(c, d)}

-----------------------------------------------------------------------------
\* How far the price has moved since the last fill, against a threshold in
\* percent; without a fill, or with threshold 0, neither gate is on.
Moved(in, pct) == Abs(in.price - in.lastFill) * 100 >= pct * in.lastFill
MoveTooSmall(cfg, in) ==
  in.lastFill > 0 /\ cfg.moveIntervalPct > 0 /\ ~Moved(in, cfg.moveIntervalPct)
SwitchReached(cfg, in) ==
  in.lastFill > 0 /\ cfg.stockSwitchPct > 0 /\ Moved(in, cfg.stockSwitchPct)

\* Stock is not sold below its average cost, nor when the cost is unknown.
SaleProtected(in) == in.shares > 0 => in.basis > 0 /\ in.price * in.shares >= in.basis

Switch(cfg, in) ==
  LET gap == InventoryGap(cfg, in)
  IN  IF gap > 0 THEN StockSuggestion("buy", gap)
      ELSE IF SaleProtected(in) THEN StockSuggestion("sell", -gap)
      ELSE Hold

-----------------------------------------------------------------------------
\* OptionQuote.validate: usable stands for the presence, sanity and freshness
\* of the quote's fields.
ValidateQuote(cfg, in, c) ==
  /\ in.quotes[c].usable
  /\ Expiry[c] > in.asOf
  /\ Expiry[c] - in.asOf \in cfg.minDTE .. cfg.maxDTE

\* The masks of one candidate, before the trade's consequences are looked at.
Eligible(cfg, in, kind, c) ==
  LET q == in.quotes[c]
  IN  /\ ValidateQuote(cfg, in, c)
      /\ Kind[c] = kind
      /\ kind = "put" =>
           /\ Strike[c] < in.price
           /\ cfg.putDeltaMax > 0 => Abs(q.delta) * 100 <= cfg.putDeltaMax * Lot
      /\ kind = "call" =>
           /\ Strike[c] > in.price
           /\ in.shares > 0 => in.basis > 0
           /\ Strike[c] * 100 >= in.price * (100 + cfg.coveredCallPct)
           /\ Strike[c] * in.shares >= in.basis
           /\ cfg.callDeltaMax > 0 => q.delta * 100 <= cfg.callDeltaMax * Lot
      /\ q.quality >= cfg.minOptionQuality
      /\ q.bid >= cfg.minPremiumPerShare
      /\ q.bid * Lot >= cfg.minOptionProfit

PostTradeEffective(in, c) == EffectiveInventory(in) - in.quotes[c].delta

\* Mutant: the put's own shares only, not those of the open puts.
OwnPutOnly(cfg, in, kind, c) ==
  /\ kind = "put" =>
       /\ in.shares + Lot <= cfg.maxInventory
       /\ in.cash >= PutAssignmentCash(in.legs) + Strike[c] * Lot
  /\ kind = "call" => in.shares - CoveredShares(in.legs) - Lot >= 0
  /\ Abs(TargetInventory(cfg, in.price) - PostTradeEffective(in, c))
       <= Abs(InventoryGap(cfg, in))

\* What the trade may lead to: the inventory stays under its maximum when every
\* put is assigned, every call stays covered, every put stays paid for, and the
\* effective inventory does not move away from its target.
Affordable(cfg, in, kind, c) ==
  /\ kind = "put" =>
       /\ in.shares + PutAssignmentShares(in.legs) + Lot <= cfg.maxInventory
       /\ in.cash >= PutAssignmentCash(in.legs) + Strike[c] * Lot
  /\ kind = "call" => in.shares - CoveredShares(in.legs) - Lot >= 0
  /\ Abs(TargetInventory(cfg, in.price) - PostTradeEffective(in, c))
       <= Abs(InventoryGap(cfg, in))

\* betterCandidate: the criteria in their order, the smaller the better.
Rank(cfg, in, kind, c) ==
  LET q == in.quotes[c]
  IN  << Abs(TargetInventory(cfg, in.price) - PostTradeEffective(in, c)),
         IF cfg.strategicState = "CAUTION" /\ kind = "put" THEN Strike[c] ELSE 0,
         -q.quality,
         (2000 * (q.ask - q.bid)) \div (q.ask + q.bid),
         Expiry[c], Strike[c], c >>
Precedes(x, y) ==
  \E i \in DOMAIN x : x[i] < y[i] /\ \A j \in 1 .. (i - 1) : x[j] = y[j]

Accepted(cfg, in, kind) ==
  {c \in Code \cap DOMAIN in.quotes :
     Eligible(cfg, in, kind, c) /\ Affordable(cfg, in, kind, c)}

Chosen(cfg, in, kind) ==
  LET accepted == Accepted(cfg, in, kind)
  IN  {c \in accepted : \A d \in accepted \ {c} :
         Precedes(Rank(cfg, in, kind, c), Rank(cfg, in, kind, d))}

\* The direction of the gap, unless the strategic state bars new puts or the
\* IV rank is below min_iv_rank or unknown.
Direction(cfg, in) == IF InventoryGap(cfg, in) < 0 THEN "call" ELSE "put"
EntryAllowed(cfg, in) ==
  /\ cfg.strategicState \in {"PAUSE_BUY", "EXIT"} => Direction(cfg, in) = "call"
  /\ cfg.minIVRank => in.ivRankOK

\* Evaluate: profit taking comes before every entry gate, then the no-trade
\* band, the move interval, the stock switch, and last the candidates.
Evaluate(cfg, in) ==
  LET closing == TakeProfit(cfg, in)
      chosen == Chosen(cfg, in, Direction(cfg, in))
  IN  IF closing # {} THEN CloseAlert(CHOOSE c \in closing : TRUE)
      ELSE IF Abs(InventoryGap(cfg, in)) <= cfg.tradeGap \/ MoveTooSmall(cfg, in) THEN Hold
      ELSE IF SwitchReached(cfg, in) THEN Switch(cfg, in)
      ELSE IF EntryAllowed(cfg, in) /\ chosen # {} THEN Alert(CHOOSE c \in chosen : TRUE)
      ELSE Hold
=============================================================================
