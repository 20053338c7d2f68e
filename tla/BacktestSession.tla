--------------------------- MODULE BacktestSession ---------------------------
(***************************************************************************)
(* A replay of the wheel strategy over bars: Session.Process of            *)
(* internal/backtest/session.go with the adapter WheelStrategy.OnBar of    *)
(* internal/strategy/strategy.go, the settlement of its orders and the     *)
(* mechanical expiry of the legs it opened.                                *)
(*                                                                         *)
(* A bar is one step: the adapter decides on the latest quote batch and    *)
(* the runner settles at the close.  The legs that expire at the bar are   *)
(* then settled one by one in the order of their codes before the next     *)
(* bar.  A settlement that the runner refuses ends the replay.  What the   *)
(* draw of attemptDraw decides, within failFloor and failCap, is a choice. *)
(***************************************************************************)
EXTENDS WheelDecision

CONSTANTS
  Configs,       \* the wheel configurations to replay with
  InitialCash,
  Prices,        \* closes of the underlying
  Batches,       \* quote batches: price, ivRankOK, quotes
  NoBatch,       \* no batch at or before the bar
  OptionFee,     \* FeeModel.OptionPerContract
  StockFee,      \* FeeModel.StockPerLot
  FeeLot,        \* FeeModel.LotSize
  MaxTrade,      \* bound on the shares of one stock order
  MaxBars        \* bars of the replay

ASSUME SessionAssumption ==
  /\ \A k \in Configs : k.maxInventory \in Nat /\ k.profitTakePct \in Nat   \* Validate
  /\ InitialCash \in Nat \ {0}
  /\ Prices \subseteq Nat \ {0}
  /\ NoBatch \notin Batches
  /\ \A b \in Batches : \A c \in Code \cap DOMAIN b.quotes :
       /\ b.quotes[c].bid \in Nat /\ b.quotes[c].ask \in Nat /\ b.quotes[c].delta \in Int
       /\ b.quotes[c].bid <= b.quotes[c].ask   \* the store refuses an inverted quote
  /\ OptionFee \in Nat /\ StockFee \in Nat /\ FeeLot \in Nat \ {0}
  /\ MaxTrade \in Nat /\ MaxBars \in Nat

VARIABLES
  pc,                \* "bar", "expire" while legs of the bar expire, "failed"
  cfg,               \* WheelStrategy.Config
  now, price,        \* the bar and State.Price
  cash, position,    \* State.Cash, State.Position
  basis,             \* State.StockAverageCost times the position
  legs,              \* State.Options
  fillCount,         \* State.FillCount
  seenFillCount, prevBarClose, lastFillPrice,       \* of the adapter
  premiumIncome, optionCloseCost, stockRealizedPnL, \* the attribution ledger
  fees,              \* total of the fee-bearing trades
  stockTraded,       \* whether a stock order has been filled (history)
  fillClose,         \* close of the bar of the latest option sale (history)
  oneSided           \* whether a held leg was ever quoted without a bid (history)

portfolio == <<cash, position, basis, legs>>
adapter == <<seenFillCount, prevBarClose, lastFillPrice>>
ledger == <<premiumIncome, optionCloseCost, stockRealizedPnL, fees>>
history == <<stockTraded, fillClose>>
vars == <<pc, cfg, now, price, portfolio, fillCount, adapter, ledger, history, oneSided>>

\* mark is the leg's entry of State.OptPrice.
NoLeg == [n |-> 0, credit |-> 0, delta |-> 0, mark |-> 0]

TypeOK ==
  /\ pc \in {"bar", "expire", "failed"}
  /\ cfg \in Configs
  /\ now \in 0 .. MaxBars /\ price \in Nat
  /\ cash \in Int /\ position \in Int /\ basis \in Int
  /\ legs \in [Code -> [n : Nat, credit : Nat, delta : Int, mark : Nat]]
  /\ fillCount \in Nat /\ seenFillCount \in Nat
  /\ prevBarClose \in Nat /\ lastFillPrice \in Nat
  /\ premiumIncome \in Nat /\ optionCloseCost \in Nat
  /\ stockRealizedPnL \in Int /\ fees \in Nat
  /\ stockTraded \in BOOLEAN /\ fillClose \in Nat /\ oneSided \in BOOLEAN

Init ==
  /\ pc = "bar" /\ cfg \in Configs
  /\ now = 0 /\ price = 0
  /\ cash = InitialCash /\ position = 0 /\ basis = 0
  /\ legs = [c \in Code |-> NoLeg]
  /\ fillCount = 0 /\ seenFillCount = 0 /\ prevBarClose = 0 /\ lastFillPrice = 0
  /\ premiumIncome = 0 /\ optionCloseCost = 0 /\ stockRealizedPnL = 0 /\ fees = 0
  /\ stockTraded = FALSE /\ fillClose = 0 /\ oneSided = FALSE

-----------------------------------------------------------------------------
\* Mutant: the lots take the sign of the shares that are delivered.
SignedLotsFee(size) == ((FeeLot - 1 - size) \div FeeLot) * StockFee

\* FeeModel.fee for stock and deliveries: a started lot costs a whole one.
StockLotsFee(size) == ((size + FeeLot - 1) \div FeeLot) * StockFee

\* Mutant: the rounded average, for the last shares too.
RoundedBasis(held, cost, size) == (cost \div held) * size

\* The part of the basis that leaves with sold shares; the rest keeps its
\* average (rounded down here).
SoldBasis(held, cost, size) == IF size = held THEN cost ELSE (cost * size) \div held

\* Legs that the bar settles.
Due(ls, t) == {c \in Code : ls[c].n > 0 /\ Expiry[c] <= t}
AfterBar(ls, t) == IF Due(ls, t) = {} THEN "bar" ELSE "expire"

\* What OnBar does first at every bar, with or without a batch: a fill counted
\* since the last bar happened at that bar's close.
LastFill == IF fillCount > seenFillCount THEN prevBarClose ELSE lastFillPrice
\* Mutant: prevBarClose is assigned first.
ObserveLate(close) ==
  /\ seenFillCount' = fillCount
  /\ lastFillPrice' = IF fillCount > seenFillCount THEN close ELSE lastFillPrice
  /\ prevBarClose' = close
ObserveFill(close) ==
  /\ seenFillCount' = fillCount
  /\ lastFillPrice' = LastFill
  /\ prevBarClose' = close

\* markOptions: a held leg's mark is its latest bid, which a batch may lack.
NewBid(ls, b, c) == ls[c].n > 0 /\ c \in DOMAIN b.quotes /\ b.quotes[c].bid > 0
Marked(ls, b) ==
  [c \in Code |-> IF NewBid(ls, b, c) THEN [ls[c] EXCEPT !.mark = b.quotes[c].bid]
                  ELSE ls[c]]

\* DecisionInput.  The adapter reads the underlying's price from the batch.
Input(b) ==
  [price |-> b.price, asOf |-> now + 1, shares |-> position, basis |-> basis,
   legs |-> legs, cash |-> cash, lastFill |-> LastFill,
   quotes |-> b.quotes, ivRankOK |-> b.ivRankOK]

-----------------------------------------------------------------------------
(* What a bar with the given close books; held are the legs, marked.       *)

\* Nothing is booked, and the replay goes on or, when settleAction refuses the
\* order, Process returns its error.
NoTrade(held, next) ==
  /\ legs' = held /\ pc' = next
  /\ UNCHANGED <<cash, position, basis, fillCount, ledger, history>>
Skip(held) == NoTrade(held, AfterBar(held, now + 1))
Refuse(held) == NoTrade(held, "failed")

BuyStock(held, size, close) ==
  IF size * close > cash THEN Refuse(held)
  ELSE /\ cash' = cash - size * close - StockLotsFee(size)
       /\ position' = position + size
       /\ basis' = basis + size * close
       /\ fees' = fees + StockLotsFee(size)
       /\ stockTraded' = TRUE
       /\ legs' = held /\ pc' = AfterBar(held, now + 1)
       /\ UNCHANGED <<fillCount, premiumIncome, optionCloseCost, stockRealizedPnL,
                      fillClose>>

\* The adapter sells no more than is held and not below cost at the close.
SellStock(held, wanted, close) ==
  LET size == IF wanted > position THEN position ELSE wanted
      sold == SoldBasis(position, basis, size)
  IN  IF size = 0 \/ close * position < basis THEN Skip(held)
      ELSE /\ cash' = cash + size * close - StockLotsFee(size)
           /\ position' = position - size
           /\ basis' = basis - sold
           /\ stockRealizedPnL' = stockRealizedPnL + size * close - sold
           /\ fees' = fees + StockLotsFee(size)
           /\ stockTraded' = TRUE
           /\ legs' = held /\ pc' = AfterBar(held, now + 1)
           /\ UNCHANGED <<fillCount, premiumIncome, optionCloseCost, fillClose>>

\* The whole leg is bought back at its mark, if the mark alone can be paid.  The
\* runner adds the fee and refuses what the account cannot pay with it.
CloseLeg(held, c) ==
  LET cost == held[c].n * held[c].mark * Lot
      fee == held[c].n * OptionFee
      rest == [held EXCEPT ![c] = NoLeg]
  IN  IF cost > cash THEN Skip(held)
      ELSE IF cost + fee > cash THEN Refuse(held)
      ELSE /\ legs' = rest
           /\ cash' = cash - cost - fee
           /\ optionCloseCost' = optionCloseCost + cost
           /\ fees' = fees + fee
           /\ pc' = AfterBar(rest, now + 1)
           /\ UNCHANGED <<position, basis, fillCount, premiumIncome,
                          stockRealizedPnL, history>>

\* One contract is sold at the bid, if the attempt is filled.  A put must leave
\* the strikes of all open puts in cash, its premium and fee included.
SellOption(held, c, q, close) ==
  LET opened == [held EXCEPT ![c] = [n |-> held[c].n + 1,
                                     credit |-> held[c].credit + q.bid,
                                     delta |-> q.delta, mark |-> q.bid]]
      net == q.bid * Lot - OptionFee
  IN  IF Kind[c] = "put" /\ cash + net < PutAssignmentCash(held) + Lot * Strike[c]
      THEN Refuse(held)
      ELSE \/ Skip(held)
           \/ /\ legs' = opened
              /\ cash' = cash + net
              /\ fillCount' = fillCount + 1
              /\ premiumIncome' = premiumIncome + q.bid * Lot
              /\ fees' = fees + OptionFee
              /\ fillClose' = close
              /\ pc' = AfterBar(opened, now + 1)
              /\ UNCHANGED <<position, basis, optionCloseCost, stockRealizedPnL,
                             stockTraded>>

Settle(held, sig, b, close) ==
  \/ sig.act = "hold" /\ Skip(held)
  \/ \E size \in 1 .. MaxTrade :
       \/ sig = StockSuggestion("buy", size) /\ BuyStock(held, size, close)
       \/ sig = StockSuggestion("sell", size) /\ SellStock(held, size, close)
  \/ \E c \in Code \cap DOMAIN b.quotes :
       \/ sig = CloseAlert(c) /\ CloseLeg(held, c)
       \/ sig = Alert(c) /\ SellOption(held, c, b.quotes[c], close)

\* A bar of the replay.  Its batch is the last one observed by then, and saw the
\* price of its own time.
Bar(close, b) ==
  /\ pc = "bar" /\ now < MaxBars
  /\ now' = now + 1 /\ price' = close
  /\ ObserveFill(close)
  /\ \/ b = NoBatch /\ Skip(legs) /\ UNCHANGED oneSided
     \/ /\ b # NoBatch
        /\ Settle(Marked(legs, b), Evaluate(cfg, Input(b)), b, close)
        /\ oneSided' = (oneSided \/ \E c \in Code \cap DOMAIN b.quotes :
                                       legs[c].n > 0 /\ b.quotes[c].bid = 0)
  /\ UNCHANGED cfg

-----------------------------------------------------------------------------
(* settleExpired, one leg at a time.                                       *)

\* An assigned call delivers its shares at the strike; shares that are missing
\* are bought in at the market first and enter the basis.
DeliverCall(c) ==
  LET size == legs[c].n * Lot
      gap == IF size > position THEN size - position ELSE 0
      cost == basis + gap * price
      sold == SoldBasis(position + gap, cost, size)
      fee == StockLotsFee(gap) + StockLotsFee(size)
  IN  /\ cash' = cash - gap * price + size * Strike[c] - fee
      /\ position' = position + gap - size
      /\ basis' = cost - sold
      /\ stockRealizedPnL' = stockRealizedPnL + size * Strike[c] - sold
      /\ fees' = fees + fee

\* Mutant: the delivery fee is booked and not paid.
ReceiveFree(c) ==
  LET size == legs[c].n * Lot
  IN  /\ cash' = cash - size * Strike[c]
      /\ position' = position + size
      /\ basis' = basis + size * Strike[c]
      /\ fees' = fees + StockLotsFee(size)
      /\ UNCHANGED stockRealizedPnL

\* An assigned put takes its shares in at the strike.
ReceivePut(c) ==
  LET size == legs[c].n * Lot
  IN  /\ cash' = cash - size * Strike[c] - StockLotsFee(size)
      /\ position' = position + size
      /\ basis' = basis + size * Strike[c]
      /\ fees' = fees + StockLotsFee(size)
      /\ UNCHANGED stockRealizedPnL

InTheMoney(c) == IF Kind[c] = "call" THEN price > Strike[c] ELSE price < Strike[c]

Expire ==
  /\ pc = "expire"
  /\ \E c \in Due(legs, now) :
       LET rest == [legs EXCEPT ![c] = NoLeg]
       IN  /\ \A d \in Due(legs, now) : c <= d
           /\ \/ InTheMoney(c) /\ Kind[c] = "call" /\ DeliverCall(c)
              \/ InTheMoney(c) /\ Kind[c] = "put" /\ ReceivePut(c)
              \/ ~InTheMoney(c) /\ UNCHANGED <<cash, position, basis, stockRealizedPnL, fees>>
           /\ legs' = rest
           /\ pc' = AfterBar(rest, now)
  /\ UNCHANGED <<cfg, now, price, fillCount, adapter, premiumIncome, optionCloseCost,
                 history, oneSided>>

\* The replay is over: its last bar is settled, or it was aborted.
Finished ==
  /\ pc = "failed" \/ (pc = "bar" /\ now = MaxBars)
  /\ UNCHANGED vars

Next ==
  \/ \E close \in Prices, b \in Batches \cup {NoBatch} : Bar(close, b)
  \/ Expire
  \/ Finished

Spec == Init /\ [][Next]_vars

-----------------------------------------------------------------------------
\* The report's attribution adds up: what the account holds in cash and in stock
\* at cost is the initial cash plus the realized profit and loss of
\* attributionOf, after any sequence of sales, buybacks, stock orders,
\* assignments and buy-ins, with or without fees.
BooksBalance ==
  cash + basis =
    InitialCash + premiumIncome - optionCloseCost + stockRealizedPnL - fees

\* The account is never short of stock, and a basis is known exactly when shares
\* are held, so that the loss protection of calls and of stock sales never
\* meets shares without a cost: a delivery that the position does not cover is
\* bought in, and a switch sells what is there.
BasisFollowsShares ==
  /\ position >= 0 /\ basis >= 0
  /\ position > 0 <=> basis > 0

\* The price against which the next bar measures its move is the close of the
\* bar at which an option was last sold, although the adapter learns of the fill
\* one bar later, from a counter, and whether or not bars between had a batch.
FillPriceIsLatest == LastFill = fillClose

\* The account, its basis and its latest fill, as every booking leaves them.
BooksAreSound ==
  /\ TypeOK
  /\ BooksBalance
  /\ BasisFollowsShares
  /\ FillPriceIsLatest

\* Until a stock order is filled, every call is covered by shares and the
\* assignment of every put keeps the position within max_inventory, although
\* Evaluate looks at one contract of one direction at a time.
SharesCommitted ==
  ~stockTraded =>
    /\ CoveredShares(legs) <= position
    /\ position + PutAssignmentShares(legs) <= cfg.maxInventory

\* Until a stock order is filled, the account can take in the shares of every
\* open put, but for what it spent on fees and on buying legs back, which
\* settleOptionTrade does not hold against the reserve.
PutsSecured ==
  ~stockTraded =>
    cash + fees + optionCloseCost >=
      SumOver([c \in Code |-> IF Kind[c] = "put" THEN legs[c].n * Lot * Strike[c] ELSE 0],
              Code)

\* What is sold short is covered: calls by shares, puts by room and by cash.
LegsAreCovered == SharesCommitted /\ PutsSecured

\* A buyback keeps at least the share profit_take_pct of the credit that was
\* received, fees aside, as long as no held leg has been quoted without a bid: the
\* adapter decides on the ask and settles at the mark.
BuybackKeepsProfit ==
  [][\A c \in Code :
       legs[c].n > 0 /\ legs'[c].n = 0 /\ optionCloseCost' > optionCloseCost /\ ~oneSided' =>
         (legs[c].credit * Lot - (optionCloseCost' - optionCloseCost)) * 100
           >= cfg.profitTakePct * legs[c].credit * Lot]_vars
=============================================================================
