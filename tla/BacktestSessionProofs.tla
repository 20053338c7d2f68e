------------------------ MODULE BacktestSessionProofs ------------------------
(***************************************************************************)
(* Proofs about BacktestSession, for every set of contracts, every         *)
(* configuration, fee model and price history and any number of bars.      *)
(* The books and the fill price are right whatever the adapter decides:    *)
(* those proofs unfold the settlement and never Evaluate.  What a buyback  *)
(* keeps and that the legs are covered rests on the decision, too.         *)
(***************************************************************************)
EXTENDS BacktestSession, FiniteSetTheorems, WellFoundedInduction, TLAPS

-----------------------------------------------------------------------------
(* Arithmetic.                                                             *)

\* A fee of stock lots is a natural number.
LEMMA LotsFeeType ==
  ASSUME NEW size \in Nat
  PROVE  StockLotsFee(size) \in Nat
<1>1. /\ FeeLot \in Nat \ {0} /\ StockFee \in Nat
  BY SessionAssumption
<1>2. (size + FeeLot - 1) \div FeeLot \in Nat
  BY <1>1
<1>3. QED
  BY <1>1, <1>2 DEF StockLotsFee

\* A product of positive numbers is positive.
LEMMA ProductPositive ==
  ASSUME NEW a \in Nat \ {0}, NEW b \in Nat \ {0}
  PROVE  a * b \in Nat \ {0}
OBVIOUS

\* Selling all shares takes the whole basis; selling some takes a part of it and
\* leaves a part.
LEMMA SoldBasisPart ==
  ASSUME NEW held \in Nat, NEW cost \in Nat, NEW size \in Nat \ {0}, size <= held
  PROVE  /\ SoldBasis(held, cost, size) \in Nat
         /\ size = held => SoldBasis(held, cost, size) = cost
         /\ size < held /\ cost > 0 => SoldBasis(held, cost, size) < cost
<1>1. CASE size = held
  BY <1>1 DEF SoldBasis
<1>2. CASE size < held
  <2> DEFINE x == cost * size
             q == x \div held
  <2>1. x \in Nat /\ held \in Nat \ {0}
    BY <1>2
  <2> HIDE DEF x
  <2>2. q \in Nat /\ held * q <= x
    BY <2>1
  <2>3. ASSUME cost > 0 PROVE q < cost
    <3>1. x < cost * held
      BY <1>2, <2>3 DEF x
    <3>2. held * q < held * cost
      BY <2>1, <2>2, <3>1
    <3>3. QED
      BY <2>1, <2>2, <3>2
  <2>4. SoldBasis(held, cost, size) = q
    BY <1>2 DEF SoldBasis, x
  <2>5. QED
    BY <1>2, <2>2, <2>3, <2>4
<1>3. QED
  BY <1>1, <1>2

-----------------------------------------------------------------------------
(* What every booking of a bar or of an expiry keeps.                      *)

Legs == [Code -> [n : Nat, credit : Nat, delta : Int, mark : Nat]]

\* The account after a booking.
Account ==
  /\ pc \in {"bar", "expire", "failed"}
  /\ cash \in Int /\ position \in Int /\ basis \in Int /\ legs \in Legs
  /\ fillCount \in Nat /\ premiumIncome \in Nat /\ optionCloseCost \in Nat
  /\ stockRealizedPnL \in Int /\ fees \in Nat
  /\ stockTraded \in BOOLEAN /\ fillClose \in Nat
  /\ BooksBalance /\ BasisFollowsShares

\* A fill is counted with the close of its bar.
FillBooked(close) ==
  \/ fillCount' = fillCount /\ fillClose' = fillClose
  \/ fillCount' = fillCount + 1 /\ fillClose' = close

LEMMA InvAccount == BooksAreSound => Account /\ price \in Nat /\ now \in Nat
BY SessionAssumption DEF BooksAreSound, TypeOK, Account, Legs

LEMMA AfterBarType ==
  ASSUME NEW ls, NEW t
  PROVE  AfterBar(ls, t) \in {"bar", "expire", "failed"}
BY DEF AfterBar

LEMMA NoLegType ==
  ASSUME NEW held \in Legs, NEW c \in Code
  PROVE  [held EXCEPT ![c] = NoLeg] \in Legs
BY DEF Legs, NoLeg

\* Marking keeps the legs well formed.
LEMMA MarkedType ==
  ASSUME legs \in Legs, NEW b \in Batches
  PROVE  Marked(legs, b) \in Legs
<1> SUFFICES ASSUME NEW c \in Code
             PROVE  (IF NewBid(legs, b, c) THEN [legs[c] EXCEPT !.mark = b.quotes[c].bid]
                     ELSE legs[c]) \in [n : Nat, credit : Nat, delta : Int, mark : Nat]
  BY DEF Marked, Legs
<1>1. legs[c] \in [n : Nat, credit : Nat, delta : Int, mark : Nat]
  BY DEF Legs
<1>2. NewBid(legs, b, c) => b.quotes[c].bid \in Nat
  BY SessionAssumption DEF NewBid
<1>3. QED
  BY <1>1, <1>2

LEMMA NoTradeBooks ==
  ASSUME Account, NEW held \in Legs, NEW close,
         NEW next \in {"bar", "expire", "failed"}, NoTrade(held, next)
  PROVE  Account' /\ FillBooked(close)
BY DEF Account, NoTrade, FillBooked, ledger, history, BooksBalance, BasisFollowsShares

LEMMA SkipBooks ==
  ASSUME Account, NEW held \in Legs, NEW close, Skip(held)
  PROVE  Account' /\ FillBooked(close)
BY NoTradeBooks, AfterBarType DEF Skip

LEMMA RefuseBooks ==
  ASSUME Account, NEW held \in Legs, NEW close, Refuse(held)
  PROVE  Account' /\ FillBooked(close)
BY NoTradeBooks DEF Refuse

LEMMA BuyStockBooks ==
  ASSUME Account, NEW held \in Legs, NEW close \in Nat \ {0}, NEW size \in Nat \ {0},
         BuyStock(held, size, close)
  PROVE  Account' /\ FillBooked(close)
<1>1. CASE size * close > cash
  BY <1>1, RefuseBooks DEF BuyStock
<1>2. CASE ~(size * close > cash)
  <2> DEFINE paid == size * close
             fee == StockLotsFee(size)
  <2>1. paid \in Nat \ {0} /\ fee \in Nat
    BY ProductPositive, LotsFeeType
  <2>2. /\ cash' = cash - paid - fee /\ position' = position + size
        /\ basis' = basis + paid /\ fees' = fees + fee
        /\ stockTraded' = TRUE /\ legs' = held /\ pc' = AfterBar(held, now + 1)
        /\ UNCHANGED <<fillCount, premiumIncome, optionCloseCost, stockRealizedPnL, fillClose>>
    BY <1>2 DEF BuyStock
  <2> HIDE DEF paid, fee
  <2>3. BooksBalance' /\ BasisFollowsShares'
    BY <2>1, <2>2, SessionAssumption DEF Account, BooksBalance, BasisFollowsShares
  <2>4. QED
    BY <2>1, <2>2, <2>3, AfterBarType DEF Account, FillBooked
<1>3. QED
  BY <1>1, <1>2

LEMMA SellStockBooks ==
  ASSUME Account, NEW held \in Legs, NEW close \in Nat \ {0}, NEW wanted \in Nat \ {0},
         SellStock(held, wanted, close)
  PROVE  Account' /\ FillBooked(close)
<1> DEFINE size == IF wanted > position THEN position ELSE wanted
           sold == SoldBasis(position, basis, size)
           got == size * close
           fee == StockLotsFee(size)
<1>1. CASE size = 0 \/ close * position < basis
  BY <1>1, SkipBooks DEF SellStock
<1>2. CASE ~(size = 0 \/ close * position < basis)
  <2>1. position \in Nat /\ basis \in Nat /\ size \in Nat \ {0} /\ size <= position
    BY <1>2 DEF Account, BasisFollowsShares
  <2>2. got \in Nat /\ fee \in Nat
    BY <2>1, LotsFeeType
  <2>3. /\ cash' = cash + got - fee /\ position' = position - size
        /\ basis' = basis - sold /\ stockRealizedPnL' = stockRealizedPnL + got - sold
        /\ fees' = fees + fee /\ stockTraded' = TRUE
        /\ legs' = held /\ pc' = AfterBar(held, now + 1)
        /\ UNCHANGED <<fillCount, premiumIncome, optionCloseCost, fillClose>>
    BY <1>2 DEF SellStock
  <2>4. /\ sold \in Nat
        /\ size = position => sold = basis
        /\ size < position /\ basis > 0 => sold < basis
    BY <2>1, SoldBasisPart
  <2> HIDE DEF size, sold, got, fee
  <2>5. QED
    BY <2>1, <2>2, <2>3, <2>4, AfterBarType, SessionAssumption
       DEF Account, FillBooked, BooksBalance, BasisFollowsShares
<1>3. QED
  BY <1>1, <1>2

LEMMA CloseLegBooks ==
  ASSUME Account, NEW held \in Legs, NEW close, NEW c \in Code, CloseLeg(held, c)
  PROVE  Account' /\ FillBooked(close)
<1> DEFINE cost == held[c].n * held[c].mark * Lot
           fee == held[c].n * OptionFee
           rest == [held EXCEPT ![c] = NoLeg]
<1>1. CASE cost > cash
  BY <1>1, SkipBooks DEF CloseLeg
<1>2. CASE ~(cost > cash) /\ cost + fee > cash
  BY <1>2, RefuseBooks DEF CloseLeg
<1>3. CASE ~(cost > cash) /\ ~(cost + fee > cash)
  <2>1. held[c].n \in Nat /\ held[c].mark \in Nat /\ Lot \in Nat /\ OptionFee \in Nat
    BY ContractsAssumption, SessionAssumption DEF Legs
  <2>2. cost \in Nat /\ fee \in Nat
    BY <2>1
  <2>3. rest \in Legs
    BY NoLegType
  <2>4. /\ legs' = rest /\ cash' = cash - cost - fee
        /\ optionCloseCost' = optionCloseCost + cost /\ fees' = fees + fee
        /\ pc' = AfterBar(rest, now + 1)
        /\ UNCHANGED <<position, basis, fillCount, premiumIncome, stockRealizedPnL, history>>
    BY <1>3 DEF CloseLeg
  <2> HIDE DEF cost, fee, rest
  <2>5. QED
    BY <2>2, <2>3, <2>4, AfterBarType, SessionAssumption
       DEF Account, FillBooked, history, BooksBalance, BasisFollowsShares
<1>4. QED
  BY <1>1, <1>2, <1>3

LEMMA SellOptionBooks ==
  ASSUME Account, NEW held \in Legs, NEW close \in Nat \ {0}, NEW c \in Code,
         NEW q, q.bid \in Nat, q.delta \in Int, SellOption(held, c, q, close)
  PROVE  Account' /\ FillBooked(close)
<1> DEFINE opened == [held EXCEPT ![c] = [n |-> held[c].n + 1,
                                          credit |-> held[c].credit + q.bid,
                                          delta |-> q.delta, mark |-> q.bid]]
           premium == q.bid * Lot
           filled ==
             /\ legs' = opened
             /\ cash' = cash + (premium - OptionFee)
             /\ fillCount' = fillCount + 1
             /\ premiumIncome' = premiumIncome + premium
             /\ fees' = fees + OptionFee
             /\ fillClose' = close
             /\ pc' = AfterBar(opened, now + 1)
             /\ UNCHANGED <<position, basis, optionCloseCost, stockRealizedPnL, stockTraded>>
<1>1. Refuse(held) \/ Skip(held) \/ filled
  BY DEF SellOption
<1>2. CASE Refuse(held)
  BY <1>2, RefuseBooks
<1>3. CASE Skip(held)
  BY <1>3, SkipBooks
<1>4. CASE filled
  <2>1. opened \in Legs
    BY DEF Legs
  <2>2. premium \in Nat /\ OptionFee \in Nat
    BY ContractsAssumption, SessionAssumption
  <2> HIDE DEF opened, premium
  <2>3. QED
    BY <1>4, <2>1, <2>2, AfterBarType, SessionAssumption
       DEF Account, FillBooked, BooksBalance, BasisFollowsShares
<1>5. QED
  BY <1>1, <1>2, <1>3, <1>4

\* Whatever the strategy signals, the bar is booked correctly.
LEMMA SettleBooks ==
  ASSUME Account, NEW held \in Legs, NEW close \in Nat \ {0}, NEW b \in Batches,
         NEW sig, Settle(held, sig, b, close)
  PROVE  Account' /\ FillBooked(close)
<1>1. CASE Skip(held)
  BY <1>1, SkipBooks
<1>2. CASE \E size \in 1 .. MaxTrade :
             BuyStock(held, size, close) \/ SellStock(held, size, close)
  <2>1. PICK size \in 1 .. MaxTrade :
          BuyStock(held, size, close) \/ SellStock(held, size, close)
    BY <1>2
  <2>2. size \in Nat \ {0}
    BY <2>1, SessionAssumption
  <2>3. QED
    BY <2>1, <2>2, BuyStockBooks, SellStockBooks
<1>3. CASE \E c \in Code \cap DOMAIN b.quotes :
             CloseLeg(held, c) \/ SellOption(held, c, b.quotes[c], close)
  <2>1. PICK c \in Code \cap DOMAIN b.quotes :
          CloseLeg(held, c) \/ SellOption(held, c, b.quotes[c], close)
    BY <1>3
  <2>2. b.quotes[c].bid \in Nat /\ b.quotes[c].delta \in Int
    BY SessionAssumption
  <2>3. QED
    BY <2>1, <2>2, CloseLegBooks, SellOptionBooks
<1>4. QED
  BY <1>1, <1>2, <1>3 DEF Settle

-----------------------------------------------------------------------------
(* Expiry.                                                                 *)

\* Delivering the shares of a call keeps the books and never goes short: what is
\* missing is bought in, and all of it leaves again.
LEMMA DeliverBooks ==
  ASSUME Account, price \in Nat, NEW c \in Code, legs[c].n > 0, DeliverCall(c),
         UNCHANGED <<premiumIncome, optionCloseCost>>
  PROVE  /\ cash' \in Int /\ position' \in Int /\ basis' \in Int
         /\ stockRealizedPnL' \in Int /\ fees' \in Nat
         /\ BooksBalance' /\ BasisFollowsShares'
<1> DEFINE size == legs[c].n * Lot
           gap == IF size > position THEN size - position ELSE 0
           buyin == gap * price
           cost == basis + buyin
           sold == SoldBasis(position + gap, cost, size)
           got == size * Strike[c]
           fee == StockLotsFee(gap) + StockLotsFee(size)
<1>1. position \in Nat /\ basis \in Nat
  BY DEF Account, BasisFollowsShares
<1>2. legs[c].n \in Nat \ {0} /\ Lot \in Nat \ {0} /\ Strike[c] \in Nat \ {0}
  BY ContractsAssumption DEF Account, Legs
<1>3. size \in Nat \ {0}
  BY <1>2, ProductPositive
<1>4. /\ cash' = cash - buyin + got - fee
      /\ position' = position + gap - size
      /\ basis' = cost - sold
      /\ stockRealizedPnL' = stockRealizedPnL + got - sold
      /\ fees' = fees + fee
  BY DEF DeliverCall
<1> HIDE DEF size
<1>5. /\ gap \in Nat /\ size <= position + gap
      /\ gap > 0 => position + gap = size
  BY <1>1, <1>3
<1> HIDE DEF gap
<1>6. buyin \in Nat /\ got \in Nat
  BY <1>2, <1>3, <1>5
<1>7. fee \in Nat
  BY <1>3, <1>5, LotsFeeType
<1>8. cost \in Nat /\ position + gap \in Nat /\ (gap = 0 => cost = basis)
  <2>1. gap = 0 => buyin = 0
    BY <1>5
  <2> HIDE DEF buyin
  <2>2. QED
    BY <1>1, <1>5, <1>6, <2>1
<1>9. /\ sold \in Nat
      /\ size = position + gap => sold = cost
      /\ size < position + gap /\ cost > 0 => sold < cost
  BY <1>3, <1>5, <1>8, SoldBasisPart
<1> HIDE DEF buyin, sold, got, fee
<1>10. BooksBalance'
  BY <1>1, <1>4, <1>6, <1>7, <1>9, SessionAssumption DEF Account, BooksBalance
<1> HIDE DEF cost
<1>11. BasisFollowsShares'
  BY <1>1, <1>3, <1>4, <1>5, <1>8, <1>9 DEF Account, BasisFollowsShares
<1>12. QED
  BY <1>1, <1>3, <1>4, <1>5, <1>6, <1>7, <1>8, <1>9, <1>10, <1>11 DEF Account

LEMMA ReceiveBooks ==
  ASSUME Account, NEW c \in Code, legs[c].n > 0, ReceivePut(c),
         UNCHANGED <<premiumIncome, optionCloseCost>>
  PROVE  /\ cash' \in Int /\ position' \in Int /\ basis' \in Int
         /\ stockRealizedPnL' \in Int /\ fees' \in Nat
         /\ BooksBalance' /\ BasisFollowsShares'
<1> DEFINE size == legs[c].n * Lot
           paid == size * Strike[c]
           fee == StockLotsFee(size)
<1>1. legs[c].n \in Nat \ {0} /\ Lot \in Nat \ {0} /\ Strike[c] \in Nat \ {0}
  BY ContractsAssumption DEF Account, Legs
<1>2. size \in Nat \ {0}
  BY <1>1, ProductPositive
<1>3. /\ cash' = cash - paid - fee /\ position' = position + size
      /\ basis' = basis + paid /\ fees' = fees + fee
      /\ UNCHANGED stockRealizedPnL
  BY DEF ReceivePut
<1> HIDE DEF size
<1>4. paid \in Nat \ {0} /\ fee \in Nat
  BY <1>1, <1>2, ProductPositive, LotsFeeType
<1> HIDE DEF paid, fee
<1>5. BooksBalance' /\ BasisFollowsShares'
  BY <1>2, <1>3, <1>4, SessionAssumption DEF Account, BooksBalance, BasisFollowsShares
<1>6. QED
  BY <1>2, <1>3, <1>4, <1>5 DEF Account

-----------------------------------------------------------------------------
(* The inductive invariant.                                                *)

LEMMA InitSound == Init => BooksAreSound
<1> SUFFICES ASSUME Init PROVE BooksAreSound
  OBVIOUS
<1>1. TypeOK
  <2>1. legs \in Legs
    BY DEF Init, Legs, NoLeg
  <2>2. now \in 0 .. MaxBars /\ cash \in Int
    BY SessionAssumption DEF Init
  <2>3. /\ price \in Nat /\ position \in Int /\ basis \in Int
        /\ fillCount \in Nat /\ seenFillCount \in Nat /\ prevBarClose \in Nat
        /\ lastFillPrice \in Nat /\ premiumIncome \in Nat /\ optionCloseCost \in Nat
        /\ stockRealizedPnL \in Int /\ fees \in Nat /\ fillClose \in Nat
    BY DEF Init
  <2>4. stockTraded \in BOOLEAN /\ oneSided \in BOOLEAN
    BY DEF Init
  <2>5. QED
    BY <2>1, <2>2, <2>3, <2>4 DEF Init, TypeOK, Legs
<1>2. BooksBalance /\ BasisFollowsShares
  BY SessionAssumption DEF Init, BooksBalance, BasisFollowsShares
<1>3. FillPriceIsLatest
  BY DEF Init, FillPriceIsLatest, LastFill
<1>4. QED
  BY <1>1, <1>2, <1>3 DEF BooksAreSound

LEMMA BarSound ==
  ASSUME BooksAreSound, NEW close \in Prices, NEW b \in Batches \cup {NoBatch}, Bar(close, b)
  PROVE  BooksAreSound'
<1>1. Account /\ now \in Nat /\ close \in Nat \ {0}
  BY InvAccount, SessionAssumption
<1>2. Account' /\ FillBooked(close)
  <2>1. CASE b = NoBatch /\ Skip(legs)
    BY <1>1, <2>1, SkipBooks DEF Account
  <2>2. CASE b # NoBatch /\ Settle(Marked(legs, b), Evaluate(cfg, Input(b)), b, close)
    <3>1. b \in Batches /\ Marked(legs, b) \in Legs
      BY <1>1, <2>2, MarkedType DEF Account
    <3>2. QED
      BY <1>1, <2>2, <3>1, SettleBooks
  <2>3. QED
    BY <2>1, <2>2 DEF Bar
<1>3. oneSided' \in BOOLEAN
  BY DEF Bar, BooksAreSound, TypeOK
<1>4. /\ now' \in 0 .. MaxBars /\ price' \in Nat /\ cfg' \in Configs
      /\ seenFillCount' \in Nat /\ prevBarClose' \in Nat /\ lastFillPrice' \in Nat
  BY <1>1, SessionAssumption DEF Bar, ObserveFill, LastFill, BooksAreSound, TypeOK
<1>5. TypeOK'
  BY <1>2, <1>3, <1>4 DEF Account, TypeOK, Legs
<1>6. FillPriceIsLatest'
  <2>1. /\ seenFillCount' = fillCount /\ lastFillPrice' = LastFill /\ prevBarClose' = close
    BY DEF Bar, ObserveFill
  <2>2. LastFill = fillClose /\ fillCount \in Nat
    BY <1>1 DEF BooksAreSound, FillPriceIsLatest, Account
  <2>3. QED
    BY <1>2, <2>1, <2>2 DEF FillBooked, FillPriceIsLatest, LastFill
<1>7. QED
  BY <1>2, <1>5, <1>6 DEF BooksAreSound, Account

LEMMA ExpireSound ==
  ASSUME BooksAreSound, Expire
  PROVE  BooksAreSound'
<1>1. Account /\ price \in Nat
  BY InvAccount
<1>2. PICK c \in Due(legs, now) :
        /\ \/ DeliverCall(c)
           \/ ReceivePut(c)
           \/ UNCHANGED <<cash, position, basis, stockRealizedPnL, fees>>
        /\ legs' = [legs EXCEPT ![c] = NoLeg]
        /\ pc' = AfterBar([legs EXCEPT ![c] = NoLeg], now)
  BY DEF Expire
<1>3. c \in Code /\ legs[c].n > 0
  BY <1>2 DEF Due
<1>4. UNCHANGED <<cfg, now, price, fillCount, seenFillCount, prevBarClose, lastFillPrice,
                  premiumIncome, optionCloseCost, stockTraded, fillClose, oneSided>>
  BY DEF Expire, adapter, history
<1>5. /\ cash' \in Int /\ position' \in Int /\ basis' \in Int
      /\ stockRealizedPnL' \in Int /\ fees' \in Nat
      /\ BooksBalance' /\ BasisFollowsShares'
  <2>1. CASE DeliverCall(c)
    BY <1>1, <1>3, <1>4, <2>1, DeliverBooks
  <2>2. CASE ReceivePut(c)
    BY <1>1, <1>3, <1>4, <2>2, ReceiveBooks
  <2>3. CASE UNCHANGED <<cash, position, basis, stockRealizedPnL, fees>>
    BY <1>1, <1>4, <2>3 DEF Account, BooksBalance, BasisFollowsShares
  <2>4. QED
    BY <1>2, <2>1, <2>2, <2>3
<1>6. legs' \in Legs /\ pc' \in {"bar", "expire", "failed"}
  BY <1>1, <1>2, <1>3, NoLegType, AfterBarType DEF Account
<1>7. TypeOK'
  BY <1>4, <1>5, <1>6 DEF BooksAreSound, TypeOK, Legs
<1>8. FillPriceIsLatest'
  BY <1>4 DEF BooksAreSound, FillPriceIsLatest, LastFill
<1>9. QED
  BY <1>5, <1>7, <1>8 DEF BooksAreSound

\* The four invariants hold together in every state of every replay.
THEOREM Inductive == Spec => []BooksAreSound
<1>1. ASSUME BooksAreSound, [Next]_vars PROVE BooksAreSound'
  <2>1. CASE \E close \in Prices, b \in Batches \cup {NoBatch} : Bar(close, b)
    BY <1>1, <2>1, BarSound
  <2>2. CASE Expire
    BY <1>1, <2>2, ExpireSound
  <2>3. CASE UNCHANGED vars
    BY <1>1, <2>3 DEF vars, portfolio, adapter, ledger, history, BooksAreSound, TypeOK,
                      BooksBalance, BasisFollowsShares, FillPriceIsLatest, LastFill
  <2>4. QED
    BY <1>1, <2>1, <2>2, <2>3 DEF Next, Finished
<1>2. QED
  BY InitSound, <1>1, PTL DEF Spec

\* The variables keep their types (settleAction, settleExpired and OnBar).
THEOREM TypeCorrect == Spec => []TypeOK
<1>1. BooksAreSound => TypeOK
  BY DEF BooksAreSound
<1>2. QED
  BY Inductive, <1>1, PTL

\* The attribution of the report adds up to the account (attributionOf), whatever
\* the strategy signals.
THEOREM LedgerBalances == Spec => []BooksBalance
<1>1. BooksAreSound => BooksBalance
  BY DEF BooksAreSound
<1>2. QED
  BY Inductive, <1>1, PTL

\* The account is never short, and shares always have a cost (applyStockPosition
\* and the buy-in of settleExpired).
THEOREM NeverShort == Spec => []BasisFollowsShares
<1>1. BooksAreSound => BasisFollowsShares
  BY DEF BooksAreSound
<1>2. QED
  BY Inductive, <1>1, PTL

\* The adapter's last fill price is the close of the latest fill (OnBar).
THEOREM FillPrice == Spec => []FillPriceIsLatest
<1>1. BooksAreSound => FillPriceIsLatest
  BY DEF BooksAreSound
<1>2. QED
  BY Inductive, <1>1, PTL

-----------------------------------------------------------------------------
(* The buyback.                                                            *)

\* A close alert comes from takeProfitSignal and names one of its legs.
LEMMA CloseIsReady ==
  ASSUME NEW k, NEW in, NEW c, Evaluate(k, in) = CloseAlert(c)
  PROVE  c \in TakeProfit(k, in)
<1>1. CASE TakeProfit(k, in) # {}
  <2> DEFINE d == CHOOSE x \in TakeProfit(k, in) : TRUE
  <2>1. d \in TakeProfit(k, in)
    BY <1>1
  <2>2. Evaluate(k, in) = CloseAlert(d)
    BY <1>1 DEF Evaluate
  <2>3. CloseAlert(d).code = d /\ CloseAlert(c).code = c
    BY DEF CloseAlert
  <2>4. QED
    BY <2>1, <2>2, <2>3
<1>2. CASE TakeProfit(k, in) = {}
  <2> DEFINE chosen == Chosen(k, in, Direction(k, in))
             picked == CHOOSE x \in chosen : TRUE
  <2>1. Evaluate(k, in) \in {Hold, Switch(k, in), Alert(picked)}
    BY <1>2 DEF Evaluate
  <2>2. Hold.act # "close" /\ Alert(picked).act # "close"
    BY DEF Hold, Alert
  <2>3. Switch(k, in).act # "close"
    BY DEF Switch, StockSuggestion, Hold
  <2>4. CloseAlert(c).act = "close"
    BY DEF CloseAlert
  <2>5. QED
    BY <2>1, <2>2, <2>3, <2>4
<1>3. QED
  BY <1>1, <1>2

\* Only a buyback adds to the close cost: it was signalled, takes one leg away
\* and costs its contracts at their mark.
LEMMA OnlyClosingCosts ==
  ASSUME Account, NEW held, NEW sig, NEW b, NEW close, Settle(held, sig, b, close),
         optionCloseCost' > optionCloseCost
  PROVE  \E c \in Code \cap DOMAIN b.quotes :
           /\ sig = CloseAlert(c)
           /\ legs' = [held EXCEPT ![c] = NoLeg]
           /\ optionCloseCost' = optionCloseCost + held[c].n * held[c].mark * Lot
<1>1. optionCloseCost' # optionCloseCost
  BY DEF Account
<1>2. ~Skip(held) /\ ~Refuse(held)
  BY <1>1 DEF Skip, Refuse, NoTrade, ledger
<1>3. \A size : ~BuyStock(held, size, close) /\ ~SellStock(held, size, close)
  BY <1>1, <1>2 DEF BuyStock, SellStock
<1>4. \A c, q : ~SellOption(held, c, q, close)
  BY <1>1, <1>2 DEF SellOption
<1>5. PICK c \in Code \cap DOMAIN b.quotes : sig = CloseAlert(c) /\ CloseLeg(held, c)
  BY <1>2, <1>3, <1>4 DEF Settle
<1>6. /\ legs' = [held EXCEPT ![c] = NoLeg]
      /\ optionCloseCost' = optionCloseCost + held[c].n * held[c].mark * Lot
  BY <1>2, <1>5 DEF CloseLeg
<1>7. QED
  BY <1>5, <1>6

\* What the profit test on the ask says of a buyback at a mark that is not above it.
LEMMA ProfitScales ==
  ASSUME NEW n \in Nat, NEW ask \in Nat, NEW mark \in Nat, mark <= ask,
         NEW credit \in Nat, NEW pct \in Nat, NEW lot \in Nat,
         (credit - n * ask) * 100 >= pct * credit
  PROVE  (credit * lot - n * mark * lot) * 100 >= pct * credit * lot
<1>1. PICK x \in Nat, y \in Nat, z \in Nat : x = n * ask /\ y = n * mark /\ z = pct * credit
  OBVIOUS
<1>2. y <= x
  BY <1>1
<1>3. (credit - y) * 100 >= z
  BY <1>1, <1>2
<1>4. ((credit - y) * 100) * lot >= z * lot
  <2>1. PICK d \in Int : d = (credit - y) * 100
    BY <1>1
  <2>2. d >= z
    BY <1>3, <2>1
  <2>3. d * lot >= z * lot
    BY <1>1, <2>2
  <2>4. QED
    BY <2>1, <2>3
<1>5. ((credit - y) * 100) * lot = (credit * lot - y * lot) * 100
  BY <1>1
<1>6. QED
  BY <1>1, <1>4, <1>5

LEMMA CloseKeepsProfit ==
  ASSUME BooksAreSound, NEW close \in Prices, NEW b \in Batches \cup {NoBatch}, Bar(close, b),
         NEW c \in Code, legs[c].n > 0, legs'[c].n = 0,
         optionCloseCost' > optionCloseCost, ~oneSided'
  PROVE  (legs[c].credit * Lot - (optionCloseCost' - optionCloseCost)) * 100
           >= cfg.profitTakePct * legs[c].credit * Lot
<1>1. Account /\ optionCloseCost \in Nat
  BY InvAccount DEF Account
<1>2. ~Skip(legs)
  BY <1>1 DEF Skip, NoTrade, ledger
<1>3. /\ b \in Batches
      /\ Settle(Marked(legs, b), Evaluate(cfg, Input(b)), b, close)
      /\ \A d \in Code \cap DOMAIN b.quotes : legs[d].n > 0 => b.quotes[d].bid # 0
  BY <1>2 DEF Bar
<1>4. PICK d \in Code \cap DOMAIN b.quotes :
        /\ Evaluate(cfg, Input(b)) = CloseAlert(d)
        /\ legs' = [Marked(legs, b) EXCEPT ![d] = NoLeg]
        /\ optionCloseCost' =
             optionCloseCost + Marked(legs, b)[d].n * Marked(legs, b)[d].mark * Lot
  BY <1>1, <1>3, OnlyClosingCosts
<1>5. /\ \A x \in Code : legs[x] \in [n : Nat, credit : Nat, delta : Int, mark : Nat]
      /\ Lot \in Nat /\ cfg.profitTakePct \in Nat
  BY <1>1, ContractsAssumption, SessionAssumption DEF Account, Legs, BooksAreSound, TypeOK
<1>6. \A x \in Code : Marked(legs, b)[x].n = legs[x].n
  BY <1>5 DEF Marked
<1>7. c = d
  <2>1. CASE c # d
    <3>1. legs'[c] = Marked(legs, b)[c]
      BY <1>4, <2>1 DEF Marked
    <3>2. QED
      BY <1>5, <1>6, <3>1
  <2>2. QED
    BY <2>1
<1>8. /\ b.quotes[c].bid \in Nat /\ b.quotes[c].ask \in Nat
      /\ b.quotes[c].bid <= b.quotes[c].ask
  BY <1>3, <1>4, <1>7, SessionAssumption
<1>9. Marked(legs, b)[c].mark = b.quotes[c].bid
  BY <1>3, <1>4, <1>5, <1>7, <1>8 DEF Marked, NewBid
<1>10. ProfitReached(cfg, Input(b), c)
  BY <1>4, <1>7, CloseIsReady DEF TakeProfit
<1>11. (legs[c].credit - legs[c].n * b.quotes[c].ask) * 100
         >= cfg.profitTakePct * legs[c].credit
  BY <1>10 DEF ProfitReached, Input
<1>12. PICK cost \in Nat : cost = legs[c].n * b.quotes[c].bid * Lot
  BY <1>5, <1>8
<1>13. (legs[c].credit * Lot - cost) * 100 >= cfg.profitTakePct * legs[c].credit * Lot
  <2>1. PICK n \in Nat, credit \in Nat, pct \in Nat, bid \in Nat, ask \in Nat :
          /\ n = legs[c].n /\ credit = legs[c].credit /\ pct = cfg.profitTakePct
          /\ bid = b.quotes[c].bid /\ ask = b.quotes[c].ask
    BY <1>5, <1>8
  <2>2. bid <= ask /\ (credit - n * ask) * 100 >= pct * credit
    BY <1>8, <1>11, <2>1
  <2>3. (credit * Lot - n * bid * Lot) * 100 >= pct * credit * Lot
    BY <1>5, <2>2, ProfitScales
  <2>4. QED
    BY <1>12, <2>1, <2>3
<1>14. optionCloseCost' - optionCloseCost = cost
  BY <1>1, <1>4, <1>6, <1>7, <1>9, <1>12
<1>15. QED
  BY <1>13, <1>14

\* A buyback keeps the share of its credit that profit_take_pct asks for, although
\* it is decided on the ask and settled at the mark (takeProfitSignal, OnBar and
\* settleOptionTrade).
THEOREM ProfitKept == Spec => BuybackKeepsProfit
<1> DEFINE Kept(c) ==
             legs[c].n > 0 /\ legs'[c].n = 0 /\ optionCloseCost' > optionCloseCost /\ ~oneSided' =>
               (legs[c].credit * Lot - (optionCloseCost' - optionCloseCost)) * 100
                 >= cfg.profitTakePct * legs[c].credit * Lot
<1>1. ASSUME BooksAreSound, [Next]_vars, NEW c \in Code PROVE Kept(c)
  <2>1. CASE \E close \in Prices, b \in Batches \cup {NoBatch} : Bar(close, b)
    BY <1>1, <2>1, CloseKeepsProfit
  <2>2. CASE Expire
    <3>1. optionCloseCost' = optionCloseCost /\ optionCloseCost \in Nat
      BY <1>1, <2>2 DEF Expire, BooksAreSound, TypeOK
    <3>2. QED
      BY <3>1
  <2>3. CASE UNCHANGED vars
    <3>1. optionCloseCost' = optionCloseCost /\ optionCloseCost \in Nat
      BY <1>1, <2>3 DEF vars, ledger, BooksAreSound, TypeOK
    <3>2. QED
      BY <3>1
  <2>4. QED
    BY <1>1, <2>1, <2>2, <2>3 DEF Next, Finished
<1>2. BooksAreSound /\ [Next]_vars => [\A c \in Code : Kept(c)]_vars
  BY <1>1
<1>3. QED
  BY Inductive, <1>2, PTL DEF Spec, BuybackKeepsProfit

-----------------------------------------------------------------------------
(* Sums over a finite set.  MapThenSumSet folds with a recursive function  *)
(* on the subsets, taking a chosen element first; every element may be     *)
(* taken first.                                                            *)

\* Induction over the natural numbers, as a fact about sets.
LEMMA NatAll ==
  ASSUME NEW A \in SUBSET Nat, 0 \in A, \A n \in A : n + 1 \in A
  PROVE  A = Nat
<1> DEFINE less == OpToRel(<, Nat)
           Bad == Nat \ A
<1>1. IsWellFoundedOn(less, Nat)
  BY NatLessThanWellFounded
<1>2. \A x, y \in Nat : y < x => <<y, x>> \in less
  BY DEF OpToRel
<1> HIDE DEF less
<1> SUFFICES ASSUME Bad # {} PROVE FALSE
  OBVIOUS
<1>3. Bad \subseteq Nat
  OBVIOUS
<1> HIDE DEF Bad
<1>4. PICK n \in Bad : \A y \in Bad : <<y, n>> \notin less
  BY <1>1, <1>3, WFMin, Zenon
<1>5. \A y \in Bad : ~(y < n)
  BY <1>2, <1>3, <1>4
<1>6. n \in Nat /\ n # 0 /\ n - 1 \in Nat /\ n - 1 < n
  BY <1>4 DEF Bad
<1>7. n - 1 \in A
  BY <1>5, <1>6 DEF Bad
<1>8. n - 1 + 1 = n
  BY <1>6
<1>9. QED
  BY <1>4, <1>7, <1>8 DEF Bad

Pick(s) == CHOOSE x \in s : TRUE

\* What the fold asks of g at s, and at every subset of S.
SumAt(F, g, s) == g[s] = IF s = {} THEN 0 ELSE F[Pick(s)] + g[s \ {Pick(s)}]
IsSum(F, S, g) ==
  g = [s \in SUBSET S |-> IF s = {} THEN 0 ELSE F[Pick(s)] + g[s \ {Pick(s)}]]

LEMMA PickIn == ASSUME NEW s, s # {} PROVE Pick(s) \in s
BY DEF Pick

LEMMA SumUnfold ==
  ASSUME NEW F, NEW S
  PROVE  SumOver(F, S) = (CHOOSE g : IsSum(F, S, g))[S]
BY DEF SumOver, MapThenSumSet, MapThenFoldSet, IsSum, Pick

\* Such a function exists: it is built up by the size of the subsets.
LEMMA SumExists ==
  ASSUME NEW F, NEW S, IsFiniteSet(S)
  PROVE  \E g : IsSum(F, S, g)
<1> DEFINE Upto(n) == {s \in SUBSET S : Cardinality(s) <= n}
           Good(n) == \E g : g = [s \in SUBSET S |-> g[s]] /\ \A s \in Upto(n) : SumAt(F, g, s)
           A == {n \in Nat : Good(n)}
<1>1. \A s \in SUBSET S : IsFiniteSet(s) /\ Cardinality(s) \in Nat
  BY FS_Subset, FS_CardinalityType
<1>2. \A s \in SUBSET S : s # {} =>
        /\ s \ {Pick(s)} \in SUBSET S
        /\ Cardinality(s) # 0
        /\ Cardinality(s \ {Pick(s)}) = Cardinality(s) - 1
  BY <1>1, FS_RemoveElement, FS_EmptySet, PickIn
<1>3. 0 \in A
  <2> DEFINE g == [s \in SUBSET S |-> 0]
  <2>1. \A s \in Upto(0) : s = {}
    BY <1>1, FS_EmptySet
  <2>2. \A s \in Upto(0) : SumAt(F, g, s)
    BY <2>1 DEF SumAt
  <2>3. QED
    BY <2>2
<1>4. ASSUME NEW n \in A PROVE n + 1 \in A
  <2>1. PICK g : g = [s \in SUBSET S |-> g[s]] /\ \A s \in Upto(n) : SumAt(F, g, s)
    BY <1>4
  <2> DEFINE h == [s \in SUBSET S |->
                     IF s = {} THEN 0
                     ELSE IF Cardinality(s) <= n THEN g[s]
                     ELSE F[Pick(s)] + g[s \ {Pick(s)}]]
  <2>2. ASSUME NEW s \in Upto(n + 1), s # {} PROVE SumAt(F, h, s)
    <3> DEFINE t == s \ {Pick(s)}
    <3>1. t \in SUBSET S /\ Cardinality(t) <= n /\ Cardinality(t) = Cardinality(s) - 1
      BY <1>1, <1>2, <1>4, <2>2
    <3>2. h[t] = g[t]
      <4>1. CASE t = {}
        BY <2>1, <3>1, <4>1 DEF SumAt
      <4>2. CASE t # {}
        BY <3>1, <4>2
      <4>3. QED
        BY <4>1, <4>2
    <3>3. h[s] = F[Pick(s)] + g[t]
      <4>1. CASE Cardinality(s) <= n
        BY <2>1, <2>2, <4>1 DEF SumAt
      <4>2. CASE ~(Cardinality(s) <= n)
        BY <2>2, <4>2
      <4>3. QED
        BY <4>1, <4>2
    <3> HIDE DEF h
    <3>4. QED
      BY <2>2, <3>2, <3>3 DEF SumAt
  <2>3. ASSUME NEW s \in Upto(n + 1), s = {} PROVE SumAt(F, h, s)
    BY <2>3 DEF SumAt
  <2>4. h = [s \in SUBSET S |-> h[s]]
    OBVIOUS
  <2> HIDE DEF h
  <2>5. Good(n + 1)
    <3>1. \A s \in Upto(n + 1) : SumAt(F, h, s)
      BY <2>2, <2>3
    <3>2. QED
      BY <2>4, <3>1, Zenon
  <2>6. n + 1 \in Nat
    BY <1>4
  <2> HIDE DEF Good
  <2>7. QED
    BY <2>5, <2>6
<1>5. A = Nat
  <2> HIDE DEF A
  <2>1. A \in SUBSET Nat
    BY DEF A
  <2>2. QED
    BY <1>3, <1>4, <2>1, NatAll
<1>6. Good(Cardinality(S))
  BY <1>1, <1>5
<1>7. PICK g : g = [s \in SUBSET S |-> g[s]] /\ \A s \in Upto(Cardinality(S)) : SumAt(F, g, s)
  BY <1>6
<1>8. \A s \in SUBSET S : Cardinality(s) <= Cardinality(S)
  BY FS_Subset
<1>9. \A s \in SUBSET S : SumAt(F, g, s)
  BY <1>7, <1>8
<1>10. QED
  BY <1>7, <1>9 DEF IsSum, SumAt

\* There is only one: the sum over a subset does not depend on the set around it.
LEMMA SumUnique ==
  ASSUME NEW F, NEW S, IsFiniteSet(S), NEW T \in SUBSET S, NEW g, NEW h,
         IsSum(F, S, g), IsSum(F, T, h)
  PROVE  g[T] = h[T]
<1> DEFINE A == {n \in Nat : \A s \in SUBSET T : Cardinality(s) <= n => g[s] = h[s]}
<1>1. IsFiniteSet(T) /\ \A s \in SUBSET T : IsFiniteSet(s) /\ Cardinality(s) \in Nat
  BY FS_Subset, FS_CardinalityType
<1>2. \A s \in SUBSET T : SumAt(F, g, s) /\ SumAt(F, h, s)
  BY DEF IsSum, SumAt
<1>3. 0 \in A
  <2>1. \A s \in SUBSET T : Cardinality(s) <= 0 => s = {}
    BY <1>1, FS_EmptySet
  <2>2. g[{}] = 0 /\ h[{}] = 0
    BY <1>2 DEF SumAt
  <2>3. QED
    BY <2>1, <2>2
<1>4. ASSUME NEW n \in A PROVE n + 1 \in A
  <2> SUFFICES ASSUME NEW s \in SUBSET T, Cardinality(s) <= n + 1 PROVE g[s] = h[s]
    BY <1>4
  <2>1. CASE s = {}
    BY <1>2, <2>1 DEF SumAt
  <2>2. CASE s # {}
    <3> DEFINE t == s \ {Pick(s)}
    <3>1. t \in SUBSET T /\ Cardinality(t) = Cardinality(s) - 1
      BY <1>1, <2>2, FS_RemoveElement, PickIn
    <3>2. Cardinality(t) <= n
      BY <1>1, <1>4, <3>1
    <3>3. g[t] = h[t]
      BY <1>4, <3>1, <3>2
    <3>4. QED
      BY <1>2, <2>2, <3>3 DEF SumAt
  <2>3. QED
    BY <2>1, <2>2
<1>5. A = Nat
  <2> HIDE DEF A
  <2>1. A \in SUBSET Nat
    BY DEF A
  <2>2. QED
    BY <1>3, <1>4, <2>1, NatAll
<1>6. QED
  BY <1>1, <1>5

\* One function on the subsets of S gives all the sums over them.
LEMMA SumsTogether ==
  ASSUME NEW F, NEW S, IsFiniteSet(S)
  PROVE  \E g : IsSum(F, S, g) /\ \A T \in SUBSET S : SumOver(F, T) = g[T]
<1>1. PICK g : IsSum(F, S, g)
  BY SumExists
<1>2. ASSUME NEW T \in SUBSET S PROVE SumOver(F, T) = g[T]
  <2>1. IsFiniteSet(T)
    BY FS_Subset
  <2>2. \E x : IsSum(F, T, x)
    BY <2>1, SumExists
  <2>3. PICK h : IsSum(F, T, h) /\ SumOver(F, T) = h[T]
    <3> DEFINE x == CHOOSE y : IsSum(F, T, y)
    <3>1. IsSum(F, T, x)
      BY <2>2
    <3>2. SumOver(F, T) = x[T]
      BY SumUnfold
    <3>3. QED
      BY <3>1, <3>2
  <2>4. g[T] = h[T]
    BY <1>1, <2>3, SumUnique
  <2>5. QED
    BY <2>3, <2>4
<1>3. QED
  BY <1>1, <1>2

LEMMA SumEmpty ==
  ASSUME NEW F
  PROVE  SumOver(F, {}) = 0
<1>1. IsFiniteSet({})
  BY FS_EmptySet
<1>2. PICK g : IsSum(F, {}, g) /\ \A T \in SUBSET {} : SumOver(F, T) = g[T]
  BY <1>1, SumsTogether
<1>3. g[{}] = 0
  BY <1>2 DEF IsSum
<1>4. QED
  BY <1>2, <1>3

\* The sum of integers is one, and any of them can be taken out of it.
LEMMA SumLaws ==
  ASSUME NEW F, NEW S, IsFiniteSet(S), \A c \in S : F[c] \in Int
  PROVE  \A s \in SUBSET S :
           /\ SumOver(F, s) \in Int
           /\ \A x \in s : SumOver(F, s) = F[x] + SumOver(F, s \ {x})
<1>1. PICK g : IsSum(F, S, g) /\ \A T \in SUBSET S : SumOver(F, T) = g[T]
  BY SumsTogether
<1> DEFINE Law(s) == g[s] \in Int /\ \A x \in s : g[s] = F[x] + g[s \ {x}]
           A == {n \in Nat : \A s \in SUBSET S : Cardinality(s) <= n => Law(s)}
<1>2. \A s \in SUBSET S : IsFiniteSet(s) /\ Cardinality(s) \in Nat
  BY FS_Subset, FS_CardinalityType
<1>3. \A s \in SUBSET S : SumAt(F, g, s)
  BY <1>1 DEF IsSum, SumAt
<1>4. \A s \in SUBSET S : \A x \in s :
        s \ {x} \in SUBSET S /\ Cardinality(s \ {x}) = Cardinality(s) - 1
  BY <1>2, FS_RemoveElement
<1>5. 0 \in A
  <2> SUFFICES ASSUME NEW s \in SUBSET S, Cardinality(s) <= 0 PROVE Law(s)
    OBVIOUS
  <2>1. s = {}
    BY <1>2, FS_EmptySet
  <2>2. g[s] = 0
    BY <1>3, <2>1 DEF SumAt
  <2>3. QED
    BY <2>1, <2>2
<1>6. ASSUME NEW n \in A PROVE n + 1 \in A
  <2> SUFFICES ASSUME NEW s \in SUBSET S, Cardinality(s) <= n + 1 PROVE Law(s)
    BY <1>6
  <2>1. CASE s = {}
    <3>1. g[s] = 0
      BY <1>3, <2>1 DEF SumAt
    <3>2. QED
      BY <2>1, <3>1
  <2>2. CASE s # {}
    <3> DEFINE y == Pick(s)
    <3>1. y \in s /\ F[y] \in Int
      BY <2>2, PickIn
    <3>2. \A x \in s : s \ {x} \in SUBSET S /\ Law(s \ {x})
      BY <1>2, <1>4, <1>6
    <3>3. g[s] = F[y] + g[s \ {y}]
      BY <1>3, <2>2 DEF SumAt
    <3> HIDE DEF y
    <3>4. g[s] \in Int
      BY <3>1, <3>2, <3>3
    <3>5. ASSUME NEW x \in s, x # y PROVE g[s] = F[x] + g[s \ {x}]
      <4>1. PICK i \in Int, j \in Int : i = F[x] /\ j = F[y]
        BY <3>1
      <4>2. g[s \ {y}] = F[x] + g[(s \ {y}) \ {x}]
        BY <3>1, <3>2, <3>5
      <4>3. g[s \ {x}] = F[y] + g[(s \ {x}) \ {y}]
        BY <3>1, <3>2, <3>5
      <4>4. (s \ {y}) \ {x} = (s \ {x}) \ {y}
        OBVIOUS
      <4>5. (s \ {x}) \ {y} \in SUBSET S /\ Cardinality((s \ {x}) \ {y}) <= n
        <5>1. y \in s \ {x}
          BY <3>1, <3>5
        <5>2. PICK t \in SUBSET S : t = s \ {x}
          BY <3>2
        <5>3. t \ {y} \in SUBSET S /\ Cardinality(t \ {y}) = Cardinality(t) - 1
          BY <1>4, <5>1, <5>2
        <5>4. Cardinality(t) = Cardinality(s) - 1
          BY <1>4, <5>2
        <5>5. QED
          BY <1>2, <1>6, <5>2, <5>3, <5>4
      <4>6. g[(s \ {x}) \ {y}] \in Int
        BY <1>6, <4>5
      <4>7. PICK k \in Int : k = g[(s \ {x}) \ {y}]
        BY <4>6
      <4>8. g[s \ {y}] = i + k /\ g[s \ {x}] = j + k
        BY <4>1, <4>2, <4>3, <4>4, <4>7
      <4>9. g[s] = j + (i + k)
        BY <3>3, <4>1, <4>8
      <4>10. g[s] = i + (j + k)
        BY <4>7, <4>9
      <4>11. QED
        BY <4>1, <4>8, <4>10
    <3>6. QED
      BY <3>3, <3>4, <3>5
  <2>3. QED
    BY <2>1, <2>2
<1>7. A = Nat
  <2> HIDE DEF A
  <2>1. A \in SUBSET Nat
    BY DEF A
  <2>2. QED
    BY <1>5, <1>6, <2>1, NatAll
<1>8. \A s \in SUBSET S : Law(s)
  BY <1>2, <1>7
<1>9. QED
  BY <1>1, <1>8

\* Only the summands of the set count.
LEMMA SumSame ==
  ASSUME NEW F, NEW G, NEW S, IsFiniteSet(S), \A c \in S : F[c] = G[c]
  PROVE  SumOver(F, S) = SumOver(G, S)
<1>1. PICK g : IsSum(F, S, g) /\ \A T \in SUBSET S : SumOver(F, T) = g[T]
  BY SumsTogether
<1>2. PICK h : IsSum(G, S, h) /\ \A T \in SUBSET S : SumOver(G, T) = h[T]
  BY SumsTogether
<1>3. IsSum(G, S, g)
  <2>1. \A s \in SUBSET S : s # {} => F[Pick(s)] = G[Pick(s)]
    BY PickIn
  <2>2. [s \in SUBSET S |-> IF s = {} THEN 0 ELSE F[Pick(s)] + g[s \ {Pick(s)}]]
        = [s \in SUBSET S |-> IF s = {} THEN 0 ELSE G[Pick(s)] + g[s \ {Pick(s)}]]
    BY <2>1
  <2>3. QED
    BY <1>1, <2>2 DEF IsSum
<1>4. g[S] = h[S]
  BY <1>2, <1>3, SumUnique
<1>5. QED
  BY <1>1, <1>2, <1>4

\* Summands that are 0 can be left out.
LEMMA SumDrop ==
  ASSUME NEW F, NEW S, IsFiniteSet(S), \A c \in S : F[c] \in Int,
         NEW T \in SUBSET S, \A c \in S \ T : F[c] = 0
  PROVE  SumOver(F, S) = SumOver(F, T)
<1> DEFINE A == {n \in Nat : \A s \in SUBSET S :
                   T \subseteq s /\ Cardinality(s) <= n => SumOver(F, s) = SumOver(F, T)}
<1>1. \A s \in SUBSET S : IsFiniteSet(s) /\ Cardinality(s) \in Nat
  BY FS_Subset, FS_CardinalityType
<1>2. 0 \in A
  <2>1. \A s \in SUBSET S : Cardinality(s) <= 0 => s = {}
    BY <1>1, FS_EmptySet
  <2>2. \A s \in SUBSET S : T \subseteq s /\ Cardinality(s) <= 0 => s = T
    BY <2>1
  <2>3. QED
    BY <2>2
<1>3. ASSUME NEW n \in A PROVE n + 1 \in A
  <2> SUFFICES ASSUME NEW s \in SUBSET S, T \subseteq s, Cardinality(s) <= n + 1
               PROVE  SumOver(F, s) = SumOver(F, T)
    BY <1>3
  <2>1. CASE s # T
    <3>1. PICK x \in s : x \notin T
      BY <2>1
    <3>2. /\ SumOver(F, s) = F[x] + SumOver(F, s \ {x})
          /\ SumOver(F, s \ {x}) \in Int
      <4>1. s \ {x} \in SUBSET S
        OBVIOUS
      <4>2. QED
        BY <3>1, <4>1, SumLaws
    <3>3. F[x] = 0
      BY <3>1
    <3>4. s \ {x} \in SUBSET S /\ T \subseteq s \ {x} /\ Cardinality(s \ {x}) <= n
      BY <1>1, <1>3, <3>1, FS_RemoveElement
    <3>5. SumOver(F, s \ {x}) = SumOver(F, T)
      BY <1>3, <3>4
    <3>6. QED
      BY <3>2, <3>3, <3>5
  <2>2. QED
    BY <2>1
<1>4. A = Nat
  <2> HIDE DEF A
  <2>1. A \in SUBSET Nat
    BY DEF A
  <2>2. QED
    BY <1>2, <1>3, <2>1, NatAll
<1>5. QED
  BY <1>1, <1>4

\* Changing one summand changes the sum by as much.
LEMMA SumChange ==
  ASSUME NEW F, NEW G, NEW S, IsFiniteSet(S), NEW x \in S,
         \A c \in S : F[c] \in Int /\ G[c] \in Int,
         \A c \in S \ {x} : G[c] = F[c]
  PROVE  /\ SumOver(F, S) \in Int /\ SumOver(G, S) \in Int
         /\ SumOver(G, S) = SumOver(F, S) - F[x] + G[x]
<1>1. IsFiniteSet(S \ {x})
  BY FS_RemoveElement
<1>2. SumOver(G, S \ {x}) = SumOver(F, S \ {x})
  BY <1>1, SumSame
<1>3. S \in SUBSET S /\ S \ {x} \in SUBSET S
  OBVIOUS
<1>4. /\ SumOver(F, S) \in Int /\ SumOver(F, S \ {x}) \in Int
      /\ SumOver(F, S) = F[x] + SumOver(F, S \ {x})
  BY <1>3, SumLaws
<1>5. /\ SumOver(G, S) \in Int
      /\ SumOver(G, S) = G[x] + SumOver(G, S \ {x})
  BY <1>3, SumLaws
<1>6. PICK i \in Int, j \in Int, k \in Int :
        i = F[x] /\ j = G[x] /\ k = SumOver(F, S \ {x})
  BY <1>4
<1>7. QED
  BY <1>2, <1>4, <1>5, <1>6

\* A sum of natural numbers is one.
LEMMA SumNat ==
  ASSUME NEW F, NEW S, IsFiniteSet(S), \A c \in S : F[c] \in Nat
  PROVE  SumOver(F, S) \in Nat
<1> DEFINE A == {n \in Nat : \A s \in SUBSET S : Cardinality(s) <= n => SumOver(F, s) \in Nat}
<1>1. \A s \in SUBSET S : IsFiniteSet(s) /\ Cardinality(s) \in Nat
  BY FS_Subset, FS_CardinalityType
<1>2. 0 \in A
  <2>1. \A s \in SUBSET S : Cardinality(s) <= 0 => s = {}
    BY <1>1, FS_EmptySet
  <2>2. SumOver(F, {}) = 0
    BY SumEmpty
  <2>3. QED
    BY <2>1, <2>2
<1>3. ASSUME NEW n \in A PROVE n + 1 \in A
  <2> SUFFICES ASSUME NEW s \in SUBSET S, Cardinality(s) <= n + 1
               PROVE  SumOver(F, s) \in Nat
    BY <1>3
  <2>1. CASE s = {}
    BY <2>1, SumEmpty
  <2>2. CASE s # {}
    <3>1. PICK x \in s : TRUE
      BY <2>2
    <3>2. s \ {x} \in SUBSET S /\ Cardinality(s \ {x}) <= n
      BY <1>1, <1>3, <3>1, FS_RemoveElement
    <3>3. SumOver(F, s \ {x}) \in Nat /\ F[x] \in Nat
      BY <1>3, <3>1, <3>2
    <3>4. SumOver(F, s) = F[x] + SumOver(F, s \ {x})
      BY <3>1, SumLaws
    <3>5. QED
      BY <3>3, <3>4
  <2>3. QED
    BY <2>1, <2>2
<1>4. A = Nat
  <2> HIDE DEF A
  <2>1. A \in SUBSET Nat
    BY DEF A
  <2>2. QED
    BY <1>2, <1>3, <2>1, NatAll
<1>5. QED
  BY <1>1, <1>4

-----------------------------------------------------------------------------
(* What the short legs may call for, as sums over all contracts.           *)

CallLoad(ls) == [c \in Code |-> IF Kind[c] = "call" THEN ls[c].n * Lot ELSE 0]
PutLoad(ls) == [c \in Code |-> IF Kind[c] = "put" THEN ls[c].n * Lot ELSE 0]
PutCash(ls) == [c \in Code |-> IF Kind[c] = "put" THEN ls[c].n * Lot * Strike[c] ELSE 0]

LEMMA LoadTypes ==
  ASSUME NEW ls \in Legs, NEW c \in Code
  PROVE  /\ ls[c].n \in Nat /\ Lot \in Nat \ {0} /\ Strike[c] \in Nat \ {0}
         /\ ls[c].n * Lot \in Nat /\ ls[c].n * Lot * Strike[c] \in Nat
         /\ CallLoad(ls)[c] \in Int /\ PutLoad(ls)[c] \in Int /\ PutCash(ls)[c] \in Int
         /\ ls[c].n = 0 => ls[c].n * Lot = 0 /\ ls[c].n * Lot * Strike[c] = 0
<1>1. ls[c].n \in Nat /\ Lot \in Nat \ {0} /\ Strike[c] \in Nat \ {0}
  BY ContractsAssumption DEF Legs
<1>2. PICK x \in Nat : x = ls[c].n * Lot
  BY <1>1
<1>3. x * Strike[c] \in Nat /\ (x = 0 => x * Strike[c] = 0)
  BY <1>1, <1>2
<1>4. ls[c].n = 0 => x = 0
  BY <1>1, <1>2
<1>5. CallLoad(ls)[c] \in Int /\ PutLoad(ls)[c] \in Int /\ PutCash(ls)[c] \in Int
  BY <1>2, <1>3 DEF CallLoad, PutLoad, PutCash
<1>6. QED
  BY <1>1, <1>2, <1>3, <1>4, <1>5

\* A sum over the short legs of a kind is one over all contracts.
LEMMA ShortSum ==
  ASSUME NEW ls \in Legs, NEW kind, NEW F, NEW G,
         \A c \in Code : F[c] \in Int /\ (ls[c].n = 0 => F[c] = 0),
         \A c \in Code : G[c] = IF Kind[c] = kind THEN F[c] ELSE 0
  PROVE  SumOver(F, Short(ls, kind)) = SumOver(G, Code)
<1> DEFINE T == Short(ls, kind)
<1>1. T \in SUBSET Code /\ IsFiniteSet(Code) /\ IsFiniteSet(T)
  BY ContractsAssumption, FS_Subset DEF Short
<1>2. \A c \in Code \ T : G[c] = 0
  BY DEF Short, Legs
<1>3. \A c \in T : F[c] = G[c]
  BY DEF Short
<1>4. \A c \in Code : G[c] \in Int
  OBVIOUS
<1> HIDE DEF T
<1>5. SumOver(G, Code) = SumOver(G, T)
  BY <1>1, <1>2, <1>4, SumDrop
<1>6. SumOver(F, T) = SumOver(G, T)
  BY <1>1, <1>3, SumSame
<1>7. QED
  BY <1>5, <1>6 DEF T

LEMMA LoadSums ==
  ASSUME NEW ls \in Legs
  PROVE  /\ CoveredShares(ls) = SumOver(CallLoad(ls), Code)
         /\ PutAssignmentShares(ls) = SumOver(PutLoad(ls), Code)
         /\ PutAssignmentCash(ls) = SumOver(PutCash(ls), Code)
<1>1. \A c \in Code :
        /\ LegShares(ls)[c] \in Int /\ (ls[c].n = 0 => LegShares(ls)[c] = 0)
        /\ LegCash(ls)[c] \in Int /\ (ls[c].n = 0 => LegCash(ls)[c] = 0)
  BY LoadTypes DEF LegShares, LegCash
<1>2. \A c \in Code :
        /\ CallLoad(ls)[c] = IF Kind[c] = "call" THEN LegShares(ls)[c] ELSE 0
        /\ PutLoad(ls)[c] = IF Kind[c] = "put" THEN LegShares(ls)[c] ELSE 0
        /\ PutCash(ls)[c] = IF Kind[c] = "put" THEN LegCash(ls)[c] ELSE 0
  BY DEF CallLoad, PutLoad, PutCash, LegShares, LegCash
<1>3. SumOver(LegShares(ls), Short(ls, "call")) = SumOver(CallLoad(ls), Code)
  BY <1>1, <1>2, ShortSum
<1>4. SumOver(LegShares(ls), Short(ls, "put")) = SumOver(PutLoad(ls), Code)
  BY <1>1, <1>2, ShortSum
<1>5. SumOver(LegCash(ls), Short(ls, "put")) = SumOver(PutCash(ls), Code)
  BY <1>1, <1>2, ShortSum
<1>6. QED
  BY <1>3, <1>4, <1>5 DEF CoveredShares, PutAssignmentShares, PutAssignmentCash

CallShares(ls) == SumOver(CallLoad(ls), Code)
PutShares(ls) == SumOver(PutLoad(ls), Code)
PutStrikes(ls) == SumOver(PutCash(ls), Code)

\* Only the numbers of contracts count.
LEMMA LoadsKept ==
  ASSUME NEW ls, NEW ms, \A c \in Code : ms[c].n = ls[c].n
  PROVE  /\ CallShares(ms) = CallShares(ls)
         /\ PutShares(ms) = PutShares(ls)
         /\ PutStrikes(ms) = PutStrikes(ls)
<1>1. CallLoad(ms) = CallLoad(ls) /\ PutLoad(ms) = PutLoad(ls) /\ PutCash(ms) = PutCash(ls)
  BY DEF CallLoad, PutLoad, PutCash
<1>2. QED
  BY <1>1 DEF CallShares, PutShares, PutStrikes

\* A leg that changes moves the sums of its kind, and no other.
LEMMA LoadsMoved ==
  ASSUME NEW ls \in Legs, NEW ms \in Legs, NEW c \in Code,
         \A d \in Code \ {c} : ms[d].n = ls[d].n
  PROVE  /\ CallShares(ls) \in Int /\ PutShares(ls) \in Int /\ PutStrikes(ls) \in Int
         /\ CallShares(ms) \in Int /\ PutShares(ms) \in Int /\ PutStrikes(ms) \in Int
         /\ Kind[c] = "call" =>
              /\ CallShares(ms) = CallShares(ls) - ls[c].n * Lot + ms[c].n * Lot
              /\ PutShares(ms) = PutShares(ls)
              /\ PutStrikes(ms) = PutStrikes(ls)
         /\ Kind[c] = "put" =>
              /\ CallShares(ms) = CallShares(ls)
              /\ PutShares(ms) = PutShares(ls) - ls[c].n * Lot + ms[c].n * Lot
              /\ PutStrikes(ms) = PutStrikes(ls) - ls[c].n * Lot * Strike[c]
                                    + ms[c].n * Lot * Strike[c]
<1>1. IsFiniteSet(Code)
  BY ContractsAssumption
<1>2. /\ SumOver(CallLoad(ls), Code) \in Int /\ SumOver(CallLoad(ms), Code) \in Int
      /\ SumOver(CallLoad(ms), Code) =
           SumOver(CallLoad(ls), Code) - CallLoad(ls)[c] + CallLoad(ms)[c]
  <2>1. \A d \in Code : CallLoad(ls)[d] \in Int /\ CallLoad(ms)[d] \in Int
    BY LoadTypes
  <2>2. \A d \in Code \ {c} : CallLoad(ms)[d] = CallLoad(ls)[d]
    BY DEF CallLoad
  <2>3. QED
    BY <1>1, <2>1, <2>2, SumChange
<1>3. /\ SumOver(PutLoad(ls), Code) \in Int /\ SumOver(PutLoad(ms), Code) \in Int
      /\ SumOver(PutLoad(ms), Code) =
           SumOver(PutLoad(ls), Code) - PutLoad(ls)[c] + PutLoad(ms)[c]
  <2>1. \A d \in Code : PutLoad(ls)[d] \in Int /\ PutLoad(ms)[d] \in Int
    BY LoadTypes
  <2>2. \A d \in Code \ {c} : PutLoad(ms)[d] = PutLoad(ls)[d]
    BY DEF PutLoad
  <2>3. QED
    BY <1>1, <2>1, <2>2, SumChange
<1>4. /\ SumOver(PutCash(ls), Code) \in Int /\ SumOver(PutCash(ms), Code) \in Int
      /\ SumOver(PutCash(ms), Code) =
           SumOver(PutCash(ls), Code) - PutCash(ls)[c] + PutCash(ms)[c]
  <2>1. \A d \in Code : PutCash(ls)[d] \in Int /\ PutCash(ms)[d] \in Int
    BY LoadTypes
  <2>2. \A d \in Code \ {c} : PutCash(ms)[d] = PutCash(ls)[d]
    BY DEF PutCash
  <2>3. QED
    BY <1>1, <2>1, <2>2, SumChange
<1>5. ASSUME NEW xs \in {ls, ms}
      PROVE  /\ CallLoad(xs)[c] = IF Kind[c] = "call" THEN xs[c].n * Lot ELSE 0
             /\ PutLoad(xs)[c] = IF Kind[c] = "put" THEN xs[c].n * Lot ELSE 0
             /\ PutCash(xs)[c] = IF Kind[c] = "put" THEN xs[c].n * Lot * Strike[c] ELSE 0
  BY DEF CallLoad, PutLoad, PutCash
<1>6. "call" # "put"
  OBVIOUS
<1>7. CASE Kind[c] = "call"
  BY <1>2, <1>3, <1>4, <1>5, <1>6, <1>7 DEF CallShares, PutShares, PutStrikes
<1>8. CASE Kind[c] = "put"
  BY <1>2, <1>3, <1>4, <1>5, <1>6, <1>8 DEF CallShares, PutShares, PutStrikes
<1>9. CASE Kind[c] \notin {"call", "put"}
  BY <1>2, <1>3, <1>4, <1>9 DEF CallShares, PutShares, PutStrikes
<1>10. QED
  BY <1>7, <1>8, <1>9

\* LegsAreCovered in these terms.
Cover ==
  ~stockTraded =>
    /\ CallShares(legs) <= position
    /\ position + PutShares(legs) <= cfg.maxInventory
    /\ cash + fees + optionCloseCost >= PutStrikes(legs)

LEMMA CoverIs == ASSUME legs \in Legs PROVE LegsAreCovered <=> Cover
<1>1. /\ CoveredShares(legs) = CallShares(legs)
      /\ PutAssignmentShares(legs) = PutShares(legs)
  BY LoadSums DEF CallShares, PutShares
<1>2. LegsAreCovered <=>
        (~stockTraded =>
           /\ CoveredShares(legs) <= position
           /\ position + PutAssignmentShares(legs) <= cfg.maxInventory
           /\ cash + fees + optionCloseCost >= PutStrikes(legs))
  BY DEF LegsAreCovered, SharesCommitted, PutsSecured, PutStrikes, PutCash
<1>3. QED
  BY <1>1, <1>2 DEF Cover

-----------------------------------------------------------------------------
(* Cover.                                                                  *)

\* The same contracts as before, marked or not.
SameContracts(ls) == \A c \in Code : ls[c].n = legs[c].n

\* An alert names a contract that passed the affordability tests of its kind.
LEMMA AlertIsAffordable ==
  ASSUME NEW k, NEW in, NEW c, Evaluate(k, in) = Alert(c)
  PROVE  Affordable(k, in, Kind[c], c)
<1> DEFINE kind == Direction(k, in)
           chosen == Chosen(k, in, kind)
           picked == CHOOSE x \in chosen : TRUE
<1>1. Alert(c).act = "alert" /\ Alert(c).code = c
  BY DEF Alert
<1>2. Hold.act # "alert" /\ Switch(k, in).act # "alert"
  BY DEF Hold, Switch, StockSuggestion
<1>3. \A d : CloseAlert(d).act # "alert"
  BY DEF CloseAlert
<1>4. chosen # {} /\ Evaluate(k, in) = Alert(picked)
  BY <1>1, <1>2, <1>3 DEF Evaluate
<1>5. Alert(picked).code = picked
  BY DEF Alert
<1>6. picked = c
  BY <1>1, <1>4, <1>5
<1>7. picked \in chosen
  BY <1>4
<1>8. c \in Accepted(k, in, kind)
  BY <1>6, <1>7 DEF Chosen
<1>9. Kind[c] = kind /\ Affordable(k, in, kind, c)
  BY <1>8 DEF Accepted, Eligible
<1>10. QED
  BY <1>9

LEMMA CoverTypes ==
  ASSUME BooksAreSound
  PROVE  /\ legs \in Legs /\ cfg.maxInventory \in Int
         /\ cash \in Int /\ position \in Int /\ fees \in Nat /\ optionCloseCost \in Nat
         /\ Lot \in Nat \ {0} /\ OptionFee \in Nat
BY SessionAssumption, ContractsAssumption DEF BooksAreSound, TypeOK, Legs

LEMMA NoTradeCovers ==
  ASSUME Cover, cfg' = cfg, NEW held, SameContracts(held), NEW next, NoTrade(held, next)
  PROVE  Cover'
<1>1. /\ legs' = held
      /\ UNCHANGED <<cash, position, optionCloseCost, fees, stockTraded>>
  BY DEF NoTrade, ledger, history
<1>2. /\ CallShares(held) = CallShares(legs) /\ PutShares(held) = PutShares(legs)
      /\ PutStrikes(held) = PutStrikes(legs)
  BY LoadsKept DEF SameContracts
<1>3. QED
  BY <1>1, <1>2 DEF Cover

LEMMA CloseLegCovers ==
  ASSUME BooksAreSound, Cover, cfg' = cfg, NEW held \in Legs, SameContracts(held),
         NEW c \in Code, CloseLeg(held, c)
  PROVE  Cover'
<1> DEFINE cost == held[c].n * held[c].mark * Lot
           fee == held[c].n * OptionFee
           rest == [held EXCEPT ![c] = NoLeg]
<1>1. CASE Skip(held) \/ Refuse(held)
  BY <1>1, NoTradeCovers DEF Skip, Refuse
<1>2. CASE ~(Skip(held) \/ Refuse(held))
  <2>1. /\ legs' = rest /\ cash' = cash - cost - fee
        /\ optionCloseCost' = optionCloseCost + cost /\ fees' = fees + fee
        /\ UNCHANGED <<position, stockTraded>>
    BY <1>2 DEF CloseLeg, history
  <2>2. cost \in Nat /\ fee \in Nat
    <3>1. held[c].n \in Nat /\ held[c].mark \in Nat
      BY DEF Legs
    <3>2. QED
      BY <3>1, CoverTypes
  <2>3. rest \in Legs /\ rest[c].n = 0 /\ \A d \in Code \ {c} : rest[d].n = held[d].n
    BY NoLegType DEF Legs, NoLeg
  <2>4. /\ CallShares(held) = CallShares(legs) /\ PutShares(held) = PutShares(legs)
        /\ PutStrikes(held) = PutStrikes(legs)
    BY LoadsKept DEF SameContracts
  <2> HIDE DEF cost, fee, rest
  <2>5. PICK x \in Nat, y \in Nat : x = held[c].n * Lot /\ y = held[c].n * Lot * Strike[c]
    BY LoadTypes
  <2>6. rest[c].n * Lot = 0 /\ rest[c].n * Lot * Strike[c] = 0
    BY <2>3, LoadTypes
  <2>7. /\ CallShares(legs) \in Int /\ PutShares(legs) \in Int /\ PutStrikes(legs) \in Int
        /\ CallShares(rest) \in Int /\ PutShares(rest) \in Int /\ PutStrikes(rest) \in Int
        /\ CallShares(rest) <= CallShares(legs)
        /\ PutShares(rest) <= PutShares(legs)
        /\ PutStrikes(rest) <= PutStrikes(legs)
    <3>1. Kind[c] \in {"call", "put"}
      BY ContractsAssumption
    <3>2. CASE Kind[c] = "call"
      BY <2>3, <2>4, <2>5, <2>6, <3>2, LoadsMoved
    <3>3. CASE Kind[c] = "put"
      BY <2>3, <2>4, <2>5, <2>6, <3>3, LoadsMoved
    <3>4. QED
      BY <3>1, <3>2, <3>3
  <2>8. cash' + fees' + optionCloseCost' = cash + fees + optionCloseCost
    BY <2>1, <2>2, CoverTypes
  <2>9. QED
    BY <2>1, <2>7, <2>8, CoverTypes DEF Cover
<1>3. QED
  BY <1>1, <1>2

LEMMA SellOptionCovers ==
  ASSUME BooksAreSound, Cover, cfg' = cfg, NEW held \in Legs, SameContracts(held),
         NEW b \in Batches, NEW c \in Code \cap DOMAIN b.quotes, NEW close,
         Affordable(cfg, Input(b), Kind[c], c), SellOption(held, c, b.quotes[c], close)
  PROVE  Cover'
<1> DEFINE q == b.quotes[c]
           opened == [held EXCEPT ![c] = [n |-> held[c].n + 1,
                                          credit |-> held[c].credit + q.bid,
                                          delta |-> q.delta, mark |-> q.bid]]
           net == q.bid * Lot - OptionFee
<1>1. CASE Skip(held) \/ Refuse(held)
  BY <1>1, NoTradeCovers DEF Skip, Refuse
<1>2. CASE ~(Skip(held) \/ Refuse(held))
  <2>1. /\ ~(Kind[c] = "put" /\ cash + net < PutAssignmentCash(held) + Lot * Strike[c])
        /\ legs' = opened /\ cash' = cash + net /\ fees' = fees + OptionFee
        /\ UNCHANGED <<position, optionCloseCost, stockTraded>>
    BY <1>2 DEF SellOption
  <2>2. q.bid \in Nat /\ q.delta \in Int
    BY SessionAssumption
  <2>3. opened \in Legs /\ opened[c].n = held[c].n + 1
        /\ \A d \in Code \ {c} : opened[d].n = held[d].n
    BY <2>2 DEF Legs
  <2>4. /\ CallShares(held) = CallShares(legs) /\ PutShares(held) = PutShares(legs)
        /\ PutStrikes(held) = PutStrikes(legs)
    BY LoadsKept DEF SameContracts
  <2>5. PutAssignmentCash(held) = PutStrikes(legs)
    BY <2>4, LoadSums DEF PutStrikes
  <2>6. /\ CoveredShares(legs) = CallShares(legs)
        /\ PutAssignmentShares(legs) = PutShares(legs)
    BY CoverTypes, LoadSums DEF CallShares, PutShares
  <2>7. net \in Int /\ net + OptionFee \in Nat
    <3>1. PICK x \in Nat : x = q.bid * Lot
      BY <2>2, CoverTypes
    <3>2. QED
      BY <3>1, CoverTypes
  <2> HIDE DEF opened, net
  <2>8. PICK n \in Nat, lot \in Nat, k \in Nat : n = held[c].n /\ lot = Lot /\ k = Strike[c]
    BY LoadTypes
  <2>9. opened[c].n * Lot = held[c].n * Lot + Lot
    BY <2>3, <2>8
  <2>10. opened[c].n * Lot * Strike[c] = held[c].n * Lot * Strike[c] + Lot * Strike[c]
    <3>1. (n * lot + lot) * k = n * lot * k + lot * k
      BY <2>8
    <3>2. QED
      BY <2>8, <2>9, <3>1
  <2>11. PICK x \in Nat, y \in Nat, z \in Nat :
           x = held[c].n * Lot /\ y = held[c].n * Lot * Strike[c] /\ z = Lot * Strike[c]
    BY LoadTypes
  <2>12. CASE Kind[c] = "call"
    <3>1. position - CallShares(legs) - Lot >= 0
      BY <2>6, <2>12 DEF Affordable, Input
    <3>2. /\ CallShares(legs) \in Int /\ PutShares(legs) \in Int /\ PutStrikes(legs) \in Int
          /\ CallShares(opened) = CallShares(legs) + Lot
          /\ PutShares(opened) = PutShares(legs)
          /\ PutStrikes(opened) = PutStrikes(legs)
      BY <2>3, <2>4, <2>9, <2>11, <2>12, LoadsMoved, CoverTypes
    <3>3. cash' + fees' + optionCloseCost' >= cash + fees + optionCloseCost
      BY <2>1, <2>7, CoverTypes
    <3>4. cash' \in Int /\ fees' \in Int /\ optionCloseCost' \in Int
      BY <2>1, <2>7, CoverTypes
    <3>5. QED
      BY <2>1, <3>1, <3>2, <3>3, <3>4, CoverTypes DEF Cover
  <2>13. CASE Kind[c] = "put"
    <3>1. position + PutShares(legs) + Lot <= cfg.maxInventory
      BY <2>6, <2>13 DEF Affordable, Input
    <3>2. /\ CallShares(legs) \in Int /\ PutShares(legs) \in Int /\ PutStrikes(legs) \in Int
          /\ CallShares(opened) = CallShares(legs)
          /\ PutShares(opened) = PutShares(legs) + Lot
          /\ PutStrikes(opened) = PutStrikes(legs) + z
      BY <2>3, <2>4, <2>9, <2>10, <2>11, <2>13, LoadsMoved, CoverTypes
    <3>3. cash + net >= PutStrikes(legs) + z
      BY <2>1, <2>5, <2>7, <2>11, <2>13, <3>2, CoverTypes
    <3>4. cash' + fees' + optionCloseCost' >= PutStrikes(opened)
      BY <2>1, <2>7, <3>2, <3>3, CoverTypes
    <3>5. QED
      BY <2>1, <3>1, <3>2, <3>4, CoverTypes DEF Cover
  <2>14. QED
    BY <2>12, <2>13, ContractsAssumption
<1>3. QED
  BY <1>1, <1>2

LEMMA BarCovers ==
  ASSUME BooksAreSound, Cover, NEW close \in Prices, NEW b \in Batches \cup {NoBatch},
         Bar(close, b)
  PROVE  Cover'
<1>1. cfg' = cfg /\ legs \in Legs
  BY CoverTypes DEF Bar
<1>2. CASE b = NoBatch /\ Skip(legs)
  BY <1>1, <1>2, NoTradeCovers DEF Skip, SameContracts
<1>3. CASE b # NoBatch /\ Settle(Marked(legs, b), Evaluate(cfg, Input(b)), b, close)
  <2> DEFINE held == Marked(legs, b)
             sig == Evaluate(cfg, Input(b))
  <2>1. b \in Batches /\ held \in Legs
    BY <1>1, <1>3, MarkedType
  <2>2. SameContracts(held)
    BY <1>1 DEF SameContracts, Marked, Legs
  <2> HIDE DEF held
  <2>3. ASSUME NEW next, NoTrade(held, next) PROVE Cover'
    BY <1>1, <2>2, <2>3, NoTradeCovers
  <2>4. CASE Skip(held) \/ Refuse(held)
    BY <2>3, <2>4 DEF Skip, Refuse
  <2>5. ASSUME NEW size, BuyStock(held, size, close) \/ SellStock(held, size, close)
        PROVE  Cover'
    <3>1. Skip(held) \/ Refuse(held) \/ stockTraded' = TRUE
      BY <2>5 DEF BuyStock, SellStock
    <3>2. QED
      BY <2>4, <3>1 DEF Cover
  <2>6. ASSUME NEW c \in Code \cap DOMAIN b.quotes, CloseLeg(held, c) PROVE Cover'
    BY <1>1, <2>1, <2>2, <2>6, CloseLegCovers
  <2>7. ASSUME NEW c \in Code \cap DOMAIN b.quotes, sig = Alert(c),
               SellOption(held, c, b.quotes[c], close)
        PROVE  Cover'
    <3>1. Affordable(cfg, Input(b), Kind[c], c)
      BY <2>7, AlertIsAffordable
    <3>2. QED
      BY <1>1, <2>1, <2>2, <2>7, <3>1, SellOptionCovers
  <2>8. Settle(held, sig, b, close)
    BY <1>3 DEF held
  <2> HIDE DEF sig
  <2>9. QED
    BY <2>4, <2>5, <2>6, <2>7, <2>8 DEF Settle
<1>4. QED
  BY <1>2, <1>3 DEF Bar

\* A call that is assigned takes shares that were there for it, so nothing is
\* bought in; a put that is assigned takes in what room and cash were kept for.
LEMMA ExpireCovers ==
  ASSUME BooksAreSound, Cover, Expire
  PROVE  Cover'
<1>1. PICK c \in Due(legs, now) :
        /\ \/ Kind[c] = "call" /\ DeliverCall(c)
           \/ Kind[c] = "put" /\ ReceivePut(c)
           \/ UNCHANGED <<cash, position, basis, stockRealizedPnL, fees>>
        /\ legs' = [legs EXCEPT ![c] = NoLeg]
  BY DEF Expire
<1>2. UNCHANGED <<cfg, optionCloseCost, stockTraded>>
  BY DEF Expire, history
<1>3. c \in Code
  BY <1>1 DEF Due
<1> DEFINE rest == [legs EXCEPT ![c] = NoLeg]
<1>4. rest \in Legs /\ rest[c].n = 0 /\ \A d \in Code \ {c} : rest[d].n = legs[d].n
  BY <1>3, CoverTypes, NoLegType DEF Legs, NoLeg
<1> HIDE DEF rest
<1>5. legs' = rest
  BY <1>1 DEF rest
<1>6. PICK size \in Nat, paid \in Nat : size = legs[c].n * Lot /\ paid = legs[c].n * Lot * Strike[c]
  BY <1>3, CoverTypes, LoadTypes
<1>7. rest[c].n * Lot = 0 /\ rest[c].n * Lot * Strike[c] = 0
  BY <1>3, <1>4, LoadTypes
<1>8. /\ CallShares(legs) \in Int /\ PutShares(legs) \in Int /\ PutStrikes(legs) \in Int
      /\ Kind[c] = "call" =>
           /\ CallShares(rest) = CallShares(legs) - size
           /\ PutShares(rest) = PutShares(legs)
           /\ PutStrikes(rest) = PutStrikes(legs)
      /\ Kind[c] = "put" =>
           /\ CallShares(rest) = CallShares(legs)
           /\ PutShares(rest) = PutShares(legs) - size
           /\ PutStrikes(rest) = PutStrikes(legs) - paid
  BY <1>3, <1>4, <1>6, <1>7, CoverTypes, LoadsMoved
<1>9. CallShares(rest) \in Nat
  <2>1. \A d \in Code : CallLoad(rest)[d] \in Nat
    BY <1>4, LoadTypes DEF CallLoad
  <2>2. QED
    BY <2>1, SumNat, ContractsAssumption DEF CallShares
<1>10. CASE stockTraded
  BY <1>2, <1>10 DEF Cover
<1>11. CASE ~stockTraded
  <2>1. /\ CallShares(legs) <= position
        /\ position + PutShares(legs) <= cfg.maxInventory
        /\ cash + fees + optionCloseCost >= PutStrikes(legs)
    BY <1>11 DEF Cover
  <2>2. CASE UNCHANGED <<cash, position, basis, stockRealizedPnL, fees>>
    <3>1. /\ CallShares(rest) <= CallShares(legs) /\ PutShares(rest) <= PutShares(legs)
          /\ PutStrikes(rest) <= PutStrikes(legs)
          /\ CallShares(rest) \in Int /\ PutShares(rest) \in Int /\ PutStrikes(rest) \in Int
      BY <1>3, <1>6, <1>8, ContractsAssumption
    <3>2. QED
      BY <1>2, <1>5, <1>8, <2>1, <2>2, <3>1, CoverTypes DEF Cover
  <2>3. CASE Kind[c] = "call" /\ DeliverCall(c)
    <3>1. size <= position
      BY <1>8, <1>9, <2>1, <2>3, CoverTypes
    <3>2. PICK fee \in Nat :
            /\ fee = StockLotsFee(size)
            /\ StockLotsFee(0) \in Nat
      BY LotsFeeType
    <3>3. /\ position' = position - size
          /\ cash' = cash + paid - (StockLotsFee(0) + fee)
          /\ fees' = fees + (StockLotsFee(0) + fee)
      <4> DEFINE gap == IF size > position THEN size - position ELSE 0
      <4>1. gap = 0
        BY <3>1, CoverTypes
      <4>2. /\ cash' = cash - gap * price + size * Strike[c] - (StockLotsFee(gap) + fee)
            /\ position' = position + gap - size
            /\ fees' = fees + (StockLotsFee(gap) + fee)
        BY <1>6, <2>3, <3>2 DEF DeliverCall
      <4> HIDE DEF gap
      <4>3. price \in Nat
        BY DEF BooksAreSound, TypeOK
      <4>4. gap * price = 0
        BY <4>1, <4>3
      <4>5. size * Strike[c] = paid
        BY <1>6
      <4>6. QED
        BY <4>1, <4>2, <4>4, <4>5, CoverTypes
    <3>4. cash' + fees' + optionCloseCost' >= cash + fees + optionCloseCost
      BY <1>2, <3>2, <3>3, CoverTypes
    <3>5. cash' + fees' + optionCloseCost' \in Int
      BY <1>2, <3>2, <3>3, CoverTypes
    <3>6. QED
      BY <1>2, <1>5, <1>6, <1>8, <2>1, <2>3, <3>3, <3>4, <3>5, CoverTypes DEF Cover
  <2>4. CASE Kind[c] = "put" /\ ReceivePut(c)
    <3>1. PICK fee \in Nat : fee = StockLotsFee(size)
      BY LotsFeeType
    <3>2. /\ position' = position + size
          /\ cash' = cash - paid - fee
          /\ fees' = fees + fee
      BY <1>6, <2>4, <3>1 DEF ReceivePut
    <3>3. cash' + fees' + optionCloseCost' = cash + fees + optionCloseCost - paid
      BY <1>2, <1>6, <3>1, <3>2, CoverTypes
    <3>4. QED
      BY <1>2, <1>5, <1>6, <1>8, <2>1, <2>4, <3>2, <3>3, CoverTypes DEF Cover
  <2>5. QED
    BY <1>1, <2>2, <2>3, <2>4
<1>12. QED
  BY <1>10, <1>11

\* Until a stock order is filled, every call is covered by shares, the assignment
\* of every put stays within max_inventory, and the account can pay for it but for
\* fees and buybacks (Evaluate, settleOptionTrade and settleExpired).
THEOREM CoverHolds == Spec => []LegsAreCovered
<1>1. ASSUME Init PROVE Cover
  <2>1. \A c \in Code : legs[c].n = 0
    BY <1>1 DEF Init, NoLeg
  <2>2. BooksAreSound
    BY <1>1, InitSound
  <2>3. \A c \in Code :
          CallLoad(legs)[c] = 0 /\ PutLoad(legs)[c] = 0 /\ PutCash(legs)[c] = 0
    BY <2>1, <2>2, CoverTypes, LoadTypes DEF CallLoad, PutLoad, PutCash
  <2>4. /\ CallShares(legs) = 0 /\ PutShares(legs) = 0 /\ PutStrikes(legs) = 0
    <3>1. ASSUME NEW F, \A c \in Code : F[c] = 0 PROVE SumOver(F, Code) = 0
      <4>1. IsFiniteSet(Code) /\ {} \in SUBSET Code /\ \A c \in Code : F[c] \in Int
        BY <3>1, ContractsAssumption
      <4>2. SumOver(F, Code) = SumOver(F, {})
        BY <3>1, <4>1, SumDrop
      <4>3. QED
        BY <4>2, SumEmpty
    <3>2. QED
      BY <2>3, <3>1 DEF CallShares, PutShares, PutStrikes
  <2>5. cfg.maxInventory \in Nat /\ InitialCash \in Nat
    BY <1>1, SessionAssumption DEF Init
  <2>6. QED
    BY <1>1, <2>4, <2>5 DEF Init, Cover
<1>2. ASSUME BooksAreSound, Cover, [Next]_vars PROVE Cover'
  <2>1. CASE \E close \in Prices, b \in Batches \cup {NoBatch} : Bar(close, b)
    BY <1>2, <2>1, BarCovers
  <2>2. CASE Expire
    BY <1>2, <2>2, ExpireCovers
  <2>3. CASE UNCHANGED vars
    BY <1>2, <2>3 DEF vars, portfolio, ledger, history, Cover
  <2>4. QED
    BY <1>2, <2>1, <2>2, <2>3 DEF Next, Finished
<1>3. BooksAreSound /\ Cover => LegsAreCovered
  BY CoverTypes, CoverIs
<1>4. QED
  BY Inductive, <1>1, <1>2, <1>3, PTL DEF Spec
=============================================================================
