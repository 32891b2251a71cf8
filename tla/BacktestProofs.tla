--------------------------- MODULE BacktestProofs ---------------------------
(***************************************************************************)
(* The account of a backtest, for every history, strategy, capital and     *)
(* cost rate: it is never overdrawn, its books balance, it finances itself *)
(* and it does not carry a position past its stop.                         *)
(***************************************************************************)
EXTENDS Backtest, TLAPS

(* What \div gives back, multiplied again, is no more than there was. *)
LEMMA FloorFits ==
  ASSUME NEW a \in Nat, NEW b \in Nat, b > 0
  PROVE  a \div b \in Nat /\ b * (a \div b) <= a
OBVIOUS

(* A product of natural numbers is one: the only place where the prover is *)
(* asked for it.                                                           *)
LEMMA ProductNat ==
  ASSUME NEW a \in Nat, NEW b \in Nat
  PROVE  a * b \in Nat
OBVIOUS

(* Factors of the same product. *)
LEMMA FactorsOrder ==
  ASSUME NEW a \in Nat, NEW b \in Nat, NEW d \in Nat, d > 0, d * a <= d * b
  PROVE  a <= b
OBVIOUS

(* Scaling keeps an order between natural numbers. *)
LEMMA ScaledOrder ==
  ASSUME NEW a \in Nat, NEW b \in Nat, NEW d \in Nat, a <= b
  PROVE  d * a <= d * b /\ a * d <= b * d
OBVIOUS

(* A cost is a part of the value it is charged on. *)
LEMMA CostFits ==
  ASSUME NEW value \in Nat
  PROVE  /\ CostOf(value) \in Nat
         /\ CostOf(value) <= value
         /\ CostDen * CostOf(value) <= value * CostNum
<1> USE MoneyAssumption, CostAssumption
<1>1. value * CostNum \in Nat
  BY ProductNat
<1>2. /\ CostOf(value) \in Nat
      /\ CostDen * CostOf(value) <= value * CostNum
  BY <1>1, FloorFits DEF CostOf
<1>3. value * CostNum <= value * CostDen
  BY ScaledOrder
<1>4. CostDen * CostOf(value) <= CostDen * value
  BY <1>1, <1>2, <1>3, ProductNat
<1>5. CostOf(value) <= value
  BY <1>2, <1>4, FactorsOrder
<1> QED
  BY <1>2, <1>5

(* What may be spent is a part of the cash. *)
LEMMA DeployableFits ==
  ASSUME strategy \in Strategies, NEW cash \in Nat
  PROVE  Deployable(cash) \in Nat /\ Deployable(cash) <= cash
<1>1. SizePct \in Nat /\ SizePct <= 100
  BY StrategyAssumption DEF SizePct
<1>2. cash * SizePct \in Nat
  BY <1>1, ProductNat
<1>3. Deployable(cash) \in Nat /\ 100 * Deployable(cash) <= cash * SizePct
  BY <1>2, FloorFits DEF Deployable
<1>4. cash * SizePct <= cash * 100
  BY <1>1, ScaledOrder
<1> QED
  BY <1>2, <1>3, <1>4

(* Shares and the cost of buying them fit into the amount meant for them. *)
LEMMA PurchaseFits ==
  ASSUME NEW amount \in Nat, NEW close \in Nat, NEW rate \in Nat
  PROVE  /\ Bought(amount, close, rate) \in Nat
         /\ (CostDen + rate) * (Bought(amount, close, rate) * close) <= amount * CostDen
<1> DEFINE shares == Bought(amount, close, rate)
<1> USE MoneyAssumption
<1>1. CASE close > 0
  <2>1. close * (CostDen + rate) \in Nat /\ close * (CostDen + rate) > 0
    <3>1. CostDen + rate >= 1
      OBVIOUS
    <3>2. close * (CostDen + rate) >= close * 1
      BY <3>1, ScaledOrder
    <3> QED
      BY <1>1, <3>2, ProductNat
  <2>2. amount * CostDen \in Nat
    BY ProductNat
  <2>3. /\ shares \in Nat
        /\ (close * (CostDen + rate)) * shares <= amount * CostDen
    BY <1>1, <2>1, <2>2, FloorFits DEF Bought
  <2> QED
    BY <2>3, ProductNat
<1>2. CASE ~ (close > 0)
  <2>1. shares = 0
    BY <1>2 DEF Bought
  <2> QED
    BY <2>1, ProductNat
<1> QED
  BY <1>1, <1>2

(* What is bought under costs, and the cost of buying it, is paid from the *)
(* amount at hand (int(cash / (close * (1 + cost_rate)))).                 *)
LEMMA NetPurchaseFits ==
  ASSUME NEW amount \in Nat, NEW close \in Nat
  PROVE  LET value == Bought(amount, close, CostNum) * close
         IN value \in Nat /\ value + CostOf(value) <= amount
<1> DEFINE value == Bought(amount, close, CostNum) * close
<1> USE MoneyAssumption
<1>1. value \in Nat /\ (CostDen + CostNum) * value <= amount * CostDen
  BY PurchaseFits, ProductNat
<1>2. CostOf(value) \in Nat /\ CostDen * CostOf(value) <= value * CostNum
  BY <1>1, CostFits
<1> HIDE DEF value
<1>3. CostDen * (value + CostOf(value)) <= CostDen * amount
  <2>1. CostDen * (value + CostOf(value)) = CostDen * value + CostDen * CostOf(value)
    BY <1>1, <1>2
  <2>2. (CostDen + CostNum) * value = CostDen * value + value * CostNum
    BY <1>1
  <2> QED
    BY <1>1, <1>2, <2>1, <2>2, ProductNat
<1>4. value + CostOf(value) <= amount
  BY <1>1, <1>2, <1>3, FactorsOrder
<1> QED
  BY <1>1, <1>4 DEF value

(* What the account without costs buys is paid from its amount. *)
LEMMA GrossPurchaseFits ==
  ASSUME NEW amount \in Nat, NEW close \in Nat
  PROVE  LET value == Bought(amount, close, 0) * close
         IN value \in Nat /\ value <= amount
<1> DEFINE value == Bought(amount, close, 0) * close
<1> USE MoneyAssumption
<1>1. value \in Nat /\ (CostDen + 0) * value <= amount * CostDen
  BY PurchaseFits, ProductNat
<1> HIDE DEF value
<1>2. CostDen * value <= CostDen * amount
  BY <1>1
<1>3. value <= amount
  BY <1>1, <1>2, FactorsOrder
<1> QED
  BY <1>1, <1>3 DEF value

-----------------------------------------------------------------------------
(* What the three kinds of row do to the account. *)

(* The price of a stored row. *)
LEMMA CloseNat ==
  ASSUME history \in Seq(Row), NEW d \in 1..Len(history)
  PROVE  Close(d) \in Nat
BY RowAssumption DEF Close

(* The books before and after, in numbers: a purchase moves cash into shares *)
(* and fees, a sale turns shares into cash, profit and fees.                 *)
LEMMA PurchaseBalances ==
  ASSUME NEW cash \in Nat, NEW value \in Nat, NEW cost \in Nat,
         NEW pnl \in Int, NEW fees \in Nat, cash = Capital + pnl - fees
  PROVE  (cash - (value + cost)) + value = Capital + pnl - (fees + cost)
BY MoneyAssumption

(* What is left after a smaller amount is taken is a natural number. *)
LEMMA Remainder ==
  ASSUME NEW a \in Nat, NEW b \in Nat, NEW d \in Nat, b <= d, d <= a
  PROVE  a - b \in Nat
OBVIOUS

(* A purchase fits the cash, and afterwards the account is worth the       *)
(* capital with the booked profit less the fees: the price paid stays in   *)
(* the shares.                                                             *)
LEMMA BuyKeepsBooks ==
  ASSUME AccountInv, Buy
  PROVE  /\ account' \in [cash : Nat, grossCash : Nat, shares : Nat, grossShares : Nat]
         /\ booked' \in [pnl : Int, fees : Nat]
         /\ entry' = [price |-> Close(day + 1), row |-> day + 1]
         /\ Close(day + 1) \in Nat
         /\ account'.cash + account'.shares * Close(day + 1) = Capital + booked'.pnl - booked'.fees
         /\ booked'.pnl = booked.pnl
<1> DEFINE close == Close(day + 1)
           shares == Bought(Deployable(account.cash), close, CostNum)
           gross == Bought(Deployable(account.grossCash), close, 0)
           cost == CostOf(shares * close)
<1>1. /\ account \in [cash : Nat, grossCash : Nat, shares : Nat, grossShares : Nat]
      /\ booked \in [pnl : Int, fees : Nat] /\ entry \in [price : Nat, row : Nat]
      /\ history \in Seq(Row) /\ strategy \in Strategies
      /\ day \in 0..Len(history) /\ BooksBalance
  BY DEF AccountInv, TypeOK
<1>2. /\ day < Len(history) /\ account.shares = 0
      /\ account' = [cash |-> account.cash - (shares * close + cost), shares |-> shares,
                     grossCash |-> account.grossCash - gross * close, grossShares |-> gross]
      /\ entry' = [price |-> close, row |-> day + 1]
      /\ booked' = [pnl |-> booked.pnl, fees |-> booked.fees + cost]
  BY DEF Buy, RowLeft
<1>3. close \in Nat
  BY <1>1, <1>2, CloseNat
<1>4. /\ Deployable(account.cash) \in Nat /\ Deployable(account.cash) <= account.cash
      /\ Deployable(account.grossCash) \in Nat
      /\ Deployable(account.grossCash) <= account.grossCash
  BY <1>1, DeployableFits
<1>5. /\ shares \in Nat /\ gross \in Nat
  BY <1>3, <1>4, PurchaseFits, MoneyAssumption
<1>6. /\ shares * close \in Nat /\ shares * close + cost <= Deployable(account.cash)
      /\ gross * close \in Nat /\ gross * close <= Deployable(account.grossCash)
  BY <1>3, <1>4, NetPurchaseFits, GrossPurchaseFits
<1>7. cost \in Nat
  BY <1>6, CostFits
<1>8. account.cash + account.shares * entry.price = Capital + booked.pnl - booked.fees
  BY <1>1 DEF BooksBalance
<1>9. account.cash = Capital + booked.pnl - booked.fees
  <2>1. account.shares * entry.price = 0
    BY <1>1, <1>2
  <2> QED
    BY <1>1, <1>8, <2>1
<1> HIDE DEF close, shares, gross, cost
<1>10. /\ account.cash - (shares * close + cost) \in Nat
       /\ account.grossCash - gross * close \in Nat
  <2>1. shares * close + cost \in Nat
    BY <1>6, <1>7
  <2>2. account.cash \in Nat /\ account.grossCash \in Nat
    BY <1>1
  <2>3. account.cash - (shares * close + cost) \in Nat
    BY <1>4, <1>6, <2>1, <2>2, Remainder
  <2>4. account.grossCash - gross * close \in Nat
    BY <1>4, <1>6, <2>2, Remainder
  <2> QED
    BY <2>3, <2>4
<1>11. account'.cash + account'.shares * close = Capital + booked'.pnl - booked'.fees
  <2>1. /\ account'.cash = account.cash - (shares * close + cost)
        /\ account'.shares = shares
        /\ booked'.pnl = booked.pnl /\ booked'.fees = booked.fees + cost
    BY <1>1, <1>2
  <2>2. account.cash \in Nat /\ booked.pnl \in Int /\ booked.fees \in Nat
    BY <1>1
  <2>3. (account.cash - (shares * close + cost)) + shares * close
          = Capital + booked.pnl - (booked.fees + cost)
    BY <1>6, <1>7, <1>9, <2>2, PurchaseBalances
  <2> QED
    BY <2>1, <2>3
<1>12. /\ account' \in [cash : Nat, grossCash : Nat, shares : Nat, grossShares : Nat]
       /\ booked' \in [pnl : Int, fees : Nat] /\ booked'.pnl = booked.pnl
  BY <1>1, <1>2, <1>5, <1>7, <1>10
<1> QED
  BY <1>2, <1>3, <1>11, <1>12 DEF close

(* A sale of all shares leaves cash that is the capital with the booked    *)
(* profit less the fees; only the fee of the sale is lost.                 *)
LEMMA SaleKeepsBooks ==
  ASSUME AccountInv, NEW close \in Nat, Sold(close)
  PROVE  /\ account' \in [cash : Nat, grossCash : Nat, shares : Nat, grossShares : Nat]
         /\ booked' \in [pnl : Int, fees : Nat]
         /\ account'.shares = 0
         /\ account'.cash = Capital + booked'.pnl - booked'.fees
         /\ account'.cash = (account.cash + account.shares * close) - (booked'.fees - booked.fees)
<1> DEFINE value == account.shares * close
           cost == CostOf(value)
<1>1. /\ account \in [cash : Nat, grossCash : Nat, shares : Nat, grossShares : Nat]
      /\ booked \in [pnl : Int, fees : Nat] /\ entry \in [price : Nat, row : Nat]
      /\ account.cash + account.shares * entry.price = Capital + booked.pnl - booked.fees
  BY DEF AccountInv, TypeOK, BooksBalance
<1>2. /\ account' = [cash |-> account.cash + (value - cost), shares |-> 0,
                     grossCash |-> account.grossCash + account.grossShares * close,
                     grossShares |-> 0]
      /\ booked' = [pnl |-> booked.pnl + (close - entry.price) * account.shares,
                    fees |-> booked.fees + cost]
  BY DEF Sold
<1>3. value \in Nat /\ account.grossShares * close \in Nat
  BY <1>1, ProductNat
<1>4. cost \in Nat /\ cost <= value
  BY <1>3, CostFits
<1> HIDE DEF cost
<1>5. account.cash + (value - cost)
        = Capital + (booked.pnl + (close - entry.price) * account.shares) - (booked.fees + cost)
  <2> DEFINE paid == account.shares * entry.price
  <2>1. (close - entry.price) * account.shares = value - paid
    BY <1>1
  <2>2. /\ account.cash \in Int /\ value \in Int /\ cost \in Int /\ paid \in Int
        /\ booked.pnl \in Int /\ booked.fees \in Int
    BY <1>1, <1>3, <1>4, ProductNat
  <2>3. account.cash + paid = Capital + booked.pnl - booked.fees
    BY <1>1
  <2> HIDE DEF value, paid
  <2>4. account.cash + (value - cost)
          = Capital + (booked.pnl + (value - paid)) - (booked.fees + cost)
    BY <2>2, <2>3, MoneyAssumption
  <2> QED
    BY <2>1, <2>4
<1>6. booked.pnl + (close - entry.price) * account.shares \in Int
  BY <1>1
<1> HIDE DEF value
<1>7. /\ account'.cash = account.cash + (value - cost) /\ account'.shares = 0
      /\ booked'.pnl = booked.pnl + (close - entry.price) * account.shares
      /\ booked'.fees = booked.fees + cost
  BY <1>2
<1>8. /\ account' \in [cash : Nat, grossCash : Nat, shares : Nat, grossShares : Nat]
      /\ booked' \in [pnl : Int, fees : Nat]
  BY <1>1, <1>2, <1>3, <1>4, <1>6
<1>9. account'.cash = (account.cash + value) - (booked'.fees - booked.fees)
  BY <1>1, <1>3, <1>4, <1>7
<1> QED
  BY <1>5, <1>7, <1>8, <1>9 DEF value

-----------------------------------------------------------------------------
(* The steps. *)

(* A backtest starts with its capital in cash and nothing booked. *)
LEMMA InitAccount == Init => AccountInv
<1> SUFFICES ASSUME Init PROVE AccountInv
  OBVIOUS
<1>1. PICK n \in 1..MaxRows : history \in [1..n -> Row]
  BY DEF Init
<1>2. history \in Seq(Row) /\ Len(history) \in Nat /\ from \in 1..Len(history)
  BY <1>1 DEF Init
<1>3. TypeOK
  BY <1>2, MoneyAssumption DEF Init, TypeOK
<1>4. BooksBalance
  BY MoneyAssumption DEF Init, BooksBalance
<1>5. StopHolds
  BY DEF Init, StopHolds
<1>6. ~ (day >= from)
  BY <1>2 DEF Init
<1> QED
  BY <1>3, <1>4, <1>5, <1>6 DEF AccountInv

(* An account is never worth less than nothing. *)
LEMMA WorthNat ==
  ASSUME NEW a \in [cash : Nat, grossCash : Nat, shares : Nat, grossShares : Nat],
         NEW close \in Nat
  PROVE  Worth(a, close) \in Nat
<1>1. a.cash \in Nat /\ a.shares \in Nat
  OBVIOUS
<1>2. a.shares * close \in Nat
  BY <1>1, ProductNat
<1> QED
  BY <1>1, <1>2 DEF Worth

(* What a row adds to the account's worth. *)
LEMMA RowMoves ==
  ASSUME AccountInv, Buy \/ Sell \/ Wait
  PROVE  /\ day' = day + 1 /\ day' \in 1..Len(history)
         /\ UNCHANGED <<history, strategy, from, phase>>
         /\ Close(day + 1) \in Nat
         /\ account' \in [cash : Nat, grossCash : Nat, shares : Nat, grossShares : Nat]
         /\ booked' \in [pnl : Int, fees : Nat]
         /\ entry' \in [price : Nat, row : Nat]
         /\ account'.cash + account'.shares * entry'.price
              = Capital + booked'.pnl - booked'.fees
         /\ equity' = Worth(account', Close(day + 1))
         /\ equity' = Worth(account, Close(day + 1)) - (booked'.fees - booked.fees)
<1>0. /\ account \in [cash : Nat, grossCash : Nat, shares : Nat, grossShares : Nat]
      /\ booked \in [pnl : Int, fees : Nat] /\ entry \in [price : Nat, row : Nat]
      /\ history \in Seq(Row) /\ day \in 0..Len(history) /\ BooksBalance
  BY DEF AccountInv, TypeOK
<1>1. /\ day < Len(history) /\ day' = day + 1
      /\ UNCHANGED <<history, strategy, from, phase>>
      /\ equity' = Worth(account', Close(day + 1))
  BY DEF Buy, Sell, Wait, RowLeft, NextRow
<1>2. day' \in 1..Len(history) /\ Close(day + 1) \in Nat
  BY <1>0, <1>1, CloseNat
<1>3. CASE Buy
  <2>1. /\ account' \in [cash : Nat, grossCash : Nat, shares : Nat, grossShares : Nat]
        /\ booked' \in [pnl : Int, fees : Nat]
        /\ entry' = [price |-> Close(day + 1), row |-> day + 1]
        /\ account'.cash + account'.shares * Close(day + 1)
             = Capital + booked'.pnl - booked'.fees
        /\ booked'.pnl = booked.pnl
    BY <1>3, BuyKeepsBooks
  <2>2. entry' \in [price : Nat, row : Nat] /\ entry'.price = Close(day + 1)
    BY <1>0, <1>2, <2>1
  <2>3. account.shares = 0
    BY <1>3 DEF Buy
  <2>4. Worth(account, Close(day + 1)) = account.cash
    BY <1>0, <1>2, <2>3 DEF Worth
  <2>5. account.cash = Capital + booked.pnl - booked.fees
    BY <1>0, <2>3 DEF BooksBalance
  <2>6. equity' = Capital + booked'.pnl - booked'.fees
    BY <1>1, <2>1 DEF Worth
  <2>7. equity' = account.cash - (booked'.fees - booked.fees)
    <3>1. /\ booked'.pnl \in Int /\ booked'.fees \in Int
          /\ booked.fees \in Int /\ booked.pnl \in Int
      BY <1>0, <2>1
    <3> QED
      BY <2>1, <2>5, <2>6, <3>1, MoneyAssumption
  <2> QED
    BY <1>1, <1>2, <2>1, <2>2, <2>4, <2>7
<1>4. CASE Sell
  <2>1. Sold(Close(day + 1)) /\ entry' = [price |-> 0, row |-> 0]
    BY <1>4 DEF Sell
  <2>2. /\ account' \in [cash : Nat, grossCash : Nat, shares : Nat, grossShares : Nat]
        /\ booked' \in [pnl : Int, fees : Nat]
        /\ account'.shares = 0
        /\ account'.cash = Capital + booked'.pnl - booked'.fees
        /\ account'.cash = (account.cash + account.shares * Close(day + 1))
                           - (booked'.fees - booked.fees)
    BY <1>2, <2>1, SaleKeepsBooks
  <2>3. entry' \in [price : Nat, row : Nat]
    BY <2>1
  <2>4. account'.shares * entry'.price = 0 /\ account'.shares * Close(day + 1) = 0
    BY <1>2, <2>2, <2>3
  <2>5. /\ account'.cash + account'.shares * entry'.price = account'.cash
        /\ equity' = account'.cash
    BY <1>1, <2>2, <2>4 DEF Worth
  <2>6. equity' = Worth(account, Close(day + 1)) - (booked'.fees - booked.fees)
    <3>1. Worth(account, Close(day + 1)) = account.cash + account.shares * Close(day + 1)
      BY DEF Worth
    <3>2. equity' = account'.cash
      BY <2>5
    <3>3. account'.cash = (account.cash + account.shares * Close(day + 1))
                          - (booked'.fees - booked.fees)
      BY <2>2
    <3> QED
      BY <3>1, <3>2, <3>3
  <2> QED
    BY <1>1, <1>2, <2>2, <2>3, <2>5, <2>6
<1>5. CASE Wait
  <2>1. UNCHANGED <<account, entry, booked>>
    BY <1>5 DEF Wait
  <2>2. booked'.fees - booked.fees = 0
    BY <1>0, <2>1
  <2>3. Worth(account, Close(day + 1)) \in Nat
    BY <1>0, <1>2, WorthNat
  <2> QED
    BY <1>0, <1>1, <1>2, <2>1, <2>2, <2>3 DEF BooksBalance
<1> QED
  BY <1>3, <1>4, <1>5

(* The stop recorded at an entry stays with its entry. *)
LEMMA StopStep ==
  ASSUME AccountInv, Buy \/ Sell \/ Wait
  PROVE  StopHolds'
<1>1. /\ day' = day + 1 /\ UNCHANGED <<history, strategy>>
  BY RowMoves
<1>2. CASE Buy
  BY <1>1, <1>2, BuyKeepsBooks DEF StopHolds
<1>3. CASE Sell
  BY <1>3 DEF Sell, Sold, StopHolds
<1>4. CASE Wait
  <2>1. account.shares > 0 => ~ Stopped(day + 1)
    BY <1>4 DEF Wait, Exits
  <2>2. /\ UNCHANGED <<account, entry>>
        /\ entry.price \in Nat /\ Close(day + 1) \in Nat /\ strategy.stop \in 0..100
    BY <1>4, RowMoves, StrategyAssumption DEF Wait, AccountInv, TypeOK
  <2>3. account.shares > 0 /\ strategy.stop # NoStop =>
          100 * Close(day + 1) > entry.price * (100 - strategy.stop)
    <3>1. 100 * Close(day + 1) \in Int /\ entry.price * (100 - strategy.stop) \in Int
      BY <2>2
    <3> QED
      BY <2>1, <3>1 DEF Stopped
  <2>4. Close(day + 1) = Close(day)'
    BY <1>1 DEF Close
  <2> QED
    BY <1>1, <2>2, <2>3, <2>4 DEF StopHolds
<1> QED
  BY <1>2, <1>3, <1>4

(* The three ways through a row keep the books. *)
LEMMA RowKeepsAccount ==
  ASSUME AccountInv, Buy \/ Sell \/ Wait
  PROVE  AccountInv'
<1>1. /\ day' = day + 1 /\ day' \in 1..Len(history)
      /\ UNCHANGED <<history, strategy, from, phase>>
      /\ Close(day + 1) \in Nat
      /\ account' \in [cash : Nat, grossCash : Nat, shares : Nat, grossShares : Nat]
      /\ booked' \in [pnl : Int, fees : Nat]
      /\ entry' \in [price : Nat, row : Nat]
      /\ account'.cash + account'.shares * entry'.price = Capital + booked'.pnl - booked'.fees
      /\ equity' = Worth(account', Close(day + 1))
  BY RowMoves
<1>2. equity' \in Nat
  BY <1>1, WorthNat
<1>3. TypeOK'
  BY <1>1, <1>2 DEF AccountInv, TypeOK
<1>4. BooksBalance'
  BY <1>1 DEF BooksBalance
<1>5. equity' = Worth(account, Close(day))'
  BY <1>1 DEF Worth, Close
<1> QED
  BY <1>3, <1>4, <1>5, StopStep DEF AccountInv

(* The sale after the last row keeps the books. *)
LEMMA SettleKeepsAccount ==
  ASSUME AccountInv, Settle
  PROVE  AccountInv'
<1>1. TypeOK /\ BooksBalance /\ StopHolds
  BY DEF AccountInv
<1>2. /\ day = Len(history) /\ phase' = "settled"
      /\ UNCHANGED <<history, strategy, from, day, entry, equity>>
  BY DEF Settle
<1>3. CASE account.shares > 0 /\ Sold(Close(day))
  <2>1. Close(day) \in Nat
    BY <1>1, <1>2, CloseNat DEF TypeOK
  <2>2. /\ account' \in [cash : Nat, grossCash : Nat, shares : Nat, grossShares : Nat]
        /\ booked' \in [pnl : Int, fees : Nat]
        /\ account'.shares = 0
        /\ account'.cash = Capital + booked'.pnl - booked'.fees
    BY <1>3, <2>1, SaleKeepsBooks
  <2>3. TypeOK'
    BY <1>1, <1>2, <2>2 DEF TypeOK
  <2>4. account'.cash + account'.shares * entry'.price = account'.cash
    BY <1>2, <2>2, <2>3 DEF TypeOK
  <2> QED
    BY <1>2, <2>2, <2>3, <2>4 DEF AccountInv, BooksBalance, StopHolds
<1>4. CASE UNCHANGED <<account, booked>>
  BY <1>1, <1>2, <1>4 DEF AccountInv, TypeOK, BooksBalance, StopHolds, Close
<1> QED
  BY <1>3, <1>4 DEF Settle

(* Every step keeps the books: the induction step. *)
LEMMA AccountStep == AccountInv /\ [Next]_vars => AccountInv'
<1> SUFFICES ASSUME AccountInv, [Next]_vars PROVE AccountInv'
  OBVIOUS
<1>1. CASE Buy \/ Sell \/ Wait
  BY <1>1, RowKeepsAccount
<1>2. CASE Settle
  BY <1>2, SettleKeepsAccount
<1>3. CASE UNCHANGED vars
  BY <1>3 DEF vars, AccountInv, TypeOK, BooksBalance, StopHolds, Close, Worth
<1> QED
  BY <1>1, <1>2, <1>3 DEF Next

(* The invariant of the account, for every history, strategy and cost rate. *)
THEOREM AccountInvariant == Spec => []AccountInv
BY InitAccount, AccountStep, PTL DEF Spec

(* The account is never overdrawn, however deep the costs cut. *)
THEOREM NeverOverdrawn == Spec => []TypeOK
<1>1. AccountInv => TypeOK
  BY DEF AccountInv
<1> QED
  BY <1>1, AccountInvariant, PTL

(* Trades and fees explain the cash that the summary's return is taken from. *)
THEOREM BooksAlwaysBalance == Spec => []BooksBalance
<1>1. AccountInv => BooksBalance
  BY DEF AccountInv
<1> QED
  BY <1>1, AccountInvariant, PTL

(* No close at or below the stop leaves a position open. *)
THEOREM StopAlwaysHolds == Spec => []StopHolds
<1>1. AccountInv => StopHolds
  BY DEF AccountInv
<1> QED
  BY <1>1, AccountInvariant, PTL

(* The equity curve moves by gains and fees alone. *)
THEOREM AlwaysSelfFinancing == Spec => SelfFinancing
<1>1. ASSUME AccountInv, [Next]_vars
      PROVE  [day' # day /\ day >= from =>
                equity' - equity = account.shares * (Close(day') - Close(day))
                                   - (booked'.fees - booked.fees)]_vars
  <2>1. SUFFICES ASSUME day' # day, day >= from, Next
                 PROVE  equity' - equity = account.shares * (Close(day') - Close(day))
                                           - (booked'.fees - booked.fees)
    BY <1>1 DEF vars
  <2>2. Buy \/ Sell \/ Wait
    BY <2>1 DEF Next, Settle
  <2>3. phase = "trading"
    BY <2>2 DEF Buy, Sell, Wait, RowLeft
  <2>4. equity = Worth(account, Close(day))
    BY <1>1, <2>1, <2>3 DEF AccountInv
  <2>5. /\ day' = day + 1 /\ Close(day + 1) \in Nat /\ booked' \in [pnl : Int, fees : Nat]
        /\ equity' = Worth(account, Close(day + 1)) - (booked'.fees - booked.fees)
    BY <1>1, <2>2, RowMoves
  <2>6. /\ account.cash \in Nat /\ account.shares \in Nat /\ booked.fees \in Nat
        /\ Close(day) \in Nat
    <3>1. /\ day \in 0..Len(history) /\ from \in 1..Len(history) /\ history \in Seq(Row)
          /\ account \in [cash : Nat, grossCash : Nat, shares : Nat, grossShares : Nat]
          /\ booked \in [pnl : Int, fees : Nat]
      BY <1>1 DEF AccountInv, TypeOK
    <3>2. day \in 1..Len(history)
      BY <2>1, <3>1
    <3> QED
      BY <3>1, <3>2, CloseNat
  <2>7. account.shares * (Close(day + 1) - Close(day))
          = account.shares * Close(day + 1) - account.shares * Close(day)
    BY <2>5, <2>6
  <2>8. /\ account.shares * Close(day + 1) \in Nat /\ account.shares * Close(day) \in Nat
        /\ booked'.fees \in Nat
    BY <2>5, <2>6, ProductNat
  <2> QED
    BY <2>4, <2>5, <2>6, <2>7, <2>8 DEF Worth
<1> QED
  BY <1>1, AccountInvariant, PTL DEF Spec, SelfFinancing

-----------------------------------------------------------------------------
(* The screen and the backtest. *)

(* A leg looks at a row and the row before it, and at nothing else. *)
LEMMA LegSeesTwoRows ==
  ASSUME NEW f, NEW i \in Nat, NEW g, NEW j \in Nat, NEW leg,
         f[i] = g[j], i > 1 <=> j > 1, i > 1 => f[i - 1] = g[j - 1]
  PROVE  Fires(f, i, leg) <=> Fires(g, j, leg)
BY DEF Fires

(* Without a row before it a leg fires only where it would with one. *)
LEMMA FirstRowFiresLess ==
  ASSUME NEW f, NEW g, NEW j \in Nat, NEW leg, f[1] = g[j], Fires(f, 1, leg)
  PROVE  Fires(g, j, leg)
BY DEF Fires

(* A signal looks at its row and the one before and nowhere else. *)
LEMMA SignalSeesTwoRows ==
  ASSUME NEW f, NEW i \in Nat, NEW g, NEW j \in Nat, NEW rules,
         f[i] = g[j], i > 1 <=> j > 1, i > 1 => f[i - 1] = g[j - 1]
  PROVE  Signal(f, i, rules) <=> Signal(g, j, rules)
<1>1. \A leg : Fires(f, i, leg) <=> Fires(g, j, leg)
  BY LegSeesTwoRows
<1> QED
  BY <1>1 DEF Signal

(* A row without one before it fires no rule it would not fire with one: a *)
(* crossing needs the row before.                                          *)
LEMMA FirstRowSignalsLess ==
  ASSUME NEW f, NEW g, NEW j \in Nat, NEW rules, f[1] = g[j], Signal(f, 1, rules)
  PROVE  Signal(g, j, rules)
<1>1. \A leg : Fires(f, 1, leg) => Fires(g, j, leg)
  BY FirstRowFiresLess
<1> QED
  BY <1>1 DEF Signal

(* The two rows the screen reads are the day's and the one before. *)
LEMMA NewestTwoRows ==
  ASSUME NEW s \in Seq(Row), NEW d \in 1..Len(s)
  PROVE  LET frame == NewestTwo(SubSeq(s, 1, d))
         IN /\ Len(frame) \in {1, 2} /\ (Len(frame) > 1 <=> d > 1)
            /\ frame[Len(frame)] = s[d]
            /\ d > 1 => frame[Len(frame) - 1] = s[d - 1]
<1> DEFINE rows == SubSeq(s, 1, d)
<1>1. rows \in Seq(Row) /\ Len(rows) = d /\ \A i \in 1..d : rows[i] = s[i]
  OBVIOUS
<1> HIDE DEF rows
<1> DEFINE frame == NewestTwo(rows)
           first == IF d > 2 THEN d - 1 ELSE 1
<1>2. first \in 1..d /\ frame = SubSeq(rows, first, d)
  BY <1>1 DEF NewestTwo
<1>3. Len(frame) = d - first + 1 /\ \A i \in 1..(d - first + 1) : frame[i] = rows[first + i - 1]
  BY <1>1, <1>2
<1>4. /\ Len(frame) \in {1, 2} /\ (Len(frame) > 1 <=> d > 1)
      /\ first + Len(frame) - 1 = d
  BY <1>3
<1> HIDE DEF first, frame
<1>5. frame[Len(frame)] = rows[d]
  <2>1. Len(frame) \in 1..(d - first + 1)
    BY <1>2, <1>3, <1>4
  <2> QED
    BY <1>3, <1>4, <2>1
<1>6. ASSUME d > 1 PROVE frame[Len(frame) - 1] = rows[d - 1]
  <2>1. Len(frame) - 1 \in 1..(d - first + 1) /\ first + (Len(frame) - 1) - 1 = d - 1
    BY <1>2, <1>3, <1>4, <1>6
  <2> QED
    BY <1>3, <2>1
<1>7. rows[d] = s[d] /\ (d > 1 => rows[d - 1] = s[d - 1])
  BY <1>1
<1> QED
  BY <1>4, <1>5, <1>6, <1>7 DEF frame, rows

(* The window of two rows that the screen reads decides as the whole table *)
(* does, on every typed table.                                             *)
LEMMA TypedScreenAgrees == TypeOK => ScreenAgrees
<1> SUFFICES ASSUME TypeOK, day >= from PROVE
      LET shown == Screen(SubSeq(history, 1, day)) # "no match"
      IN (Enters(day) => shown) /\ (day > from /\ shown => Enters(day))
  BY DEF ScreenAgrees
<1> DEFINE frame == NewestTwo(SubSeq(history, 1, day))
           at == day - from + 1
<1>1. history \in Seq(Row) /\ from \in 1..Len(history) /\ day \in 1..Len(history)
  BY DEF TypeOK
<1>2. /\ Len(frame) \in {1, 2} /\ (Len(frame) > 1 <=> day > 1)
      /\ frame[Len(frame)] = history[day]
      /\ day > 1 => frame[Len(frame) - 1] = history[day - 1]
  BY <1>1, NewestTwoRows
<1>3. /\ at \in Nat /\ Frame[at] = history[day]
      /\ at > 1 <=> day > from
      /\ day > from => Frame[at - 1] = history[day - 1]
  <2>1. Frame = SubSeq(history, from, Len(history))
    BY DEF Frame, FrameFrom
  <2>2. \A i \in 1..(Len(history) - from + 1) :
          SubSeq(history, from, Len(history))[i] = history[from + i - 1]
    BY <1>1
  <2>3. at \in 1..(Len(history) - from + 1) /\ from + at - 1 = day
    BY <1>1
  <2>4. day > from => at - 1 \in 1..(Len(history) - from + 1) /\ from + (at - 1) - 1 = day - 1
    BY <1>1
  <2> QED
    BY <1>1, <2>1, <2>2, <2>3, <2>4
<1>4. Screen(SubSeq(history, 1, day)) # "no match"
        <=> Signal(frame, Len(frame), strategy.entry)
  <2>1. CASE Signal(frame, Len(frame), strategy.entry)
    BY <2>1, "no match" # "entry", "no match" # "entry / exit overlap" DEF Screen
  <2>2. CASE ~ Signal(frame, Len(frame), strategy.entry)
    BY <2>2 DEF Screen
  <2> QED
    BY <2>1, <2>2
<1>5. Enters(day) <=> Signal(Frame, at, strategy.entry)
  BY DEF Enters
<1> HIDE DEF frame, at
<1>6. CASE day > from
  <2>1. Signal(frame, Len(frame), strategy.entry) <=> Signal(Frame, at, strategy.entry)
    BY <1>1, <1>2, <1>3, <1>6, SignalSeesTwoRows
  <2> QED
    BY <1>4, <1>5, <2>1
<1>7. CASE day = from
  <2>1. at = 1
    BY <1>1, <1>7 DEF at
  <2>2. Signal(Frame, 1, strategy.entry) => Signal(frame, Len(frame), strategy.entry)
    BY <1>2, <1>3, <2>1, FirstRowSignalsLess
  <2>3. ~ (day > from)
    BY <1>1, <1>7
  <2> QED
    BY <1>4, <1>5, <2>1, <2>2, <2>3
<1>8. day > from \/ day = from
  BY <1>1
<1> QED
  BY <1>6, <1>7, <1>8

(* What the backtest enters on a day the screen of that day shows, and from *)
(* the range's second row on the other way around, for every strategy.      *)
THEOREM ScreenAlwaysAgrees == Spec => []ScreenAgrees
BY NeverOverdrawn, TypedScreenAgrees, PTL

-----------------------------------------------------------------------------
(* Costs never help: the account that pays them and the one that does not. *)

(* A division that comes out even loses nothing. *)
LEMMA EvenDivision ==
  ASSUME NEW a \in Nat, NEW b \in Nat, b > 0, a % b = 0
  PROVE  b * (a \div b) = a
OBVIOUS

(* The quotient is the greatest number that fits. *)
LEMMA FloorGreatest ==
  ASSUME NEW a \in Nat, NEW b \in Nat, NEW n \in Nat, b > 0, b * n <= a
  PROVE  n <= a \div b
<1>1. a < b * ((a \div b) + 1) /\ a \div b \in Nat
  OBVIOUS
<1>2. SUFFICES ASSUME (a \div b) + 1 <= n PROVE FALSE
  BY <1>1
<1>3. b * ((a \div b) + 1) <= b * n
  BY <1>1, <1>2, ScaledOrder
<1> QED
  BY <1>1, <1>3, ProductNat

(* Hundredths of a larger amount. *)
LEMMA HundredthsShift ==
  ASSUME NEW a \in Nat, NEW b \in Nat, NEW k \in Nat, b <= a + 100 * k
  PROVE  b \div 100 <= (a \div 100) + k
OBVIOUS

(* Who has more cash also keeps more of it when a purchase is planned. *)
LEMMA LeftoverOrder ==
  ASSUME strategy \in Strategies, NEW less \in Nat, NEW more \in Nat, less <= more
  PROVE  /\ Deployable(less) <= Deployable(more)
         /\ less - Deployable(less) <= more - Deployable(more)
<1>1. SizePct \in Nat /\ SizePct <= 100
  BY StrategyAssumption DEF SizePct
<1> DEFINE k == more - less
<1>2. k \in Nat /\ more = less + k
  OBVIOUS
<1>3. less * SizePct \in Nat /\ k * SizePct \in Nat /\ k * SizePct <= 100 * k
  BY <1>1, <1>2, ProductNat, ScaledOrder
<1>4. more * SizePct = less * SizePct + k * SizePct
  BY <1>1, <1>2
<1> HIDE DEF k
<1>5. (more * SizePct) \div 100 <= ((less * SizePct) \div 100) + k
  BY <1>2, <1>3, <1>4, HundredthsShift
<1>6. (less * SizePct) \div 100 <= (more * SizePct) \div 100
  BY <1>3, <1>4
<1>7. Deployable(less) \in Nat /\ Deployable(more) \in Nat
  BY DeployableFits
<1> QED
  BY <1>2, <1>5, <1>6, <1>7 DEF Deployable

(* Costs buy no shares: whoever pays them gets no more for no more money. *)
LEMMA CostsBuyLess ==
  ASSUME NEW less \in Nat, NEW more \in Nat, less <= more, NEW close \in Nat
  PROVE  Bought(less, close, CostNum) <= Bought(more, close, 0)
<1> USE MoneyAssumption
<1> DEFINE shares == Bought(less, close, CostNum)
<1>1. CASE close > 0
  <2>1. shares \in Nat /\ (CostDen + CostNum) * (shares * close) <= less * CostDen
    BY PurchaseFits
  <2>2. shares * close \in Nat
    BY <2>1, ProductNat
  <2> HIDE DEF shares
  <2>3. CostDen * (shares * close) <= (CostDen + CostNum) * (shares * close)
    BY <2>2, ScaledOrder
  <2>4. less * CostDen <= more * CostDen /\ more * CostDen \in Nat /\ less * CostDen \in Nat
    BY ScaledOrder, ProductNat
  <2>5. CostDen * (shares * close) \in Nat /\ (CostDen + CostNum) * (shares * close) \in Nat
    BY <2>2, ProductNat
  <2>6. CostDen * (shares * close) <= more * CostDen
    BY <2>1, <2>3, <2>4, <2>5
  <2>7. (close * CostDen) * shares = CostDen * (shares * close)
    BY <2>1
  <2>8. close * CostDen \in Nat /\ close * CostDen > 0
    <3>1. close * 1 <= close * CostDen
      BY ScaledOrder
    <3> QED
      BY <1>1, <3>1, ProductNat
  <2>9. shares <= (more * CostDen) \div (close * CostDen)
    BY <2>1, <2>4, <2>6, <2>7, <2>8, FloorGreatest
  <2> QED
    BY <1>1, <2>9 DEF Bought, shares
<1>2. CASE ~ (close > 0)
  BY <1>2 DEF Bought
<1> QED
  BY <1>1, <1>2

(* A purchase whose division comes out even spends all that was set aside. *)
LEMMA EvenPurchaseSpendsAll ==
  ASSUME NEW amount \in Nat, NEW close \in Nat, close > 0,
         (amount * CostDen) % (close * (CostDen + CostNum)) = 0
  PROVE  LET value == Bought(amount, close, CostNum) * close
         IN value + CostOf(value) = amount
<1> USE MoneyAssumption
<1> DEFINE shares == Bought(amount, close, CostNum)
           value == shares * close
<1>1. close * (CostDen + CostNum) \in Nat /\ close * (CostDen + CostNum) > 0
  <2>1. close * 1 <= close * (CostDen + CostNum)
    BY ScaledOrder
  <2> QED
    BY <2>1, ProductNat
<1>2. (close * (CostDen + CostNum)) * shares = amount * CostDen
  <2>1. amount * CostDen \in Nat
    BY ProductNat
  <2>2. shares = (amount * CostDen) \div (close * (CostDen + CostNum))
    BY DEF Bought
  <2> HIDE DEF shares
  <2> QED
    BY <1>1, <2>1, <2>2, EvenDivision
<1>3. shares \in Nat /\ value \in Nat /\ value <= amount
  <2>1. shares \in Nat
    BY PurchaseFits
  <2>2. value \in Nat /\ CostOf(value) \in Nat /\ value + CostOf(value) <= amount
    BY NetPurchaseFits, CostFits
  <2> QED
    BY <2>1, <2>2
<1> HIDE DEF shares
<1>4. value * CostDen + value * CostNum = amount * CostDen
  BY <1>2, <1>3
<1> HIDE DEF value
<1>5. value * CostNum = CostDen * (amount - value)
  BY <1>3, <1>4
<1>6. (CostDen * (amount - value)) \div CostDen = amount - value
  <2>1. \A n \in Nat : (CostDen * n) \div CostDen = n
    OBVIOUS
  <2> QED
    BY <1>3, <2>1
<1> QED
  BY <1>3, <1>5, <1>6 DEF CostOf, value, shares

(* One purchase: the account with costs keeps no more cash and gets no more *)
(* shares than the one without.                                             *)
LEMMA BuyKeepsOrder ==
  ASSUME AccountInv, PurchaseIsEven, CostsNeverHelp, Buy
  PROVE  CostsNeverHelp'
<1> DEFINE close == Close(day + 1)
           dep == Deployable(account.cash)
           grossDep == Deployable(account.grossCash)
           shares == Bought(dep, close, CostNum)
           gross == Bought(grossDep, close, 0)
           cost == CostOf(shares * close)
<1>1. /\ account \in [cash : Nat, grossCash : Nat, shares : Nat, grossShares : Nat]
      /\ history \in Seq(Row) /\ strategy \in Strategies /\ day \in 0..Len(history)
      /\ account.cash <= account.grossCash
  BY DEF AccountInv, TypeOK, CostsNeverHelp
<1>2. /\ day < Len(history) /\ account.shares = 0 /\ RowLeft /\ Enters(day + 1)
      /\ account' = [cash |-> account.cash - (shares * close + cost), shares |-> shares,
                     grossCash |-> account.grossCash - gross * close, grossShares |-> gross]
  BY DEF Buy, RowLeft
<1>3. close \in Nat
  BY <1>1, <1>2, CloseNat
<1>4. /\ dep \in Nat /\ grossDep \in Nat /\ dep <= grossDep
      /\ account.cash - dep <= account.grossCash - grossDep
  BY <1>1, DeployableFits, LeftoverOrder
<1>5. /\ shares \in Nat /\ gross \in Nat /\ shares <= gross
  BY <1>3, <1>4, PurchaseFits, CostsBuyLess, MoneyAssumption
<1>6. gross * close \in Nat /\ gross * close <= grossDep
  BY <1>3, <1>4, GrossPurchaseFits
<1>7. shares * close \in Nat /\ cost \in Nat
  BY <1>3, <1>5, ProductNat, CostFits
<1>8. account.cash - (shares * close + cost) <= account.grossCash - gross * close
  <2>1. CASE close > 0
    <3>1. shares * close + cost = dep
      BY <1>2, <1>3, <1>4, <2>1, EvenPurchaseSpendsAll DEF PurchaseIsEven
    <3> HIDE DEF dep, grossDep, shares, gross, cost, close
    <3> QED
      BY <1>1, <1>4, <1>6, <1>7, <3>1
  <2>2. CASE close = 0
    <3>1. shares = 0 /\ gross = 0
      BY <2>2 DEF Bought
    <3> HIDE DEF shares, gross, cost, close
    <3>2. gross * close = 0 /\ shares * close = 0
      BY <1>3, <3>1
    <3> QED
      BY <1>1, <1>7, <3>2
  <2> QED
    BY <1>3, <2>1, <2>2
<1> HIDE DEF shares, gross, cost, close
<1> QED
  BY <1>2, <1>5, <1>8 DEF CostsNeverHelp

(* One sale: the shares of both accounts bring the same price, and a cost is *)
(* only taken from one of them.                                              *)
LEMMA SaleKeepsOrder ==
  ASSUME TypeOK, CostsNeverHelp, NEW close \in Nat, Sold(close)
  PROVE  CostsNeverHelp'
<1> DEFINE value == account.shares * close
           grossValue == account.grossShares * close
<1>1. /\ account \in [cash : Nat, grossCash : Nat, shares : Nat, grossShares : Nat]
      /\ account.cash <= account.grossCash /\ account.shares <= account.grossShares
  BY DEF TypeOK, CostsNeverHelp
<1>2. value \in Nat /\ grossValue \in Nat /\ value <= grossValue
  BY <1>1, ProductNat, ScaledOrder
<1>3. account' = [cash |-> account.cash + (value - CostOf(value)), shares |-> 0,
                  grossCash |-> account.grossCash + grossValue, grossShares |-> 0]
  BY DEF Sold
<1> HIDE DEF value, grossValue
<1>4. CostOf(value) \in Nat
  BY <1>2, CostFits
<1>5. account.cash + (value - CostOf(value)) <= account.grossCash + grossValue
  BY <1>1, <1>2, <1>4
<1> QED
  BY <1>3, <1>5 DEF CostsNeverHelp

(* Gross figures never fall behind the net ones (cost_drag_pct >= 0), for  *)
(* every history, strategy and cost rate, as long as each purchase comes   *)
(* out even in the unit of the amounts, which is what the numbers of the   *)
(* code do up to their last digit.                                         *)
THEOREM CostsNeverHelpAnyone == Spec /\ []PurchaseIsEven => []CostsNeverHelp
<1>1. Init => CostsNeverHelp
  BY MoneyAssumption DEF Init, CostsNeverHelp
<1>2. AccountInv /\ PurchaseIsEven /\ CostsNeverHelp /\ [Next]_vars => CostsNeverHelp'
  <2> SUFFICES ASSUME AccountInv, PurchaseIsEven, CostsNeverHelp, [Next]_vars
               PROVE  CostsNeverHelp'
    OBVIOUS
  <2>1. CASE Buy
    BY <2>1, BuyKeepsOrder
  <2>2. CASE Sell
    <3>1. Close(day + 1) \in Nat
      BY <2>2, RowMoves
    <3> QED
      BY <2>2, <3>1, SaleKeepsOrder DEF Sell, AccountInv
  <2>3. CASE Wait \/ UNCHANGED vars
    BY <2>3 DEF Wait, vars, CostsNeverHelp
  <2>4. CASE Settle
    <3>1. Close(day) \in Nat \/ UNCHANGED account
      BY <2>4, CloseNat DEF Settle, AccountInv, TypeOK, BooksBalance
    <3> QED
      BY <2>4, <3>1, SaleKeepsOrder DEF Settle, AccountInv, CostsNeverHelp
  <2> QED
    BY <2>1, <2>2, <2>3, <2>4 DEF Next
<1> QED
  BY <1>1, <1>2, AccountInvariant, PTL DEF Spec
=============================================================================
