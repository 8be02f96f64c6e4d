------------------------------ MODULE Backtest ------------------------------
(***************************************************************************)
(* The backtest engine (privateQuantBacktest.ts): one step per candle.     *)
(* The candles before the first that is traded, which only feed the moving *)
(* averages, are left out, with the averages (module Signals).  Sizes are  *)
(* taken in whole units of the symbol, so that sums are exact.             *)
(***************************************************************************)
EXTENDS Signals

CONSTANTS Prices,         \* the prices a candle may close at
          initialBalance,
          MaxCandles      \* bound: candles in a backtest

ASSUME BacktestAssumption == Prices \subseteq Nat \ {0} /\ initialBalance \in Nat

VARIABLES cash, position, entryPrice,
          trades,         \* of each, its quantity, entry and exit price
          equityCurve,
          closes          \* the prices so far

backtestVars == <<cash, position, entryPrice, trades, equityCurve, closes>>

BacktestInit ==
  /\ cash = initialBalance
  /\ position = 0
  /\ entryPrice = 0
  /\ trades = <<>>
  /\ equityCurve = <<>>
  /\ closes = <<>>

\* From the first candle that is traded there are always enough for a trend.
trendFollowingDecision(value) == trendFollowing(value) \ {hold}

Open == 0    \* the exit price of a trade that is not closed

-----------------------------------------------------------------------------
Least(S) == CHOOSE x \in S : \A y \in S : x <= y

\* evaluateRisk: what the limits per trade leave of the suggested size.
MaxRiskPerTrade == 10

RiskCapped(d, value) == Least({d.size, (MaxRiskPerTrade * value) \div d.stop})

approved(d, value) ==
  d.signal # "hold" /\ ~d.risky /\ d.size * d.stop <= MaxRiskPerTrade * value

Allocation(d, value) == Least({RiskCapped(d, value), cash \div 4})

\* A slip: it buys more while it holds.
EntersMutant(d, value) == d.signal = "buy" /\ approved(d, value)

Enters(d, value) == position = 0 /\ d.signal = "buy" /\ approved(d, value)

Leaves(d, close, entry) == d.signal = "sell" \/ 1000 * close <= (1000 - d.stop) * entry

\* One candle: perhaps a purchase, then perhaps a sale of what is held.
Candle(close, d) ==
  LET equity == cash + position * close
      bought == IF Enters(d, equity) THEN Allocation(d, equity) \div close ELSE 0
      held == position + bought
      entry == IF bought > 0 THEN close ELSE entryPrice
      all == IF bought > 0
             THEN Append(trades, [quantity |-> bought, entry |-> close, exit |-> Open])
             ELSE trades
      left == cash - bought * close
  IN /\ closes' = Append(closes, close)
     /\ IF held > 0 /\ Leaves(d, close, entry)
        THEN /\ cash' = left + held * close
             /\ position' = 0
             /\ entryPrice' = 0
             /\ trades' = [all EXCEPT ![Len(all)].exit = IF @ = Open THEN close ELSE @]
        ELSE /\ cash' = left
             /\ position' = held
             /\ entryPrice' = entry
             /\ trades' = all
     /\ equityCurve' = Append(equityCurve, cash' + position' * close)

BacktestNext ==
  /\ Len(closes) < MaxCandles
  /\ \E close \in Prices : \E d \in trendFollowingDecision(cash + position * close) :
       Candle(close, d)

-----------------------------------------------------------------------------
(* Properties.                                                             *)

Pnl(trade, close) ==
  (IF trade.exit = Open THEN close - trade.entry ELSE trade.exit - trade.entry) * trade.quantity

Pnls(all, close) == [i \in DOMAIN all |-> Pnl(all[i], close)]

\* The trades explain the curve: each point is the initial balance and what
\* every trade up to then has won or lost, one trade is open at a time, the
\* last, and no purchase is on credit (privateQuantBacktest.ts:113-155).
TradesExplainEquity ==
  /\ cash >= 0
  /\ \A i \in DOMAIN trades : trades[i].exit = Open => i = Len(trades) /\ position > 0
  /\ equityCurve # <<>> =>
       Last(equityCurve) =
         initialBalance + Total(Pnls(trades, Last(closes)))

=============================================================================
