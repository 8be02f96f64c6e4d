------------------------------ MODULE Signals ------------------------------
(***************************************************************************)
(* What the strategies of the private quant API may decide                 *)
(* (privateQuantSignals.ts; the backtest has a copy of trend following).   *)
(* How the moving averages, deviations and ranges of the candles choose    *)
(* among these decisions is left out: a strategy is the set of all that it *)
(* can return, with the bounds it keeps on size, stop and risk.            *)
(*                                                                         *)
(* Shares of a portfolio are in thousandths.                               *)
(***************************************************************************)
EXTENDS Sums

Mille(share, value) == (share * value) \div 1000

\* Risk scores are told apart only by the limit of 0.7.
Decision(signal, size, stop, risky) ==
  [signal |-> signal, size |-> size, stop |-> stop, risky |-> risky]

hold == Decision("hold", 0, 30, FALSE)

\* Of the sizes between two bounds, the bounds.
Sized(stop, least, most, value) ==
  {Decision(signal, Mille(share, value), stop, risky) :
     signal \in {"buy", "sell"}, share \in {least, most}, risky \in BOOLEAN}
  \cup {Decision("hold", 0, stop, risky) : risky \in BOOLEAN}

trendFollowing(value) == Sized(35, 10, 80, value) \cup {hold}
meanReversion(value) == Sized(25, 10, 60, value) \cup {hold}
breakout(value) == Sized(40, 10, 50, value) \cup {hold}

\* It never sells, and it buys the same amount whatever the portfolio.
REGIME_SIZE == 15

volatilityRegime ==
  {Decision("hold", 0, 30, TRUE)}
  \cup {Decision("buy", REGIME_SIZE, 30, risky) : risky \in BOOLEAN}

Strategies == {"mean-reversion", "breakout", "volatility-regime", "moving-average-trend"}

evaluateStrategy(strategyId, value) ==
  CASE strategyId = "mean-reversion" -> meanReversion(value)
    [] strategyId = "breakout" -> breakout(value)
    [] strategyId = "volatility-regime" -> volatilityRegime
    [] OTHER -> trendFollowing(value)
=============================================================================
