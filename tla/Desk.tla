------------------------------- MODULE Desk --------------------------------
(***************************************************************************)
(* The paper orders of the private quant API: a client asks for a signal,  *)
(* has the risk of it evaluated, has an order prepared and has that order  *)
(* executed.  The server keeps nothing: the client holds the account and   *)
(* sends it along, the answers of one request are the inputs of the next,  *)
(* and the market moves between them.  A client may have several such      *)
(* workflows in hand on one account; it executes one order at a time.      *)
(*                                                                         *)
(* Quantities are whole units of one symbol.                               *)
(***************************************************************************)
EXTENDS Signals

CONSTANTS Workflows,        \* those that a client has in hand
          DeskPrices,
          portfolioValue,   \* what the client says its portfolio is worth
          paperBalance,     \* what the paper account starts with
          limits,           \* which the requests bring,
          RiskPcts,         \* and the limits per trade that one may bring
          MaxMoves,         \* bound on the moves of the market
          None              \* no answer yet

\* A portfolio is worth enough for the least share of it to be a whole unit.
ASSUME DeskAssumption ==
  /\ DeskPrices # {} /\ DeskPrices \subseteq Nat \ {0}
  /\ portfolioValue \in Nat /\ portfolioValue >= 100
  /\ paperBalance \in Nat
  /\ limits \in [maxPositionPct : Nat, maxOpenPositions : Nat]
  /\ RiskPcts \subseteq Nat

VARIABLES account,          \* balance and open positions
          price,
          workflow,         \* by workflow: the request last answered, and the answer
          moves

deskVars == <<account, price, workflow, moves>>

\* No request of a workflow is answered yet.
Begun == [of |-> "none", answer |-> None]

DeskInit ==
  /\ account = [balance |-> paperBalance, openPositions |-> <<>>]
  /\ price = CHOOSE p \in DeskPrices : TRUE
  /\ workflow = [w \in Workflows |-> Begun]
  /\ moves = 0

Smaller(a, b) == IF a < b THEN a ELSE b

Costs(positions) ==
  [i \in DOMAIN positions |-> positions[i].quantity * positions[i].entryPrice]

currentPositionNotional == Total(Costs(account.openPositions))

-----------------------------------------------------------------------------
(* evaluatePrivateRisk.                                                    *)

maxPositionSize == Mille(limits.maxPositionPct, portfolioValue)

cappedByRisk(d, maxRiskPerTradePct) == (maxRiskPerTradePct * portfolioValue) \div d.stop

\* Zero is no cap: without a notional, or where nothing may be risked on a trade,
\* it is the whole of what a portfolio may hold.
cappedPositionSize(d, maxRiskPerTradePct) ==
  Smaller(IF d.size > 0 THEN d.size ELSE maxPositionSize,
          IF maxRiskPerTradePct = 0 THEN maxPositionSize
          ELSE Smaller(maxPositionSize, cappedByRisk(d, maxRiskPerTradePct)))

\* What the client reports besides its positions, and each alone refuses.
Halts == {"killSwitch", "staleData", "leverage", "dailyLoss", "maxDrawdown"}

\* A slip: what is held already does not count.
refusedMutant(d, halted) ==
  \/ halted # {}
  \/ d.signal = "hold"
  \/ d.risky
  \/ d.size > maxPositionSize
  \/ Len(account.openPositions) >= limits.maxOpenPositions

refused(d, halted) ==
  \/ halted # {}
  \/ d.signal = "hold"
  \/ d.risky
  \/ d.size > 0 /\ currentPositionNotional + d.size > maxPositionSize
  \/ Len(account.openPositions) >= limits.maxOpenPositions

\* counted, here and below, is history: how many positions this evaluation counts.
evaluatePrivateRisk(d, halted, maxRiskPerTradePct) ==
  [approved |-> ~refused(d, halted),
   cappedPositionSize |-> cappedPositionSize(d, maxRiskPerTradePct),
   counted |-> Len(account.openPositions)]

-----------------------------------------------------------------------------
(* preparePrivateOrder and executePrivatePaperOrder.                       *)

prepared(quantity, riskApproved) == quantity > 0 /\ riskApproved

preparePrivateOrder(quantity, planned, r) ==
  [quantity |-> quantity, planned |-> planned, counted |-> r.counted,
   status |-> IF prepared(quantity, r.approved) THEN "prepared" ELSE "rejected"]

funded(order) == order.quantity * price <= account.balance

\* A purchase or a sale, a filled order costs its notional and opens a position.
executePrivatePaperOrder(order) ==
  IF order.status = "prepared" /\ funded(order)
  THEN [balance |-> account.balance - order.quantity * price,
        openPositions |-> Append(account.openPositions,
                                 [quantity |-> order.quantity, entryPrice |-> price,
                                  planned |-> order.planned, counted |-> order.counted])]
  ELSE account

-----------------------------------------------------------------------------
(* The client's workflows.                                                 *)

Has(w, request) == workflow[w].of = request

Answers(w, request, answer) ==
  workflow' = [workflow EXCEPT ![w] = [of |-> request, answer |-> answer]]

generateSignal(w) ==
  /\ Has(w, "none")
  /\ \E strategyId \in Strategies :
       \E d \in evaluateStrategy(strategyId, portfolioValue) : Answers(w, "signal", d)
  /\ UNCHANGED <<account, price, moves>>

evaluateRisk(w) ==
  /\ Has(w, "signal")
  /\ \E halted \in {{}} \cup {{h} : h \in Halts}, pct \in RiskPcts :
       Answers(w, "risk", evaluatePrivateRisk(workflow[w].answer, halted, pct))
  /\ UNCHANGED <<account, price, moves>>

\* The client orders what the cap buys at the price it sees.
prepareOrder(w) ==
  /\ Has(w, "risk")
  /\ LET r == workflow[w].answer
     IN Answers(w, "order", preparePrivateOrder(r.cappedPositionSize \div price, price, r))
  /\ UNCHANGED <<account, price, moves>>

WorkflowEnds(w) == workflow' = [workflow EXCEPT ![w] = Begun]

\* Executed at the price of now, not at that of the order, and on the account of
\* now: what another workflow has opened since the approval does not matter.
executePaperOrder(w) ==
  /\ Has(w, "order")
  /\ account' = executePrivatePaperOrder(workflow[w].answer)
  /\ WorkflowEnds(w)
  /\ UNCHANGED <<price, moves>>

\* A request or its answer is lost: the client's account is what it was.
RequestFails(w) ==
  /\ ~Has(w, "none")
  /\ WorkflowEnds(w)
  /\ UNCHANGED <<account, price, moves>>

PriceMoves ==
  /\ moves < MaxMoves
  /\ moves' = moves + 1
  /\ price' \in DeskPrices \ {price}
  /\ UNCHANGED <<account, workflow>>

DeskNext ==
  \/ \E w \in Workflows :
       \/ generateSignal(w) \/ evaluateRisk(w) \/ prepareOrder(w) \/ executePaperOrder(w)
       \/ RequestFails(w)
  \/ PriceMoves

-----------------------------------------------------------------------------
(* Properties.                                                             *)

\* What the first n positions have cost.
Filled(n) == Total(Costs(SubSeq(account.openPositions, 1, n)))

\* Whatever the market and other workflows did between approval and execution,
\* the account is never overdrawn, and the balance and what the positions cost
\* are what it started with: the cash is looked at when an order is executed
\* (privateQuantOrders.ts:160-202).  The limits are not.  So each position
\* fitted, at its planned price, on top of those that were held when its risk
\* was evaluated, at what they had cost, and those were fewer than may be open
\* (privateQuantRisk.ts:97-127); those that were opened since are on top.
AccountHolds ==
  /\ account.balance >= 0
  /\ account.balance + currentPositionNotional = paperBalance
  /\ \A i \in DOMAIN account.openPositions :
       LET p == account.openPositions[i]
       IN /\ p.counted < i /\ p.counted < limits.maxOpenPositions
          /\ Filled(p.counted) + p.quantity * p.planned <= maxPositionSize

=============================================================================
