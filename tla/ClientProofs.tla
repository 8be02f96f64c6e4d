---------------------------- MODULE ClientProofs ----------------------------
(***************************************************************************)
(* What the clients of the feed, a seller's data and the World Cup page    *)
(* promise, for any sessions, prices, accounts, assets and fixtures.  They *)
(* share nothing, so that the invariant of all is that of each, and a step *)
(* of one leaves the others alone.                                         *)
(***************************************************************************)
EXTENDS MCClients, ListProofs

-----------------------------------------------------------------------------
(* The paper account.                                                      *)

ShareSizes == 10..80
Stops == 25..40
Decisions ==
  {d \in [signal : {"buy", "sell", "hold"}, size : Nat, stop : Stops, risky : BOOLEAN] :
     d.signal # "hold" => d.size > 0}

LEMMA Shares ==
    ASSUME NEW share \in 10..80, NEW value \in Nat
    PROVE  Mille(share, value) \in Nat /\ (value >= 100 => Mille(share, value) > 0)
<1>1. share * value \in Nat /\ (value >= 100 => share * value >= 1000)
  <2>1. share * value \in Nat
    OBVIOUS
  <2>2. ASSUME value >= 100 PROVE share * value >= 1000
    <3>1. share * value >= 10 * value
      OBVIOUS
    <3> QED
      BY <2>1, <2>2, <3>1
  <2> QED
    BY <2>1, <2>2
<1>2. PICK x : x = share * value
  OBVIOUS
<1>3. x \in Nat => x \div 1000 \in Nat /\ (x >= 1000 => x \div 1000 > 0)
  OBVIOUS
<1> QED
  BY <1>1, <1>2, <1>3 DEF Mille

LEMMA SizedDecides ==
    ASSUME NEW value \in Nat, value >= 100, NEW least \in ShareSizes, NEW most \in ShareSizes,
           NEW stop \in Stops
    PROVE  Sized(stop, least, most, value) \subseteq Decisions
<1>1. ASSUME NEW share \in {least, most}, NEW signal \in {"buy", "sell"}, NEW risky \in BOOLEAN
      PROVE  Decision(signal, Mille(share, value), stop, risky) \in Decisions
  <2>1. Mille(share, value) \in Nat /\ Mille(share, value) > 0
    BY Shares DEF ShareSizes
  <2> QED
    BY <2>1 DEF Decision, Decisions
<1>2. ASSUME NEW risky \in BOOLEAN PROVE Decision("hold", 0, stop, risky) \in Decisions
  BY DEF Decision, Decisions
<1> QED
  BY <1>1, <1>2 DEF Sized

LEMMA StrategiesDecide ==
    ASSUME NEW strategyId \in Strategies
    PROVE  evaluateStrategy(strategyId, portfolioValue) \subseteq Decisions
<1>1. hold \in Decisions
  BY DEF hold, Decision, Decisions, Stops
<1>2. portfolioValue \in Nat /\ portfolioValue >= 100
  BY DeskAssumption
<1>3. /\ {10, 50, 60, 80} \subseteq ShareSizes
      /\ {25, 30, 35, 40} \subseteq Stops
  BY DEF ShareSizes, Stops
<1>4. \A stop \in {25, 35, 40}, most \in {50, 60, 80} :
        Sized(stop, 10, most, portfolioValue) \subseteq Decisions
  <2> TAKE stop \in {25, 35, 40}, most \in {50, 60, 80}
  <2>1. stop \in Stops /\ most \in ShareSizes /\ 10 \in ShareSizes
    BY <1>3
  <2> QED
    BY <1>2, <2>1, SizedDecides
<1>5. meanReversion(portfolioValue) \subseteq Decisions
  BY <1>1, <1>4, Zenon DEF meanReversion
<1>6. breakout(portfolioValue) \subseteq Decisions
  BY <1>1, <1>4, Zenon DEF breakout
<1>7. trendFollowing(portfolioValue) \subseteq Decisions
  BY <1>1, <1>4, Zenon DEF trendFollowing
<1>8. volatilityRegime \subseteq Decisions
  <2>1. Decision("hold", 0, 30, TRUE) \in Decisions
    BY <1>3 DEF Decision, Decisions
  <2>2. ASSUME NEW risky \in BOOLEAN PROVE Decision("buy", REGIME_SIZE, 30, risky) \in Decisions
    BY <1>3 DEF Decision, Decisions, REGIME_SIZE
  <2> QED
    BY <2>1, <2>2 DEF volatilityRegime
<1> QED
  BY <1>5, <1>6, <1>7, <1>8 DEF evaluateStrategy, Strategies

Positions == [quantity : Nat, entryPrice : DeskPrices, planned : DeskPrices, counted : Nat]

LEMMA CostsGrow ==
    ASSUME NEW positions \in Seq(Positions)
    PROVE  /\ Total(Costs(positions)) \in Int
           /\ \A p \in Positions : Total(Costs(Append(positions, p))) =
                                     Total(Costs(positions)) + p.quantity * p.entryPrice
<1>1. ASSUME NEW p \in Positions PROVE p.quantity * p.entryPrice \in Int
  <2>1. p.quantity \in Nat /\ p.entryPrice \in Nat
    BY DeskAssumption DEF Positions
  <2>2. \A q, e \in Nat : q * e \in Int
    OBVIOUS
  <2> QED
    BY <2>1, <2>2
<1>2. /\ Len(positions) \in Nat
      /\ Costs(positions) \in [1..Len(positions) -> Int]
  BY <1>1 DEF Costs
<1>3. Total(Costs(positions)) \in Int
  BY <1>2, TotalIsInt
<1>4. ASSUME NEW p \in Positions
      PROVE  Total(Costs(Append(positions, p))) = Total(Costs(positions)) + p.quantity * p.entryPrice
  <2> DEFINE longer == Append(positions, p)
             n == Len(positions)
  <2>1. /\ longer \in Seq(Positions) /\ Len(longer) = n + 1 /\ longer[n + 1] = p
        /\ \A i \in 1..n : longer[i] = positions[i]
    OBVIOUS
  <2>2. \A i \in 1..(n + 1) : longer[i] \in Positions
    BY <2>1
  <2> HIDE DEF longer
  <2>3. DOMAIN longer = 1..(n + 1) /\ DOMAIN positions = 1..n /\ n + 1 \in 1..(n + 1)
    BY <1>2, <2>1
  <2>4. Costs(longer) \in [1..(n + 1) -> Int]
    BY <1>1, <2>2, <2>3 DEF Costs
  <2>5. Costs(longer)[n + 1] = p.quantity * p.entryPrice
    BY <2>1, <2>3 DEF Costs
  <2>6. \A i \in 1..n : Costs(positions)[i] = Costs(longer)[i]
    BY <2>1, <2>3 DEF Costs
  <2>7. Total(Costs(longer)) = Total(Costs(positions)) + Costs(longer)[n + 1]
    BY <1>2, <2>4, <2>6, TotalGrows
  <2> QED
    BY <2>5, <2>7 DEF longer
<1> QED
  BY <1>3, <1>4

\* What the first n positions have cost; that there is room for one more on top
\* of them; and that each position had it.
FilledBy(positions, n) == Total(Costs(SubSeq(positions, 1, n)))

Room(positions, n, notional) ==
  /\ n \in 0..Len(positions) /\ n < limits.maxOpenPositions
  /\ FilledBy(positions, n) + notional <= maxPositionSize

Fits(positions) ==
  \A i \in DOMAIN positions :
    /\ positions[i].counted < i
    /\ Room(positions, positions[i].counted, positions[i].quantity * positions[i].planned)

\* What comes after the first n does not matter.
LEMMA RoomStays ==
    ASSUME NEW positions \in Seq(Positions), NEW p \in Positions, NEW n, NEW notional,
           Room(positions, n, notional)
    PROVE  Room(Append(positions, p), n, notional)
<1> DEFINE longer == Append(positions, p)
<1>1. Len(longer) = Len(positions) + 1 /\ Len(positions) \in Nat /\ n \in 0..Len(positions)
  BY DEF Room
<1>2. SubSeq(longer, 1, n) = SubSeq(positions, 1, n)
  BY <1>1
<1>3. n \in 0..Len(longer)
  BY <1>1
<1> HIDE DEF longer
<1>4. Room(longer, n, notional)
  BY <1>2, <1>3 DEF Room, FilledBy
<1> QED
  BY <1>4 DEF longer

LEMMA FitsOneMore ==
    ASSUME NEW positions \in Seq(Positions), Fits(positions), NEW p \in Positions,
           Room(positions, p.counted, p.quantity * p.planned)
    PROVE  Fits(Append(positions, p))
<1> DEFINE longer == Append(positions, p)
           n == Len(positions)
           Fitted(i) == /\ longer[i].counted < i
                        /\ Room(longer, longer[i].counted, longer[i].quantity * longer[i].planned)
<1>1. /\ DOMAIN longer = 1..(n + 1) /\ DOMAIN positions = 1..n /\ n \in Nat
      /\ longer[n + 1] = p /\ \A i \in 1..n : longer[i] = positions[i] /\ positions[i] \in Positions
  OBVIOUS
<1>2. ASSUME NEW i \in 1..(n + 1) PROVE Fitted(i)
  <2>1. CASE i = n + 1
    <3>1. p.counted \in 0..n
      BY DEF Room
    <3>2. Room(longer, p.counted, p.quantity * p.planned)
      BY RoomStays
    <3> QED
      BY <1>1, <2>1, <3>1, <3>2
  <2>2. CASE i # n + 1
    <3>1. i \in 1..n
      BY <1>1, <2>2
    <3>2. /\ positions[i].counted < i
          /\ Room(positions, positions[i].counted, positions[i].quantity * positions[i].planned)
      BY <1>1, <3>1 DEF Fits
    <3>3. Room(longer, positions[i].counted, positions[i].quantity * positions[i].planned)
      BY <3>2, RoomStays
    <3> QED
      BY <1>1, <3>1, <3>2, <3>3
  <2> QED
    BY <2>1, <2>2
<1> HIDE DEF longer, n
<1>3. Fits(longer)
  BY <1>1, <1>2 DEF Fits
<1> QED
  BY <1>3 DEF longer

Risks == [approved : BOOLEAN, cappedPositionSize : Nat, counted : Nat]
PreparedOrders ==
  [quantity : Nat, planned : DeskPrices, counted : Nat, status : {"prepared", "rejected"}]

\* What is approved has room on top of the positions that were counted, whatever
\* has been opened since.
Holds(x, positions) ==
  /\ x.of = "signal" => x.answer \in Decisions
  /\ x.of = "risk" =>
       /\ x.answer \in Risks
       /\ x.answer.approved => Room(positions, x.answer.counted, x.answer.cappedPositionSize)
  /\ x.of = "order" =>
       /\ x.answer \in PreparedOrders
       /\ x.answer.status = "prepared" =>
            Room(positions, x.answer.counted, x.answer.quantity * x.answer.planned)

\* The account is in order, and so is what each workflow has in hand.
DeskInv ==
  /\ price \in DeskPrices
  /\ account \in [balance : Nat, openPositions : Seq(Positions)]
  /\ account.balance + currentPositionNotional = paperBalance
  /\ Fits(account.openPositions)
  /\ workflow = [w \in Workflows |-> workflow[w]]
  /\ \A w \in Workflows : Holds(workflow[w], account.openPositions)

LEMMA BegunHolds == ASSUME NEW positions PROVE Holds(Begun, positions)
BY DEF Begun, Holds

LEMMA DeskStarts == ASSUME DeskInit PROVE DeskInv
<1>1. /\ account = [balance |-> paperBalance, openPositions |-> <<>>]
      /\ price = CHOOSE p \in DeskPrices : TRUE
      /\ workflow = [w \in Workflows |-> Begun]
  BY DEF DeskInit
<1>2. price \in DeskPrices /\ paperBalance \in Nat
  BY <1>1, DeskAssumption
<1>3. account.balance = paperBalance /\ account.openPositions = <<>>
  BY <1>1
<1>4. Costs(<<>>) = <<>>
  BY DEF Costs
<1>5. currentPositionNotional = 0
  BY <1>3, <1>4, TotalOfNone DEF currentPositionNotional
<1>6. account \in [balance : Nat, openPositions : Seq(Positions)]
  BY <1>1, <1>2
<1>7. Fits(account.openPositions)
  BY <1>3 DEF Fits
<1>8. \A w \in Workflows : Holds(workflow[w], account.openPositions)
  BY <1>1, BegunHolds
<1> QED
  BY <1>1, <1>2, <1>3, <1>5, <1>6, <1>7, <1>8 DEF DeskInv

LEMMA SmallerIs ==
    ASSUME NEW a \in Nat, NEW b \in Nat
    PROVE  Smaller(a, b) \in Nat /\ Smaller(a, b) <= a /\ Smaller(a, b) <= b
BY DEF Smaller

LEMMA LimitIsNat == maxPositionSize \in Nat
<1>1. limits.maxPositionPct \in Nat /\ portfolioValue \in Nat
  BY DeskAssumption
<1>2. \A a, b \in Nat : a * b \in Nat
  OBVIOUS
<1>3. \A a \in Nat : a \div 1000 \in Nat
  OBVIOUS
<1> QED
  BY <1>1, <1>2, <1>3 DEF maxPositionSize, Mille

LEMMA RiskIsCapped ==
    ASSUME account \in [balance : Nat, openPositions : Seq(Positions)],
           NEW d \in Decisions, NEW halted, NEW pct \in RiskPcts
    PROVE  /\ cappedPositionSize(d, pct) \in Nat
           /\ ~refused(d, halted) =>
                Room(account.openPositions, Len(account.openPositions), cappedPositionSize(d, pct))
<1> DEFINE positions == account.openPositions
<1>1. /\ d.size \in Nat /\ d.stop \in Nat \ {0} /\ (d.signal # "hold" => d.size > 0)
      /\ portfolioValue \in Nat /\ pct \in Nat
      /\ limits.maxPositionPct \in Nat /\ limits.maxOpenPositions \in Nat
  BY DeskAssumption DEF Decisions, Stops
<1>2. \A a, b \in Nat : a * b \in Nat
  OBVIOUS
<1>3. \A a \in Nat, b \in Nat \ {0} : a \div b \in Nat
  OBVIOUS
<1>4. maxPositionSize \in Nat
  BY LimitIsNat
<1>5. cappedByRisk(d, pct) \in Nat
  BY <1>1, <1>2, <1>3 DEF cappedByRisk
<1>6. PICK rest : rest = IF pct = 0 THEN maxPositionSize
                         ELSE Smaller(maxPositionSize, cappedByRisk(d, pct))
  OBVIOUS
<1>7. rest \in Nat
  BY <1>4, <1>5, <1>6, SmallerIs
<1>8. cappedPositionSize(d, pct) = Smaller(IF d.size > 0 THEN d.size ELSE maxPositionSize, rest)
  BY <1>6 DEF cappedPositionSize
<1>9. PICK cap : cap = cappedPositionSize(d, pct)
  OBVIOUS
<1>10. cap \in Nat /\ (d.size > 0 => cap <= d.size)
  <2>1. CASE d.size > 0
    BY <1>1, <1>7, <1>8, <1>9, <2>1, SmallerIs
  <2>2. CASE ~ (d.size > 0)
    BY <1>4, <1>7, <1>8, <1>9, <2>2, SmallerIs
  <2> QED
    BY <2>1, <2>2
<1>11. ASSUME ~refused(d, halted)
       PROVE  Room(positions, Len(positions), cap)
  <2>1. d.signal # "hold" /\ ~ (Len(positions) >= limits.maxOpenPositions)
    BY <1>11 DEF refused
  <2>2. d.size > 0
    BY <1>1, <2>1
  <2>3. ~ (currentPositionNotional + d.size > maxPositionSize)
    BY <1>11, <2>2 DEF refused
  <2>4. positions \in Seq(Positions)
    OBVIOUS
  <2>5. Len(positions) \in Nat /\ currentPositionNotional \in Int
    BY <2>4, CostsGrow DEF currentPositionNotional
  <2>6. SubSeq(positions, 1, Len(positions)) = positions
    BY <2>4
  <2>7. FilledBy(positions, Len(positions)) = currentPositionNotional
    BY <2>6 DEF FilledBy, currentPositionNotional
  <2> HIDE DEF positions
  <2> QED
    BY <1>1, <1>4, <1>10, <2>1, <2>2, <2>3, <2>5, <2>7 DEF Room
<1> QED
  BY <1>9, <1>10, <1>11

LEMMA DeskRests == ASSUME DeskInv, UNCHANGED deskVars PROVE DeskInv'
<1>1. account' = account /\ price' = price /\ workflow' = workflow
  BY DEF deskVars
<1>2. currentPositionNotional' = currentPositionNotional
  BY <1>1 DEF currentPositionNotional
<1> QED
  BY <1>1, <1>2 DEF DeskInv

\* What a workflow comes to holds if its account does not change.
LEMMA AnswerHolds ==
    ASSUME DeskInv, NEW w \in Workflows, NEW x, Holds(x, account.openPositions),
           workflow' = [workflow EXCEPT ![w] = x], UNCHANGED <<account, price>>
    PROVE  DeskInv'
<1>1. workflow = [v \in Workflows |-> workflow[v]]
  BY DEF DeskInv
<1>2. /\ workflow' = [v \in Workflows |-> workflow'[v]]
      /\ \A v \in Workflows : workflow'[v] = IF v = w THEN x ELSE workflow[v]
  BY <1>1
<1>3. currentPositionNotional' = currentPositionNotional
  BY DEF currentPositionNotional
<1>4. \A v \in Workflows : Holds(workflow'[v], account.openPositions)
  BY <1>2 DEF DeskInv
<1> QED
  BY <1>2, <1>3, <1>4 DEF DeskInv

LEMMA SignalKeeps ==
    ASSUME DeskInv, NEW w \in Workflows, generateSignal(w) PROVE DeskInv'
<1>1. PICK strategyId \in Strategies :
        \E d \in evaluateStrategy(strategyId, portfolioValue) : Answers(w, "signal", d)
  BY DEF generateSignal
<1> PICK d \in evaluateStrategy(strategyId, portfolioValue) : Answers(w, "signal", d)
  BY <1>1
<1>2. PICK x : x = [of |-> "signal", answer |-> d]
  OBVIOUS
<1>3. Holds(x, account.openPositions)
  BY <1>2, StrategiesDecide DEF Holds
<1>4. workflow' = [workflow EXCEPT ![w] = x] /\ UNCHANGED <<account, price>>
  BY <1>2 DEF generateSignal, Answers
<1> QED
  BY <1>3, <1>4, AnswerHolds

LEMMA RiskKeeps ==
    ASSUME DeskInv, NEW w \in Workflows, evaluateRisk(w) PROVE DeskInv'
<1>1. PICK halted \in {{}} \cup {{h} : h \in Halts}, pct \in RiskPcts :
        Answers(w, "risk", evaluatePrivateRisk(workflow[w].answer, halted, pct))
  BY DEF evaluateRisk
<1>2. PICK d : d = workflow[w].answer
  OBVIOUS
<1>3. d \in Decisions /\ account \in [balance : Nat, openPositions : Seq(Positions)]
  BY <1>2 DEF evaluateRisk, Has, DeskInv, Holds
<1>4. PICK cap, ok, counted :
        cap = cappedPositionSize(d, pct) /\ ok = ~refused(d, halted)
          /\ counted = Len(account.openPositions)
  OBVIOUS
<1>5. PICK r : r = [approved |-> ok, cappedPositionSize |-> cap, counted |-> counted]
  OBVIOUS
<1>6. cap \in Nat /\ ok \in BOOLEAN /\ counted \in Nat
      /\ (ok => Room(account.openPositions, counted, cap))
  <2>1. Len(account.openPositions) \in Nat
    <3>1. account.openPositions \in Seq(Positions)
      BY <1>3
    <3> QED
      BY <3>1
  <2>2. /\ cappedPositionSize(d, pct) \in Nat
        /\ ~refused(d, halted) =>
             Room(account.openPositions, Len(account.openPositions), cappedPositionSize(d, pct))
    BY <1>3, RiskIsCapped
  <2>3. ok \in BOOLEAN
    BY <1>4
  <2> QED
    BY <1>4, <2>1, <2>2, <2>3
<1>7. r \in Risks /\ r.approved = ok /\ r.cappedPositionSize = cap /\ r.counted = counted
  BY <1>5, <1>6 DEF Risks
<1>8. PICK x : x = [of |-> "risk", answer |-> r]
  OBVIOUS
<1>9. Holds(x, account.openPositions)
  BY <1>6, <1>7, <1>8 DEF Holds
<1>10. workflow' = [workflow EXCEPT ![w] = x] /\ UNCHANGED <<account, price>>
  BY <1>1, <1>2, <1>4, <1>5, <1>8 DEF evaluateRisk, Answers, evaluatePrivateRisk
<1> QED
  BY <1>9, <1>10, AnswerHolds

LEMMA Quotient ==
    ASSUME NEW size \in Nat, NEW p \in Nat \ {0}
    PROVE  size \div p \in Nat /\ (size \div p) * p <= size
OBVIOUS

\* An order at the planned price costs no more than the cap.
LEMMA RoomForLess ==
    ASSUME NEW positions \in Seq(Positions), NEW n, NEW most \in Nat, NEW cost \in Nat,
           cost <= most, Room(positions, n, most)
    PROVE  Room(positions, n, cost)
<1>1. n \in 0..Len(positions) /\ Len(positions) \in Nat
  BY DEF Room
<1>2. SubSeq(positions, 1, n) \in Seq(Positions)
  <2>1. n \in Nat /\ \A i \in 1..n : i \in 1..Len(positions)
    BY <1>1
  <2> QED
    BY <2>1
<1>3. FilledBy(positions, n) \in Int
  BY <1>2, CostsGrow DEF FilledBy
<1>4. maxPositionSize \in Nat
  BY LimitIsNat
<1> QED
  BY <1>3, <1>4 DEF Room

LEMMA OrderKeeps ==
    ASSUME DeskInv, NEW w \in Workflows, prepareOrder(w) PROVE DeskInv'
<1>1. PICK r : r = workflow[w].answer
  OBVIOUS
<1>2. /\ r \in Risks
      /\ r.approved => Room(account.openPositions, r.counted, r.cappedPositionSize)
      /\ account \in [balance : Nat, openPositions : Seq(Positions)]
      /\ price \in DeskPrices
  BY <1>1 DEF prepareOrder, Has, DeskInv, Holds
<1>3. PICK quantity : quantity = r.cappedPositionSize \div price
  OBVIOUS
<1>4. /\ price \in Nat \ {0} /\ r.cappedPositionSize \in Nat /\ r.counted \in Nat
      /\ account.openPositions \in Seq(Positions)
  BY <1>2, DeskAssumption DEF Risks
<1>5. quantity \in Nat /\ quantity * price <= r.cappedPositionSize /\ quantity * price \in Nat
  BY <1>3, <1>4, Quotient
<1>6. PICK status : status = IF prepared(quantity, r.approved) THEN "prepared" ELSE "rejected"
  OBVIOUS
<1>7. PICK order :
        order = [quantity |-> quantity, planned |-> price, counted |-> r.counted,
                 status |-> status]
  OBVIOUS
<1>8. /\ order \in PreparedOrders /\ order.status = status /\ order.quantity = quantity
      /\ order.planned = price /\ order.counted = r.counted
  BY <1>2, <1>4, <1>5, <1>6, <1>7 DEF PreparedOrders
<1>9. ASSUME status = "prepared" PROVE Room(account.openPositions, r.counted, quantity * price)
  <2>1. Room(account.openPositions, r.counted, r.cappedPositionSize)
    BY <1>2, <1>6, <1>9 DEF prepared
  <2> QED
    BY <1>4, <1>5, <2>1, RoomForLess
<1>10. PICK x : x = [of |-> "order", answer |-> order]
  OBVIOUS
<1>11. Holds(x, account.openPositions)
  BY <1>8, <1>9, <1>10 DEF Holds
<1>12. workflow' = [workflow EXCEPT ![w] = x] /\ UNCHANGED <<account, price>>
  BY <1>1, <1>3, <1>6, <1>7, <1>10 DEF prepareOrder, Answers, preparePrivateOrder
<1> QED
  BY <1>11, <1>12, AnswerHolds

LEMMA ExecutionKeeps ==
    ASSUME DeskInv, NEW w \in Workflows, executePaperOrder(w) PROVE DeskInv'
<1>1. PICK order : order = workflow[w].answer
  OBVIOUS
<1>2. /\ account' = executePrivatePaperOrder(order)
      /\ workflow' = [workflow EXCEPT ![w] = Begun]
      /\ price' = price
  BY <1>1 DEF executePaperOrder, WorkflowEnds
<1>3. /\ price \in DeskPrices
      /\ account \in [balance : Nat, openPositions : Seq(Positions)]
      /\ account.balance + currentPositionNotional = paperBalance
      /\ Fits(account.openPositions)
      /\ workflow = [v \in Workflows |-> workflow[v]]
      /\ \A v \in Workflows : Holds(workflow[v], account.openPositions)
  BY DEF DeskInv
<1>4. /\ order \in PreparedOrders
      /\ order.status = "prepared" =>
           Room(account.openPositions, order.counted, order.quantity * order.planned)
  BY <1>1, <1>3 DEF executePaperOrder, Has, Holds
<1>5. CASE order.status = "prepared" /\ funded(order)
  <2> DEFINE quantity == order.quantity
             cost == quantity * price
             p == [quantity |-> quantity, entryPrice |-> price, planned |-> order.planned,
                   counted |-> order.counted]
             positions == account.openPositions
  <2>1. account' = [balance |-> account.balance - cost, openPositions |-> Append(positions, p)]
    BY <1>2, <1>5 DEF executePrivatePaperOrder
  <2>2. /\ quantity \in Nat /\ order.planned \in DeskPrices /\ order.counted \in Nat
        /\ account.balance \in Nat /\ positions \in Seq(Positions)
    BY <1>3, <1>4 DEF PreparedOrders
  <2>3. price \in Nat
    BY <1>3, DeskAssumption
  <2>4. cost \in Nat
    BY <2>2, <2>3
  <2>5. cost <= account.balance
    BY <1>5 DEF funded
  <2>6. /\ p \in Positions /\ p.quantity = quantity /\ p.entryPrice = price
        /\ p.planned = order.planned /\ p.counted = order.counted
    BY <1>3, <2>2 DEF Positions
  <2> HIDE DEF cost, p, quantity, positions
  <2>7. Total(Costs(positions)) \in Int /\ Total(Costs(Append(positions, p))) = Total(Costs(positions)) + cost
    BY <2>2, <2>6, CostsGrow DEF cost
  <2>8. /\ account'.balance = account.balance - cost
        /\ account'.openPositions = Append(positions, p)
    BY <2>1
  <2>9. account.balance - cost \in Nat
    BY <2>2, <2>4, <2>5
  <2>10. Append(positions, p) \in Seq(Positions)
    BY <2>2, <2>6
  <2>11. account' \in [balance : Nat, openPositions : Seq(Positions)]
    BY <2>1, <2>9, <2>10
  <2>12. /\ currentPositionNotional = Total(Costs(positions))
         /\ currentPositionNotional' = Total(Costs(Append(positions, p)))
    BY <2>8 DEF currentPositionNotional, positions
  <2>13. (account.balance + currentPositionNotional)' = paperBalance
    BY <1>3, <2>2, <2>4, <2>7, <2>8, <2>12
  <2>14. Room(positions, p.counted, p.quantity * p.planned)
    BY <1>4, <1>5, <2>6 DEF quantity, positions
  <2>15. Fits(Append(positions, p))
    BY <1>3, <2>2, <2>6, <2>14, FitsOneMore DEF positions
  <2>16. \A v \in Workflows : Holds(workflow[v], Append(positions, p))
    BY <1>3, <2>2, <2>6, RoomStays DEF Holds, positions
  <2>17. /\ workflow' = [v \in Workflows |-> workflow'[v]]
         /\ \A v \in Workflows : workflow'[v] = IF v = w THEN Begun ELSE workflow[v]
    BY <1>2, <1>3
  <2>18. \A v \in Workflows : Holds(workflow'[v], Append(positions, p))
    BY <2>16, <2>17, BegunHolds
  <2> QED
    BY <1>2, <1>3, <2>8, <2>11, <2>13, <2>15, <2>17, <2>18 DEF DeskInv
<1>6. CASE ~ (order.status = "prepared" /\ funded(order))
  <2>1. account' = account
    BY <1>2, <1>6 DEF executePrivatePaperOrder
  <2> QED
    BY <1>2, <2>1, BegunHolds, AnswerHolds
<1> QED
  BY <1>5, <1>6

LEMMA DeskKeeps == ASSUME DeskInv, DeskNext PROVE DeskInv'
<1>1. ASSUME NEW w \in Workflows, RequestFails(w) PROVE DeskInv'
  <2>1. workflow' = [workflow EXCEPT ![w] = Begun] /\ UNCHANGED <<account, price>>
    BY <1>1 DEF RequestFails, WorkflowEnds
  <2> QED
    BY <2>1, BegunHolds, AnswerHolds
<1>2. CASE PriceMoves
  <2>1. price' \in DeskPrices /\ account' = account /\ workflow' = workflow
    BY <1>2 DEF PriceMoves
  <2>2. currentPositionNotional' = currentPositionNotional
    BY <2>1 DEF currentPositionNotional
  <2> QED
    BY <2>1, <2>2 DEF DeskInv
<1> QED
  BY <1>1, <1>2, SignalKeeps, RiskKeeps, OrderKeeps, ExecutionKeeps DEF DeskNext

LEMMA DeskPromise == ASSUME DeskInv PROVE AccountHolds
<1>1. /\ account \in [balance : Nat, openPositions : Seq(Positions)]
      /\ account.balance + currentPositionNotional = paperBalance
      /\ Fits(account.openPositions)
  BY DEF DeskInv
<1>2. account.balance >= 0
  BY <1>1
<1>3. \A i \in DOMAIN account.openPositions :
        LET p == account.openPositions[i]
        IN /\ p.counted < i /\ p.counted < limits.maxOpenPositions
           /\ Filled(p.counted) + p.quantity * p.planned <= maxPositionSize
  BY <1>1 DEF Fits, Room, FilledBy, Filled
<1> QED
  BY <1>1, <1>2, <1>3 DEF AccountHolds

-----------------------------------------------------------------------------
(* The backtest.                                                           *)

Trades == [quantity : Nat \ {0}, entry : Prices, exit : Prices \cup {Open}]

\* Cash and position, priced at any close, are what the trades add up to; of
\* these only the last may be open, and it is the position.
Explains(left, held, all) ==
  /\ left \in Nat /\ held \in Nat /\ all \in Seq(Trades)
  /\ \A i \in DOMAIN all : all[i].exit = Open => i = Len(all) /\ held > 0
  /\ held > 0 => all # <<>> /\ all[Len(all)].exit = Open /\ all[Len(all)].quantity = held
  /\ \A close \in Int : left + held * close = initialBalance + Total(Pnls(all, close))

BacktestInv ==
  /\ Explains(cash, position, trades)
  /\ entryPrice \in Nat
  /\ closes \in Seq(Prices) /\ equityCurve \in Seq(Int) /\ Len(equityCurve) = Len(closes)
  /\ equityCurve # <<>> => Last(equityCurve) = cash + position * Last(closes)

LEMMA PnlIsInt ==
    ASSUME NEW trade \in Trades, NEW close \in Int
    PROVE  Pnl(trade, close) \in Int
<1>1. /\ trade.quantity \in Int /\ trade.entry \in Int /\ trade.exit \in Int
  <2>1. Prices \subseteq Int /\ Open \in Int
    BY BacktestAssumption DEF Open
  <2>2. trade.quantity \in Nat /\ trade.entry \in Prices /\ trade.exit \in Prices \cup {Open}
    BY DEF Trades
  <2>3. trade.entry \in Int /\ trade.exit \in Int
    BY <2>1, <2>2, Zenon
  <2> QED
    BY <2>2, <2>3
<1>2. \A a, b \in Int : a * b \in Int /\ a - b \in Int
  OBVIOUS
<1> QED
  BY <1>1, <1>2 DEF Pnl

LEMMA PnlsAre ==
    ASSUME NEW all \in Seq(Trades), NEW close \in Int
    PROVE  /\ Len(all) \in Nat /\ DOMAIN all = 1..Len(all)
           /\ Pnls(all, close) \in [1..Len(all) -> Int]
           /\ \A i \in 1..Len(all) : Pnls(all, close)[i] = Pnl(all[i], close)
<1>1. /\ Len(all) \in Nat /\ DOMAIN all = 1..Len(all)
      /\ \A i \in 1..Len(all) : all[i] \in Trades
  OBVIOUS
<1>2. Pnls(all, close) = [i \in 1..Len(all) |-> Pnl(all[i], close)]
  BY <1>1 DEF Pnls
<1>3. \A i \in 1..Len(all) : Pnl(all[i], close) \in Int
  BY <1>1, PnlIsInt
<1> QED
  BY <1>1, <1>2, <1>3

\* The last trade counts on top of those before it, which both have in common.
LEMMA LastTradeCounts ==
    ASSUME NEW n \in Nat, NEW some \in Seq(Trades), NEW all \in Seq(Trades),
           Len(some) = n, Len(all) = n + 1, \A i \in 1..n : all[i] = some[i],
           NEW close \in Int
    PROVE  /\ Total(Pnls(all, close)) = Total(Pnls(some, close)) + Pnl(all[n + 1], close)
           /\ Total(Pnls(some, close)) \in Int
<1>1. /\ Pnls(some, close) \in [1..n -> Int]
      /\ \A i \in 1..n : Pnls(some, close)[i] = Pnl(some[i], close)
  BY PnlsAre
<1>2. /\ Pnls(all, close) \in [1..(n + 1) -> Int]
      /\ \A i \in 1..(n + 1) : Pnls(all, close)[i] = Pnl(all[i], close)
  BY PnlsAre
<1>3. \A i \in 1..n : Pnls(some, close)[i] = Pnls(all, close)[i]
  <2> TAKE i \in 1..n
  <2>1. i \in 1..(n + 1)
    OBVIOUS
  <2> QED
    BY <1>1, <1>2, <2>1
<1>4. Total(Pnls(all, close)) = Total(Pnls(some, close)) + Pnls(all, close)[n + 1]
  BY <1>1, <1>2, <1>3, TotalGrows
<1>5. n + 1 \in 1..(n + 1)
  OBVIOUS
<1>6. Total(Pnls(some, close)) \in Int
  BY <1>1, TotalIsInt
<1> QED
  BY <1>2, <1>4, <1>5, <1>6

LEMMA PurchaseExplains ==
    ASSUME NEW left, NEW all, Explains(left, 0, all), NEW bought \in Nat \ {0},
           NEW close \in Prices, bought * close <= left
    PROVE  Explains(left - bought * close, bought,
                    Append(all, [quantity |-> bought, entry |-> close, exit |-> Open]))
<1> DEFINE trade == [quantity |-> bought, entry |-> close, exit |-> Open]
           longer == Append(all, trade)
           n == Len(all)
<1>1. /\ left \in Nat /\ all \in Seq(Trades) /\ close \in Nat \ {0} /\ initialBalance \in Nat
      /\ \A i \in DOMAIN all : all[i].exit # Open
      /\ \A c \in Int : left + 0 * c = initialBalance + Total(Pnls(all, c))
  BY BacktestAssumption DEF Explains
<1>2. /\ trade \in Trades /\ trade.exit = Open /\ trade.quantity = bought /\ trade.entry = close
  BY DEF Trades
<1> HIDE DEF trade
<1>3. /\ longer \in Seq(Trades) /\ Len(longer) = n + 1 /\ n \in Nat /\ longer[n + 1] = trade
      /\ \A i \in 1..n : longer[i] = all[i]
      /\ longer # <<>>
  BY <1>1, <1>2
<1>4. DOMAIN longer = 1..(n + 1) /\ DOMAIN all = 1..n
  BY <1>1, <1>3
<1> HIDE DEF longer, n
<1>5. ASSUME NEW c \in Int
      PROVE  (left - bought * close) + bought * c = initialBalance + Total(Pnls(longer, c))
  <2>1. /\ Total(Pnls(longer, c)) = Total(Pnls(all, c)) + Pnl(trade, c)
        /\ Total(Pnls(all, c)) \in Int
    BY <1>1, <1>3, LastTradeCounts DEF n
  <2>2. Pnl(trade, c) = (c - close) * bought
    BY <1>2 DEF Pnl
  <2>3. (c - close) * bought = bought * c - bought * close
    BY <1>1
  <2>4. PICK product, cost : product = bought * c /\ cost = bought * close
    OBVIOUS
  <2>5. product \in Int /\ cost \in Int
    BY <1>1, <2>4
  <2>6. left = initialBalance + Total(Pnls(all, c))
    BY <1>1
  <2> QED
    BY <1>1, <2>1, <2>2, <2>3, <2>4, <2>5, <2>6
<1>6. left - bought * close \in Nat
  BY <1>1
<1>7. \A i \in DOMAIN longer : longer[i].exit = Open => i = n + 1
  BY <1>1, <1>3, <1>4
<1>8. Explains(left - bought * close, bought, longer)
  <2>1. longer[Len(longer)].exit = Open /\ longer[Len(longer)].quantity = bought
    BY <1>2, <1>3
  <2>2. \A i \in DOMAIN longer : longer[i].exit = Open => i = Len(longer) /\ bought > 0
    BY <1>3, <1>7
  <2>3. PICK rest : rest = left - bought * close
    OBVIOUS
  <2>4. \A c \in Int : rest + bought * c = initialBalance + Total(Pnls(longer, c))
    BY <1>5, <2>3
  <2>5. Explains(rest, bought, longer)
    BY <1>3, <1>6, <2>1, <2>2, <2>3, <2>4 DEF Explains
  <2> QED
    BY <2>3, <2>5
<1> QED
  BY <1>8 DEF longer, trade

LEMMA SaleExplains ==
    ASSUME NEW left, NEW held, NEW all, Explains(left, held, all), held > 0,
           NEW close \in Prices
    PROVE  Explains(left + held * close, 0,
                    [all EXCEPT ![Len(all)].exit = IF @ = Open THEN close ELSE @])
<1> DEFINE n == Len(all) - 1
           sold == [all EXCEPT ![Len(all)].exit = IF @ = Open THEN close ELSE @]
           some == SubSeq(all, 1, n)
           trade == all[Len(all)]
<1>1. /\ left \in Nat /\ held \in Nat /\ all \in Seq(Trades) /\ close \in Nat \ {0}
      /\ initialBalance \in Nat
      /\ \A i \in DOMAIN all : all[i].exit = Open => i = Len(all)
      /\ all # <<>> /\ trade.exit = Open /\ trade.quantity = held
      /\ \A c \in Int : left + held * c = initialBalance + Total(Pnls(all, c))
  BY BacktestAssumption DEF Explains
<1>2. /\ n \in Nat /\ Len(all) = n + 1 /\ DOMAIN all = 1..(n + 1) /\ trade \in Trades
      /\ some \in Seq(Trades) /\ Len(some) = n /\ \A i \in 1..n : some[i] = all[i]
  <2>1. Len(all) \in Nat \ {0} /\ DOMAIN all = 1..Len(all)
    BY <1>1
  <2>2. n \in Nat /\ Len(all) = n + 1 /\ Len(all) \in DOMAIN all
    BY <2>1
  <2>3. trade \in Trades
    BY <1>1, <2>2
  <2>4. some \in Seq(Trades) /\ Len(some) = n /\ \A i \in 1..n : some[i] = all[i]
    <3>1. PICK k : k = n
      OBVIOUS
    <3>2. k \in Nat /\ k <= Len(all) /\ all \in Seq(Trades)
      BY <1>1, <2>2, <3>1
    <3> HIDE DEF n
    <3>3. /\ SubSeq(all, 1, k) \in Seq(Trades) /\ Len(SubSeq(all, 1, k)) = k
          /\ \A i \in 1..k : SubSeq(all, 1, k)[i] = all[i]
      BY <3>2
    <3> QED
      BY <3>1, <3>3
  <2> QED
    BY <2>1, <2>2, <2>3, <2>4
<1>3. sold = [all EXCEPT ![n + 1] = [trade EXCEPT !.exit = close]]
  BY <1>1, <1>2
<1>4. PICK last : last = [trade EXCEPT !.exit = close]
  OBVIOUS
<1>5. /\ last \in Trades /\ last.exit = close /\ last.quantity = held /\ last.entry = trade.entry
      /\ trade.entry \in Nat
  BY <1>1, <1>2, <1>4, BacktestAssumption DEF Trades
<1> HIDE DEF sold, n, some, trade
<1>6. /\ sold \in Seq(Trades) /\ Len(sold) = n + 1 /\ sold[n + 1] = last
      /\ \A i \in 1..n : sold[i] = all[i]
      /\ DOMAIN sold = 1..(n + 1)
  <2>1. sold = [all EXCEPT ![n + 1] = last] /\ n + 1 \in 1..(n + 1)
    BY <1>2, <1>3, <1>4
  <2>2. Len(all) = n + 1 /\ all \in [1..(n + 1) -> Trades]
    BY <1>1, <1>2
  <2>3. sold \in [1..(n + 1) -> Trades]
    BY <1>5, <2>1, <2>2
  <2>4. sold \in Seq(Trades) /\ Len(sold) = n + 1
    BY <1>2, <2>3
  <2>5. sold[n + 1] = last /\ \A i \in 1..n : sold[i] = all[i]
    BY <1>2, <2>1, <2>2
  <2> QED
    BY <2>3, <2>4, <2>5
<1>7. ASSUME NEW c \in Int
      PROVE  (left + held * close) + 0 * c = initialBalance + Total(Pnls(sold, c))
  <2>1. \A i \in 1..n : sold[i] = some[i] /\ all[i] = some[i]
    BY <1>2, <1>6
  <2>2. /\ Total(Pnls(sold, c)) = Total(Pnls(some, c)) + Pnl(last, c)
        /\ Total(Pnls(some, c)) \in Int
    <3>1. /\ n \in Nat /\ some \in Seq(Trades) /\ sold \in Seq(Trades)
          /\ Len(some) = n /\ Len(sold) = n + 1 /\ \A i \in 1..n : sold[i] = some[i]
      BY <1>2, <1>6, <2>1
    <3>2. /\ Total(Pnls(sold, c)) = Total(Pnls(some, c)) + Pnl(sold[n + 1], c)
          /\ Total(Pnls(some, c)) \in Int
      BY <3>1, LastTradeCounts
    <3> QED
      BY <1>6, <3>2
  <2>3. Total(Pnls(all, close)) = Total(Pnls(some, close)) + Pnl(trade, close)
    <3>1. close \in Int /\ all[n + 1] = trade
      BY <1>1, <1>2 DEF trade
    <3>2. /\ n \in Nat /\ some \in Seq(Trades) /\ all \in Seq(Trades)
          /\ Len(some) = n /\ Len(all) = n + 1 /\ \A i \in 1..n : all[i] = some[i]
      BY <1>1, <1>2, <2>1
    <3>3. Total(Pnls(all, close)) = Total(Pnls(some, close)) + Pnl(all[n + 1], close)
      BY <3>1, <3>2, LastTradeCounts
    <3> QED
      BY <3>1, <3>3
  <2>4. Pnl(last, c) = (close - trade.entry) * held /\ Pnl(trade, close) = (close - trade.entry) * held
    BY <1>1, <1>5 DEF Pnl, Open
  <2>5. Total(Pnls(some, c)) = Total(Pnls(some, close))
    <3>1. ASSUME NEW i \in 1..n PROVE Pnl(some[i], c) = Pnl(some[i], close)
      <4>1. i \in 1..(n + 1) /\ i # Len(all)
        BY <1>2
      <4>2. some[i].exit # Open
        BY <1>1, <1>2, <4>1
      <4> QED
        BY <4>2 DEF Pnl
    <3>2. Pnls(some, c) = Pnls(some, close)
      BY <1>1, <1>2, <3>1 DEF Pnls
    <3> QED
      BY <3>2
  <2>6. left + held * close = initialBalance + Total(Pnls(all, close))
    BY <1>1
  <2>7. Total(Pnls(sold, c)) = Total(Pnls(all, close))
    BY <2>2, <2>3, <2>4, <2>5
  <2> QED
    BY <1>1, <2>6, <2>7
<1>8. left + held * close \in Nat
  <2>1. PICK value : value = held * close
    OBVIOUS
  <2>2. value \in Nat
    BY <1>1, <2>1
  <2>3. left + value \in Nat
    BY <1>1, <2>2
  <2> QED
    BY <2>1, <2>3, Zenon
<1>9. \A i \in DOMAIN sold : sold[i].exit # Open
  <2> TAKE i \in DOMAIN sold
  <2>1. CASE i = n + 1
    BY <1>1, <1>5, <1>6, <2>1 DEF Open
  <2>2. CASE i # n + 1
    <3>1. i \in 1..n /\ i \in 1..(n + 1)
      BY <1>2, <1>6, <2>2
    <3>2. all[i].exit # Open
      BY <1>1, <1>2, <2>2, <3>1
    <3> QED
      BY <1>6, <3>1, <3>2
  <2> QED
    BY <2>1, <2>2
<1>10. Explains(left + held * close, 0, sold)
  <2>1. PICK rest : rest = left + held * close
    OBVIOUS
  <2>2. \A c \in Int : rest + 0 * c = initialBalance + Total(Pnls(sold, c))
    BY <1>7, <2>1
  <2>3. rest \in Nat
    BY <1>8, <2>1
  <2>4. Explains(rest, 0, sold)
    <3>1. \A i \in DOMAIN sold : sold[i].exit = Open => i = Len(sold) /\ 0 > 0
      BY <1>9
    <3>2. ~ (0 > 0) /\ 0 \in Nat
      OBVIOUS
    <3> QED
      BY <1>6, <2>2, <2>3, <3>1, <3>2, Zenon DEF Explains
  <2> QED
    BY <2>1, <2>4
<1> QED
  BY <1>10 DEF sold

TrendDecisions == [signal : {"buy", "sell", "hold"}, size : Nat, stop : Stops, risky : BOOLEAN]

LEMMA TrendDecides ==
    ASSUME NEW value \in Nat
    PROVE  trendFollowingDecision(value) \subseteq TrendDecisions
<1>1. 35 \in Stops /\ 30 \in Stops /\ 10 \in ShareSizes /\ 80 \in ShareSizes
  BY DEF Stops, ShareSizes
<1>2. Mille(10, value) \in Nat /\ Mille(80, value) \in Nat
  BY <1>1, Shares DEF ShareSizes
<1>3. ASSUME NEW share \in {10, 80}, NEW signal \in {"buy", "sell"}, NEW risky \in BOOLEAN
      PROVE  Decision(signal, Mille(share, value), 35, risky) \in TrendDecisions
  BY <1>1, <1>2 DEF Decision, TrendDecisions
<1>4. ASSUME NEW risky \in BOOLEAN PROVE Decision("hold", 0, 35, risky) \in TrendDecisions
  BY <1>1 DEF Decision, TrendDecisions
<1>5. Sized(35, 10, 80, value) \subseteq TrendDecisions
  BY <1>3, <1>4 DEF Sized
<1> QED
  BY <1>5 DEF trendFollowingDecision, trendFollowing

LEMMA LeastOfTwo ==
    ASSUME NEW a \in Nat, NEW b \in Nat
    PROVE  Least({a, b}) \in Nat /\ Least({a, b}) <= a /\ Least({a, b}) <= b
<1>1. \E x \in {a, b} : \A y \in {a, b} : x <= y
  BY SMT
<1>2. Least({a, b}) \in {a, b} /\ \A y \in {a, b} : Least({a, b}) <= y
  BY <1>1 DEF Least
<1> QED
  BY <1>2

LEMMA AllocationFits ==
    ASSUME NEW value \in Nat, NEW d \in TrendDecisions, cash \in Nat
    PROVE  Allocation(d, value) \in Nat /\ Allocation(d, value) <= cash
<1>1. d.size \in Nat /\ d.stop \in Nat \ {0}
  BY DEF TrendDecisions, Stops
<1>2. \A a \in Nat, b \in Nat \ {0} : a \div b \in Nat
  OBVIOUS
<1>3. (MaxRiskPerTrade * value) \div d.stop \in Nat
  <2>1. MaxRiskPerTrade * value \in Nat
    BY DEF MaxRiskPerTrade
  <2> QED
    BY <1>1, <1>2, <2>1
<1>4. RiskCapped(d, value) \in Nat
  BY <1>1, <1>3, LeastOfTwo DEF RiskCapped
<1>5. cash \div 4 \in Nat /\ cash \div 4 <= cash
  OBVIOUS
<1>6. Allocation(d, value) \in Nat /\ Allocation(d, value) <= cash \div 4
  BY <1>4, <1>5, LeastOfTwo DEF Allocation
<1> QED
  BY <1>5, <1>6

LEMMA BacktestStarts == ASSUME BacktestInit PROVE BacktestInv
<1>1. /\ cash = initialBalance /\ position = 0 /\ entryPrice = 0
      /\ trades = <<>> /\ equityCurve = <<>> /\ closes = <<>>
  BY DEF BacktestInit
<1>2. initialBalance \in Nat
  BY BacktestAssumption
<1>3. \A close \in Int : initialBalance + 0 * close = initialBalance + Total(Pnls(<<>>, close))
  <2> TAKE close \in Int
  <2>1. Pnls(<<>>, close) = <<>>
    BY DEF Pnls
  <2> QED
    BY <1>2, <2>1, TotalOfNone
<1>4. Explains(initialBalance, 0, <<>>)
  BY <1>2, <1>3 DEF Explains
<1> QED
  BY <1>1, <1>4 DEF BacktestInv

LEMMA CandleKeeps ==
    ASSUME BacktestInv, NEW close \in Prices, NEW d \in TrendDecisions, Candle(close, d)
    PROVE  BacktestInv'
<1> DEFINE equity == cash + position * close
           bought == IF Enters(d, equity) THEN Allocation(d, equity) \div close ELSE 0
           held == position + bought
           entry == IF bought > 0 THEN close ELSE entryPrice
           all == IF bought > 0
                  THEN Append(trades, [quantity |-> bought, entry |-> close, exit |-> Open])
                  ELSE trades
           left == cash - bought * close
           sells == held > 0 /\ Leaves(d, close, entry)
           sold == [all EXCEPT ![Len(all)].exit = IF @ = Open THEN close ELSE @]
<1>1. /\ closes' = Append(closes, close)
      /\ sells => cash' = left + held * close /\ position' = 0 /\ entryPrice' = 0 /\ trades' = sold
      /\ ~sells => cash' = left /\ position' = held /\ entryPrice' = entry /\ trades' = all
      /\ equityCurve' = Append(equityCurve, cash' + position' * close)
  BY DEF Candle
<1>2. /\ Explains(cash, position, trades) /\ cash \in Nat /\ position \in Nat
      /\ entryPrice \in Nat /\ closes \in Seq(Prices) /\ equityCurve \in Seq(Int)
      /\ Len(equityCurve) = Len(closes)
      /\ close \in Nat \ {0}
  BY BacktestAssumption DEF BacktestInv, Explains
<1>3. equity \in Nat
  <2>1. position * close \in Nat
    BY <1>2
  <2> QED
    BY <1>2, <2>1
<1>4. /\ bought \in Nat
      /\ bought > 0 => position = 0 /\ bought * close <= cash
  <2>1. CASE Enters(d, equity)
    <3>1. position = 0
      BY <2>1 DEF Enters
    <3>2. PICK money : money = Allocation(d, equity)
      OBVIOUS
    <3>3. money \in Nat /\ money <= cash
      BY <1>2, <1>3, <3>2, AllocationFits
    <3>4. money \div close \in Nat /\ (money \div close) * close <= money
      BY <1>2, <3>3, Quotient
    <3>5. bought = money \div close
      BY <2>1, <3>2
    <3> HIDE DEF bought
    <3>6. bought * close <= money /\ bought * close \in Nat
      BY <1>2, <3>4, <3>5
    <3> QED
      BY <1>2, <3>1, <3>3, <3>4, <3>5, <3>6
  <2>2. CASE ~Enters(d, equity)
    BY <2>2
  <2> QED
    BY <2>1, <2>2
<1> HIDE DEF bought
<1>5. Explains(left, held, all) /\ entry \in Nat
  <2>1. CASE bought > 0
    <3>1. bought \in Nat \ {0} /\ held = bought /\ entry = close
      BY <1>2, <1>4, <2>1
    <3>2. Explains(cash, 0, trades) /\ bought * close <= cash
      BY <1>2, <1>4, <2>1
    <3>3. Explains(cash - bought * close, bought,
                   Append(trades, [quantity |-> bought, entry |-> close, exit |-> Open]))
      BY <3>1, <3>2, PurchaseExplains
    <3> QED
      BY <1>2, <2>1, <3>1, <3>3
  <2>2. CASE ~ (bought > 0)
    <3>1. bought = 0
      BY <1>4, <2>2
    <3>2. left = cash /\ held = position /\ all = trades /\ entry = entryPrice
      BY <1>2, <3>1
    <3> QED
      BY <1>2, <3>2
  <2> QED
    BY <2>1, <2>2
<1> HIDE DEF left, held, all, entry
<1>6. Explains(cash, position, trades)' /\ entryPrice' \in Nat
  <2>1. CASE sells
    <3>1. Explains(left + held * close, 0, sold)
      BY <1>5, <2>1, SaleExplains
    <3>2. cash' = left + held * close /\ position' = 0 /\ trades' = sold /\ entryPrice' = 0
      BY <1>1, <2>1
    <3> QED
      BY <3>1, <3>2 DEF Explains, Pnls, Pnl
  <2>2. CASE ~sells
    <3>1. cash' = left /\ position' = held /\ trades' = all /\ entryPrice' = entry
      BY <1>1, <2>2
    <3> QED
      BY <1>5, <3>1 DEF Explains, Pnls, Pnl
  <2> QED
    BY <2>1, <2>2
<1> HIDE DEF sells, sold, equity
<1>7. /\ closes' \in Seq(Prices) /\ Len(closes') = Len(closes) + 1 /\ Last(closes') = close
  BY <1>1, <1>2 DEF Last
<1>8. cash' + position' * close \in Int
  <2>1. cash' \in Nat /\ position' \in Nat
    BY <1>6 DEF Explains
  <2>2. PICK kept : kept = position'
    OBVIOUS
  <2>3. kept \in Nat /\ close \in Nat
    BY <1>2, <2>1, <2>2
  <2>4. kept * close \in Nat
    BY <2>3
  <2>5. position' * close \in Nat
    BY <2>2, <2>4, Zenon
  <2> QED
    BY <2>1, <2>5
<1>9. PICK point : point = cash' + position' * close
  OBVIOUS
<1>10. /\ equityCurve' \in Seq(Int) /\ Len(equityCurve') = Len(equityCurve) + 1
       /\ Last(equityCurve') = point
  <2>1. point \in Int /\ equityCurve' = Append(equityCurve, point)
    BY <1>1, <1>8, <1>9
  <2> QED
    BY <1>2, <2>1 DEF Last
<1>11. Last(equityCurve') = cash' + position' * Last(closes')
  BY <1>7, <1>9, <1>10
<1> QED
  BY <1>2, <1>6, <1>7, <1>10, <1>11 DEF BacktestInv

LEMMA BacktestKeeps == ASSUME BacktestInv, BacktestNext PROVE BacktestInv'
<1>1. PICK close \in Prices : \E d \in trendFollowingDecision(cash + position * close) : Candle(close, d)
  BY DEF BacktestNext
<1>2. PICK d \in trendFollowingDecision(cash + position * close) : Candle(close, d)
  BY <1>1
<1>3. cash \in Nat /\ position \in Nat /\ close \in Nat
  BY BacktestAssumption DEF BacktestInv, Explains
<1>4. cash + position * close \in Nat
  <2>1. position * close \in Nat
    BY <1>3
  <2> QED
    BY <1>3, <2>1
<1>5. d \in TrendDecisions
  BY <1>4, TrendDecides
<1> QED
  BY <1>2, <1>5, CandleKeeps

LEMMA BacktestRests == ASSUME BacktestInv, UNCHANGED backtestVars PROVE BacktestInv'
<1>1. /\ cash' = cash /\ position' = position /\ entryPrice' = entryPrice
      /\ trades' = trades /\ equityCurve' = equityCurve /\ closes' = closes
  BY DEF backtestVars
<1> QED
  BY <1>1 DEF BacktestInv, Explains, Pnls, Pnl

LEMMA BacktestPromise == ASSUME BacktestInv PROVE TradesExplainEquity
<1>1. Explains(cash, position, trades)
  BY DEF BacktestInv
<1>2. /\ cash \in Nat
      /\ \A i \in DOMAIN trades : trades[i].exit = Open => i = Len(trades) /\ position > 0
      /\ \A close \in Int : cash + position * close = initialBalance + Total(Pnls(trades, close))
  BY <1>1 DEF Explains
<1>3. ASSUME equityCurve # <<>>
      PROVE  Last(equityCurve) = initialBalance + Total(Pnls(trades, Last(closes)))
  <2>1. /\ Last(equityCurve) = cash + position * Last(closes)
        /\ closes \in Seq(Prices) /\ equityCurve \in Seq(Int) /\ Len(equityCurve) = Len(closes)
    BY <1>3 DEF BacktestInv
  <2>2. closes # <<>>
    BY <1>3, <2>1
  <2>3. Last(closes) \in Prices
    BY <2>1, <2>2 DEF Last
  <2>4. Prices \subseteq Int
    BY BacktestAssumption
  <2>5. Last(closes) \in Int
    BY <2>3, <2>4, Zenon
  <2> QED
    BY <1>2, <2>1, <2>5
<1>4. cash >= 0
  BY <1>2
<1> QED
  BY <1>2, <1>3, <1>4 DEF TradesExplainEquity

-----------------------------------------------------------------------------
(* The dashboard.                                                          *)

Details == [effect : Nat, of : Ids]
Shows ==
  [selected : Ids \cup {Undefined}, assignment : Ids \cup {Undefined}, loading : BOOLEAN,
   shows : [Parts -> SUBSET Ids], late : SUBSET Parts]

Saves ==
  [kind : {"workspace", "member", "audit", "assign", "orgMember"}, of : Ids]
  \cup [kind : {"dashboard"}, of : Ids, after : {"assign", "orgMember"}]

\* A load is of the selection that its effect started for, and only the load of
\* the last effect is not stopped.
DashboardInv ==
  /\ selection \in [id : Ids \cup {Undefined}, effect : Nat]
  /\ details \in SUBSET Details
  /\ \A d \in details :
       d.effect <= selection.effect /\ (d.effect = selection.effect => d.of = selection.id)
  /\ view \in Shows
  /\ saves \in SUBSET Saves
  /\ DetailIsOfSelection

LEMMA DashboardStarts == ASSUME DashboardInit PROVE DashboardInv
<1>1. /\ selection = [id |-> Undefined, effect |-> 0] /\ details = {} /\ view = Blank /\ saves = {}
  BY DEF DashboardInit
<1>2. Blank \in Shows /\ Blank.selected = Undefined /\ Blank.assignment = Undefined
  BY DEF Blank, Shows
<1> QED
  BY <1>1, <1>2 DEF DashboardInv, DetailIsOfSelection, Blank

LEMMA DashboardRests ==
    ASSUME DashboardInv, UNCHANGED <<selection, details, view>>, saves' \subseteq saves
    PROVE  DashboardInv'
BY DEF DashboardInv, DetailIsOfSelection

\* A new effect stops the load before it, and shows nothing or says that it
\* loads.
LEMMA EffectKeeps ==
    ASSUME DashboardInv, NEW online \in BOOLEAN, NEW id \in Ids \cup {Undefined},
           StartDetail(online, id), saves' = saves
    PROVE  DashboardInv'
<1>1. /\ selection' = [id |-> id, effect |-> selection.effect + 1]
      /\ Shown(online, id) =>
           /\ details' = details \cup {[effect |-> selection.effect + 1, of |-> id]}
           /\ view' = [view EXCEPT !.loading = TRUE]
      /\ ~Shown(online, id) => view' = Cleared /\ details' = details
  BY DEF StartDetail
<1>2. /\ selection.effect \in Nat /\ details \in SUBSET Details /\ view \in Shows
      /\ \A d \in details : d.effect <= selection.effect
      /\ view.assignment = view.selected
      /\ saves \in SUBSET Saves
  BY DEF DashboardInv, DetailIsOfSelection
<1>3. /\ selection' \in [id : Ids \cup {Undefined}, effect : Nat]
      /\ selection'.id = id /\ selection'.effect = selection.effect + 1
  BY <1>1, <1>2
<1>4. \A d \in details : d.effect \in Nat /\ d.effect < selection'.effect
  BY <1>2, <1>3 DEF Details
<1>5. CASE Shown(online, id)
  <2> DEFINE load == [effect |-> selection.effect + 1, of |-> id]
  <2>1. id \in Ids
    BY <1>5 DEF Shown
  <2>2. load \in Details /\ load.effect = selection'.effect /\ load.of = id
    BY <1>2, <1>3, <2>1 DEF Details
  <2>3. details' = details \cup {load} /\ view' = [view EXCEPT !.loading = TRUE]
    BY <1>1, <1>5
  <2> HIDE DEF load
  <2>4. \A d \in details' :
          d.effect <= selection'.effect /\ (d.effect = selection'.effect => d.of = selection'.id)
    BY <1>2, <1>3, <1>4, <2>2, <2>3
  <2>5. view' \in Shows /\ view'.loading /\ view'.assignment = view'.selected
    BY <1>2, <2>3 DEF Shows
  <2> QED
    BY <1>2, <1>3, <2>2, <2>3, <2>4, <2>5 DEF DashboardInv, DetailIsOfSelection
<1>6. CASE ~Shown(online, id)
  <2>1. view' = Cleared /\ details' = details
    BY <1>1, <1>6
  <2>2. view' \in Shows /\ view'.selected = Undefined /\ view'.assignment = Undefined
    BY <2>1 DEF Cleared, Blank, Shows
  <2>3. \A d \in details' : d.effect <= selection'.effect /\ d.effect # selection'.effect
    BY <1>2, <1>3, <1>4, <2>1
  <2> QED
    BY <1>2, <1>3, <2>1, <2>2, <2>3 DEF DashboardInv, DetailIsOfSelection
<1> QED
  BY <1>5, <1>6

\* What is saved changes neither what is selected nor what is loading; an
\* assignment is put where the session is.
LEMMA AnswerKeeps ==
    ASSUME DashboardInv, UNCHANGED <<selection, details>>, saves' \in SUBSET Saves,
           NEW id \in Ids, view' \in {view, Reassign(view, id)}
    PROVE  DashboardInv'
<1>1. view \in Shows /\ view.assignment = view.selected
  BY DEF DashboardInv, DetailIsOfSelection
<1>2. /\ view' \in Shows /\ view'.assignment = view'.selected
      /\ view'.selected = view.selected /\ view'.loading = view.loading
      /\ view'.shows = view.shows /\ view'.late = view.late
  BY <1>1 DEF Shows, Reassign
<1> QED
  BY <1>2 DEF DashboardInv, DetailIsOfSelection

\* And what is written into a part is of the session that is selected, or the
\* part is late.
LEMMA WrittenKeeps ==
    ASSUME DashboardInv, UNCHANGED <<selection, details>>, saves' \in SUBSET Saves,
           NEW e \in saves, NEW part \in Parts,
           NEW of \in {{e.of}, view.shows[part] \cup {e.of}},
           view' = Written(part, of, e)
    PROVE  DashboardInv'
<1>1. /\ view \in Shows /\ view.shows \in [Parts -> SUBSET Ids] /\ view.late \in SUBSET Parts
      /\ view.assignment = view.selected /\ e.of \in Ids
      /\ ~view.loading /\ view.selected # Undefined =>
           /\ view.selected = selection.id
           /\ \A q \in Parts \ view.late : view.shows[q] = {selection.id}
  BY DEF DashboardInv, DetailIsOfSelection, Shows, Saves
<1>2. PICK shows \in [Parts -> SUBSET Ids], late \in SUBSET Parts :
        /\ shows = [view.shows EXCEPT ![part] = of]
        /\ late = IF e.of = selection.id THEN view.late ELSE view.late \cup {part}
        /\ view' = [view EXCEPT !.shows = shows, !.late = late]
  <2>1. of \in SUBSET Ids
    BY <1>1
  <2>2. [view.shows EXCEPT ![part] = of] \in [Parts -> SUBSET Ids]
    BY <1>1, <2>1
  <2>3. (IF e.of = selection.id THEN view.late ELSE view.late \cup {part}) \in SUBSET Parts
    BY <1>1
  <2>4. view' = [view EXCEPT !.shows = [view.shows EXCEPT ![part] = of],
                             !.late = IF e.of = selection.id THEN view.late
                                      ELSE view.late \cup {part}]
    BY DEF Written
  <2> QED
    BY <2>2, <2>3, <2>4
<1>3. /\ view' \in Shows /\ view'.assignment = view'.selected
      /\ view'.selected = view.selected /\ view'.loading = view.loading
      /\ view'.shows = shows /\ view'.late = late
  BY <1>1, <1>2 DEF Shows
<1>4. ASSUME ~view.loading, view.selected # Undefined, NEW q \in Parts \ late
      PROVE  shows[q] = {selection.id}
  <2>1. view.shows[q] = {selection.id}
    BY <1>1, <1>2, <1>4
  <2>2. CASE q = part
    <3>1. e.of = selection.id
      BY <1>2, <1>4, <2>2
    <3>2. of = {selection.id}
      BY <2>1, <2>2, <3>1
    <3> QED
      BY <1>1, <1>2, <2>2, <3>2
  <2>3. CASE q # part
    BY <1>1, <1>2, <2>1, <2>3
  <2> QED
    BY <2>2, <2>3
<1> QED
  BY <1>1, <1>3, <1>4 DEF DashboardInv, DetailIsOfSelection

LEMMA DetailKeeps ==
    ASSUME DashboardInv, NEW d \in details, DetailLoaded(d)
    PROVE  DashboardInv'
<1>1. /\ details' = details \ {d} /\ selection' = selection /\ saves' = saves
  BY DEF DetailLoaded
<1>2. /\ d.of \in Ids /\ view \in Shows
      /\ \A x \in details :
           x.effect <= selection.effect /\ (x.effect = selection.effect => x.of = selection.id)
  BY DEF DashboardInv, Details
<1>3. CASE view' = view
  BY <1>1, <1>3 DEF DashboardInv, DetailIsOfSelection
<1>4. CASE /\ ~IsStopped(d)
           /\ view' = [selected |-> d.of, assignment |-> d.of, loading |-> FALSE,
                       shows |-> [part \in Parts |-> {d.of}], late |-> {}]
  <2>1. d.of = selection.id
    BY <1>2, <1>4 DEF IsStopped
  <2>2. PICK shows \in [Parts -> SUBSET Ids] : shows = [part \in Parts |-> {d.of}]
    BY <1>2
  <2>3. view' = [selected |-> d.of, assignment |-> d.of, loading |-> FALSE,
                 shows |-> shows, late |-> {}]
    BY <1>4, <2>2
  <2>4. /\ view' \in Shows /\ view'.selected = d.of /\ view'.assignment = d.of
        /\ view'.shows = shows
    BY <1>2, <2>3 DEF Shows
  <2>5. \A part \in Parts : view'.shows[part] = {selection.id}
    BY <2>1, <2>2, <2>4
  <2> QED
    BY <1>1, <2>1, <2>4, <2>5 DEF DashboardInv, DetailIsOfSelection
<1>5. CASE view' = [view EXCEPT !.selected = Undefined, !.assignment = Undefined,
                                !.loading = FALSE,
                                !.shows["workspace"] = {}, !.shows["organization"] = {}]
  <2>1. PICK shows \in [Parts -> SUBSET Ids] :
          shows = [[view.shows EXCEPT !["workspace"] = {}] EXCEPT !["organization"] = {}]
    BY <1>2 DEF Shows
  <2>2. view' = [view EXCEPT !.selected = Undefined, !.assignment = Undefined,
                             !.loading = FALSE, !.shows = shows]
    BY <1>2, <1>5, <2>1 DEF Shows
  <2>3. view' \in Shows /\ view'.selected = Undefined /\ view'.assignment = Undefined
    BY <1>2, <2>2 DEF Shows
  <2> QED
    BY <1>1, <2>3 DEF DashboardInv, DetailIsOfSelection
<1> QED
  BY <1>3, <1>4, <1>5 DEF DetailLoaded

LEMMA SavedKeeps ==
    ASSUME DashboardInv, NEW e \in saves, Saved(e)
    PROVE  DashboardInv'
<1>1. /\ selection' = selection /\ details' = details
      /\ saves' \subseteq saves \cup {[e EXCEPT !.kind = "audit"]}
      /\ e.kind \in {"workspace", "member", "audit"}
      /\ \/ view' = view
         \/ view' = Written("workspace", {e.of}, e)
         \/ view' = Written("members", view.shows["members"] \cup {e.of}, e)
         \/ view' = Written("audit", {e.of}, e)
  BY DEF Saved
<1>2. saves \in SUBSET Saves
  BY DEF DashboardInv
<1>3. e \in [kind : {"workspace", "member", "audit", "assign", "orgMember"}, of : Ids]
  BY <1>1, <1>2 DEF Saves
<1>4. e.of \in Ids /\ [e EXCEPT !.kind = "audit"] \in Saves
  BY <1>3 DEF Saves
<1>5. saves' \in SUBSET Saves
  BY <1>1, <1>2, <1>4
<1>6. CASE view' = view
  BY <1>1, <1>4, <1>5, <1>6, AnswerKeeps
<1>7. ASSUME NEW part \in Parts, NEW of \in {{e.of}, view.shows[part] \cup {e.of}},
             view' = Written(part, of, e)
      PROVE  DashboardInv'
  BY <1>1, <1>5, <1>7, WrittenKeeps
<1>8. "workspace" \in Parts /\ "members" \in Parts /\ "audit" \in Parts
  BY DEF Parts
<1> QED
  BY <1>1, <1>6, <1>7, <1>8

LEMMA OrganizationKeeps ==
    ASSUME DashboardInv, NEW e \in saves, OrganizationSaved(e)
    PROVE  DashboardInv'
<1>1. saves \in SUBSET Saves
  BY DEF DashboardInv
<1>2. e.of \in Ids
  BY <1>1 DEF Saves
<1>3. /\ selection' = selection /\ details' = details
      /\ \/ saves' \subseteq saves
         \/ /\ e.kind \in {"assign", "orgMember"}
            /\ saves' \subseteq
                 saves \cup {[kind |-> "dashboard", of |-> e.of, after |-> e.kind]}
      /\ \/ view' = view
         \/ view' = Reassign(view, e.of)
         \/ view' = Written("organization", {e.of}, e)
  BY DEF OrganizationSaved
<1>4. saves' \in SUBSET Saves
  BY <1>1, <1>2, <1>3 DEF Saves
<1>5. CASE view' \in {view, Reassign(view, e.of)}
  BY <1>2, <1>3, <1>4, <1>5, AnswerKeeps
<1>6. CASE view' = Written("organization", {e.of}, e)
  BY <1>3, <1>4, <1>6, WrittenKeeps DEF Parts
<1> QED
  BY <1>3, <1>5, <1>6

LEMMA ClickKeeps == ASSUME DashboardInv, Click PROVE DashboardInv'
<1>1. ASSUME NEW s \in Ids, OpenSession(s) PROVE DashboardInv'
  <2>1. UNCHANGED <<selection, details, view, saves>>
    BY <1>1 DEF OpenSession, historyVars
  <2> QED
    BY <2>1, DashboardRests
<1>2. ASSUME NEW s \in Ids, SelectSession(s) PROVE DashboardInv'
  <2>1. StartDetail(health = "online", s) /\ saves' = saves
    BY <1>2 DEF SelectSession
  <2> QED
    BY <2>1, EffectKeeps
<1>3. /\ selection \in [id : Ids \cup {Undefined}, effect : Nat] /\ view \in Shows
      /\ saves \in SUBSET Saves /\ view.assignment = view.selected
  BY DEF DashboardInv, DetailIsOfSelection
<1>4. ASSUME NEW kind \in {"workspace", "member", "assign", "orgMember"},
             NEW of \in Ids \cup {Undefined}, of # Undefined,
             saves' = saves \cup {[kind |-> kind, of |-> of]},
             UNCHANGED <<selection, details, view>>
      PROVE  DashboardInv'
  <2>1. saves' \in SUBSET Saves
    BY <1>3, <1>4 DEF Saves
  <2> QED
    BY <1>4, <2>1, AnswerKeeps
<1>5. ASSUME NEW kind \in {"workspace", "member"}, Save(kind) PROVE DashboardInv'
  <2>1. /\ selection.id # Undefined /\ saves' = saves \cup {[kind |-> kind, of |-> selection.id]}
        /\ UNCHANGED <<selection, details, view>>
    BY <1>5 DEF Save, Shown
  <2>2. selection.id \in Ids \cup {Undefined}
    BY <1>3
  <2> QED
    BY <1>4, <2>1, <2>2
<1>6. ASSUME NEW kind \in {"assign", "orgMember"}, SaveOrganization(kind) PROVE DashboardInv'
  <2>1. PICK of : of = IF kind = "assign" THEN selection.id ELSE view.selected
    OBVIOUS
  <2>2. /\ of # Undefined /\ saves' = saves \cup {[kind |-> kind, of |-> of]}
        /\ UNCHANGED <<selection, details, view>>
    BY <1>6, <2>1 DEF SaveOrganization
  <2>3. of \in Ids \cup {Undefined}
    BY <1>3, <2>1 DEF Shows
  <2> QED
    BY <1>4, <2>2, <2>3
<1> QED
  BY <1>1, <1>2, <1>5, <1>6 DEF Click

LEMMA DashboardKeeps == ASSUME DashboardInv, DashboardNext PROVE DashboardInv'
<1>1. selection.id \in Ids \cup {Undefined}
  BY DEF DashboardInv
<1>2. CASE HealthChanges
  <2>1. StartDetail(health' = "online", selection.id) /\ saves' = saves
    BY <1>2 DEF HealthChanges
  <2>2. PICK online \in BOOLEAN : online = (health' = "online")
    OBVIOUS
  <2>3. StartDetail(online, selection.id)
    BY <2>1, <2>2
  <2> QED
    BY <1>1, <2>1, <2>3, EffectKeeps
<1>3. CASE Tick \/ ReloadList \/ \E s \in Ids : Polled(s)
  <2>1. UNCHANGED <<selection, details, view, saves>>
    BY <1>3 DEF Tick, ReloadList, Polled, historyVars
  <2> QED
    BY <2>1, DashboardRests
<1>4. ASSUME NEW n \in listing.loads, ListLoaded(n) PROVE DashboardInv'
  <2>1. saves' = saves
    BY <1>4 DEF ListLoaded
  <2>2. CASE StartDetail(health = "online", Sessions[1])
    <3>1. Sessions[1] \in Ids
      BY DashboardAssumption DEF Ids
    <3> QED
      BY <2>1, <2>2, <3>1, EffectKeeps
  <2>3. CASE UNCHANGED <<selection, details, view>>
    BY <2>1, <2>3, DashboardRests
  <2> QED
    BY <1>4, <2>2, <2>3 DEF ListLoaded
<1> QED
  BY <1>2, <1>3, <1>4, ClickKeeps, DetailKeeps, SavedKeeps, OrganizationKeeps
     DEF DashboardNext, Arrives

-----------------------------------------------------------------------------
(* A seller's data.                                                        *)

Modes == {Live, Demo}

\* A provider that keeps answers gave these parts, or would give none yet.
FromProviders(asset, parts) ==
  \A c \in DOMAIN parts \cap Keeping : parts[c] = cache[Key(c, asset)]

\* A context is made of parts that the providers would still give, whether it
\* is told of a cache or not.
Made(context) ==
  \E asset \in Assets, parts \in [Capabilities -> Modes] :
    /\ FromProviders(asset, parts)
    /\ \/ context = Context(asset, parts)
       \/ context = [Context(asset, parts) EXCEPT !.cacheHit = TRUE]

\* What a delivery has gathered is what the caches have, and what it has not
\* gathered of them they do not have.
Gathered(asset, parts) ==
  /\ asset \in Assets
  /\ DOMAIN parts \subseteq Capabilities
  /\ parts \in [DOMAIN parts -> Modes]
  /\ FromProviders(asset, parts)
  /\ \A c \in Keeping \ DOMAIN parts : cache[Key(c, asset)] = Missing

GatewayInv ==
  /\ cache \in [Keys -> Modes \cup {Missing}]
  /\ DOMAIN contextCache = Assets
  /\ \A a \in Assets : contextCache[a] # Missing =>
       \E parts \in [Capabilities -> Modes] :
         FromProviders(a, parts) /\ contextCache[a] = Context(a, parts)
  /\ gathering # Nothing =>
       /\ gathering = [asset |-> gathering.asset, parts |-> gathering.parts]
       /\ Gathered(gathering.asset, gathering.parts)
  /\ delivered # Missing => \E context : Made(context) /\ delivered = Memo(context)

LEMMA ModesAreTold == Missing \notin Modes /\ Live # Demo
BY GatewayAssumption DEF Modes, Live, Demo

LEMMA KeysAreTheirs ==
    ASSUME NEW a \in Assets, NEW b \in Assets, NEW c \in Keeping, NEW d \in Keeping,
           Key(c, a) = Key(d, b)
    PROVE  c = d
BY DEF Key

LEMMA KeyIsKept == \A c \in Keeping, a \in Assets : Key(c, a) \in Keys
BY DEF Keys

\* Parts that agree with the caches where these have something are kept, and
\* overwrite nothing.
LEMMA KeepAdds ==
    ASSUME cache \in [Keys -> Modes \cup {Missing}], NEW asset \in Assets, NEW parts,
           DOMAIN parts \subseteq Capabilities, parts \in [DOMAIN parts -> Modes],
           \A c \in DOMAIN parts \cap Keeping :
             cache[Key(c, asset)] \in {Missing, parts[c]},
           cache' = Keep(asset, parts)
    PROVE  /\ cache' \in [Keys -> Modes \cup {Missing}]
           /\ \A k \in Keys : cache[k] # Missing => cache'[k] = cache[k]
           /\ \A c \in DOMAIN parts \cap Keeping : cache'[Key(c, asset)] = parts[c]
           /\ \A c \in Keeping \ DOMAIN parts : cache'[Key(c, asset)] = cache[Key(c, asset)]
<1>1. \A k \in Keys :
        cache'[k] = IF \E c \in DOMAIN parts \cap Keeping : k = Key(c, asset)
                    THEN parts[CHOOSE c \in DOMAIN parts \cap Keeping : k = Key(c, asset)]
                    ELSE cache[k]
  BY DEF Keep
<1>2. ASSUME NEW c \in DOMAIN parts \cap Keeping
      PROVE  cache'[Key(c, asset)] = parts[c] /\ Key(c, asset) \in Keys
  <2>1. Key(c, asset) \in Keys
    BY KeyIsKept
  <2>2. PICK d : d = CHOOSE x \in DOMAIN parts \cap Keeping : Key(c, asset) = Key(x, asset)
    OBVIOUS
  <2>3. d \in DOMAIN parts \cap Keeping /\ Key(c, asset) = Key(d, asset)
    BY <2>2
  <2>4. d = c
    BY <2>3, KeysAreTheirs
  <2> QED
    BY <1>1, <2>1, <2>2, <2>4
<1>3. ASSUME NEW k \in Keys, ~ \E c \in DOMAIN parts \cap Keeping : k = Key(c, asset)
      PROVE  cache'[k] = cache[k]
  BY <1>1, <1>3
<1>4. ASSUME NEW c \in Keeping \ DOMAIN parts
      PROVE  cache'[Key(c, asset)] = cache[Key(c, asset)]
  <2>1. ~ \E d \in DOMAIN parts \cap Keeping : Key(c, asset) = Key(d, asset)
    BY KeysAreTheirs
  <2> QED
    BY <1>3, <2>1, KeyIsKept
<1>5. \A k \in Keys : cache[k] # Missing => cache'[k] = cache[k]
  BY <1>2, <1>3
<1>6. \A k \in Keys : cache'[k] \in Modes \cup {Missing}
  BY <1>2, <1>3
<1>7. cache' = [k \in Keys |-> cache'[k]]
  BY DEF Keep
<1>8. cache' \in [Keys -> Modes \cup {Missing}]
  BY <1>6, <1>7
<1> QED
  BY <1>2, <1>4, <1>5, <1>8

\* Nothing that the caches have is lost: contexts stay what they are made of.
LEMMA ContextsStay ==
    ASSUME GatewayInv,
           \A k \in Keys : cache[k] # Missing => cache'[k] = cache[k]
    PROVE  /\ \A asset \in Assets, parts \in [Capabilities -> Modes] :
                FromProviders(asset, parts) => FromProviders(asset, parts)'
           /\ \A context : Made(context) => Made(context)'
<1>1. ASSUME NEW asset \in Assets, NEW parts \in [Capabilities -> Modes],
             FromProviders(asset, parts)
      PROVE  FromProviders(asset, parts)'
  <2>1. \A c \in DOMAIN parts \cap Keeping : parts[c] # Missing /\ Key(c, asset) \in Keys
    BY ModesAreTold, KeyIsKept
  <2> QED
    BY <1>1, <2>1 DEF FromProviders
<1>2. ASSUME NEW context, Made(context) PROVE Made(context)'
  <2>1. PICK asset \in Assets, parts \in [Capabilities -> Modes] :
          /\ FromProviders(asset, parts)
          /\ \/ context = Context(asset, parts)
             \/ context = [Context(asset, parts) EXCEPT !.cacheHit = TRUE]
    BY <1>2 DEF Made
  <2>2. FromProviders(asset, parts)'
    BY <1>1, <2>1
  <2> QED
    BY <2>1, <2>2 DEF Made
<1> QED
  BY <1>1, <1>2

LEMMA GatewayStarts == ASSUME GatewayInit PROVE GatewayInv
BY DEF GatewayInit, GatewayInv

LEMMA GatewayRests == ASSUME GatewayInv, UNCHANGED gatewayVars PROVE GatewayInv'
<1>1. /\ cache' = cache /\ contextCache' = contextCache /\ gathering' = gathering
      /\ delivered' = delivered
  BY DEF gatewayVars
<1>2. \A asset, parts : FromProviders(asset, parts)' = FromProviders(asset, parts)
  BY <1>1 DEF FromProviders
<1>3. \A context : Made(context)' = Made(context)
  BY <1>2 DEF Made
<1>4. \A asset, parts : Gathered(asset, parts)' = Gathered(asset, parts)
  BY <1>1, <1>2 DEF Gathered
<1> QED
  BY <1>1, <1>2, <1>3, <1>4 DEF GatewayInv

LEMMA GatheringKeeps ==
    ASSUME GatewayInv, NEW asset \in Assets, NEW parts, DOMAIN parts \subseteq Capabilities,
           parts \in [DOMAIN parts -> Modes],
           \A c \in DOMAIN parts \cap Keeping : cache[Key(c, asset)] \in {Missing, parts[c]},
           \A c \in Keeping \ DOMAIN parts : cache[Key(c, asset)] = Missing,
           gathering' = [asset |-> asset, parts |-> parts], cache' = Keep(asset, parts),
           UNCHANGED <<contextCache, delivered>>
    PROVE  GatewayInv'
<1>1. /\ cache \in [Keys -> Modes \cup {Missing}]
      /\ DOMAIN contextCache = Assets
      /\ \A a \in Assets : contextCache[a] # Missing =>
           \E some \in [Capabilities -> Modes] :
             FromProviders(a, some) /\ contextCache[a] = Context(a, some)
      /\ delivered # Missing => \E context : Made(context) /\ delivered = Memo(context)
  BY DEF GatewayInv
<1>2. /\ cache' \in [Keys -> Modes \cup {Missing}]
      /\ \A k \in Keys : cache[k] # Missing => cache'[k] = cache[k]
      /\ \A c \in DOMAIN parts \cap Keeping : cache'[Key(c, asset)] = parts[c]
      /\ \A c \in Keeping \ DOMAIN parts : cache'[Key(c, asset)] = cache[Key(c, asset)]
  BY <1>1, KeepAdds
<1>3. /\ \A a \in Assets, some \in [Capabilities -> Modes] :
           FromProviders(a, some) => FromProviders(a, some)'
      /\ \A context : Made(context) => Made(context)'
  BY <1>2, ContextsStay
<1>4. Gathered(asset, parts)'
  BY <1>2 DEF Gathered, FromProviders
<1>5. gathering'.asset = asset /\ gathering'.parts = parts
  OBVIOUS
<1>6. (gathering # Nothing =>
         /\ gathering = [asset |-> gathering.asset, parts |-> gathering.parts]
         /\ Gathered(gathering.asset, gathering.parts))'
  BY <1>4, <1>5
<1>7. (\A a \in Assets : contextCache[a] # Missing =>
         \E some \in [Capabilities -> Modes] :
           FromProviders(a, some) /\ contextCache[a] = Context(a, some))'
  BY <1>1, <1>3
<1>8. (delivered # Missing => \E context : Made(context) /\ delivered = Memo(context))'
  BY <1>1, <1>3
<1> QED
  BY <1>1, <1>2, <1>6, <1>7, <1>8 DEF GatewayInv

LEMMA GatherKeeps ==
    ASSUME GatewayInv, NEW asset \in Assets, Gather(asset)
    PROVE  GatewayInv'
<1> DEFINE parts == AtOnce(asset)
<1>1. /\ gathering' = [asset |-> asset, parts |-> parts] /\ cache' = Keep(asset, parts)
      /\ UNCHANGED <<contextCache, delivered>>
  BY DEF Gather
<1>2. cache \in [Keys -> Modes \cup {Missing}]
  BY DEF GatewayInv
<1>3. /\ DOMAIN parts =
           {d \in Capabilities : Kept(asset, d) \/ d \in Unprovided \/ d \notin Configured}
      /\ \A c \in DOMAIN parts :
           parts[c] = IF Kept(asset, c) THEN cache[Key(c, asset)] ELSE Demo
      /\ parts = [c \in DOMAIN parts |-> parts[c]]
  BY DEF AtOnce
<1> HIDE DEF parts
<1>4. \A c \in Capabilities : Kept(asset, c) => cache[Key(c, asset)] \in Modes
  BY <1>2, KeyIsKept DEF Kept
<1>5. \A c \in DOMAIN parts : parts[c] \in Modes
  BY <1>3, <1>4 DEF Modes
<1>6. \A c \in DOMAIN parts \cap Keeping : cache[Key(c, asset)] \in {Missing, parts[c]}
  BY <1>3 DEF Kept
<1>7. \A c \in Keeping \ DOMAIN parts : cache[Key(c, asset)] = Missing
  BY <1>3 DEF Kept, Keeping, Capabilities
<1>8. DOMAIN parts \subseteq Capabilities /\ parts \in [DOMAIN parts -> Modes]
  BY <1>3, <1>5
<1> QED
  BY <1>1, <1>6, <1>7, <1>8, GatheringKeeps

LEMMA AnsweredKeeps ==
    ASSUME GatewayInv, ProviderAnswers
    PROVE  GatewayInv'
<1>1. PICK c \in Capabilities \ DOMAIN gathering.parts, mode \in Modes : Answered(c, mode)
  BY DEF ProviderAnswers, Modes
<1>2. gathering # Nothing /\ UNCHANGED <<contextCache, delivered>>
  BY DEF ProviderAnswers
<1>3. PICK asset, had : asset = gathering.asset /\ had = gathering.parts
  OBVIOUS
<1>4. gathering = [asset |-> asset, parts |-> had] /\ Gathered(asset, had)
  BY <1>2, <1>3 DEF GatewayInv
<1> DEFINE parts == [d \in DOMAIN had \cup {c} |-> IF d = c THEN mode ELSE had[d]]
<1>5. gathering' = [asset |-> asset, parts |-> parts] /\ cache' = Keep(asset, parts)
  <2>1. gathering' = [gathering EXCEPT !.parts = parts] /\ cache' = Keep(asset, parts)
    BY <1>1, <1>3 DEF Answered
  <2> HIDE DEF parts
  <2> QED
    BY <1>4, <2>1
<1>6. /\ DOMAIN parts = DOMAIN had \cup {c}
      /\ \A d \in DOMAIN parts : parts[d] = IF d = c THEN mode ELSE had[d]
      /\ parts = [d \in DOMAIN parts |-> parts[d]]
  OBVIOUS
<1> HIDE DEF parts
<1>7. /\ asset \in Assets /\ DOMAIN had \subseteq Capabilities /\ had \in [DOMAIN had -> Modes]
      /\ \A d \in DOMAIN had \cap Keeping : had[d] = cache[Key(d, asset)]
      /\ \A d \in Keeping \ DOMAIN had : cache[Key(d, asset)] = Missing
  BY <1>4 DEF Gathered, FromProviders
<1>8. c \in Capabilities /\ c \notin DOMAIN had
  BY <1>1, <1>3
<1>9. \A d \in DOMAIN parts : parts[d] \in Modes
  BY <1>1, <1>6, <1>7
<1>10. \A d \in DOMAIN parts \cap Keeping : cache[Key(d, asset)] \in {Missing, parts[d]}
  BY <1>6, <1>7, <1>8
<1>11. \A d \in Keeping \ DOMAIN parts : cache[Key(d, asset)] = Missing
  BY <1>6, <1>7
<1>12. DOMAIN parts \subseteq Capabilities /\ parts \in [DOMAIN parts -> Modes]
  BY <1>6, <1>7, <1>8, <1>9
<1> QED
  BY <1>2, <1>5, <1>7, <1>10, <1>11, <1>12, GatheringKeeps

LEMMA DeliverKeeps == ASSUME GatewayInv, Deliver PROVE GatewayInv'
<1>1. PICK asset, parts, context :
        asset = gathering.asset /\ parts = gathering.parts /\ context = Context(asset, parts)
  OBVIOUS
<1>2. /\ gathering # Nothing /\ DOMAIN parts = Capabilities
      /\ contextCache' = [contextCache EXCEPT ![asset] = context]
      /\ delivered' = Memo(context) /\ gathering' = Nothing /\ cache' = cache
  BY <1>1 DEF Deliver
<1>3. /\ cache \in [Keys -> Modes \cup {Missing}]
      /\ DOMAIN contextCache = Assets
      /\ \A a \in Assets : contextCache[a] # Missing =>
           \E some \in [Capabilities -> Modes] :
             FromProviders(a, some) /\ contextCache[a] = Context(a, some)
      /\ Gathered(asset, parts)
  BY <1>1, <1>2 DEF GatewayInv
<1>4. /\ asset \in Assets /\ parts \in [Capabilities -> Modes] /\ FromProviders(asset, parts)
  BY <1>2, <1>3 DEF Gathered
<1>5. \A a, some : FromProviders(a, some)' = FromProviders(a, some)
  BY <1>2 DEF FromProviders
<1>6. Made(context)'
  BY <1>1, <1>4, <1>5 DEF Made
<1>7. (\A a \in Assets : contextCache[a] # Missing =>
         \E some \in [Capabilities -> Modes] :
           FromProviders(a, some) /\ contextCache[a] = Context(a, some))'
  <2> SUFFICES ASSUME NEW a \in Assets, contextCache'[a] # Missing
               PROVE  \E some \in [Capabilities -> Modes] :
                        FromProviders(a, some) /\ contextCache'[a] = Context(a, some)
    BY <1>5
  <2>1. CASE a = asset
    BY <1>1, <1>2, <1>3, <1>4, <2>1
  <2>2. CASE a # asset
    BY <1>2, <1>3, <2>2
  <2> QED
    BY <2>1, <2>2
<1> QED
  BY <1>2, <1>3, <1>6, <1>7 DEF GatewayInv

LEMMA FromCacheKeeps ==
    ASSUME GatewayInv, NEW asset \in Assets, FromCache(asset)
    PROVE  GatewayInv'
<1>1. /\ contextCache[asset] # Missing
      /\ delivered' = Memo([contextCache[asset] EXCEPT !.cacheHit = TRUE])
      /\ cache' = cache /\ contextCache' = contextCache /\ gathering' = gathering
  BY DEF FromCache
<1>2. PICK parts \in [Capabilities -> Modes] :
        FromProviders(asset, parts) /\ contextCache[asset] = Context(asset, parts)
  BY <1>1 DEF GatewayInv
<1>3. PICK context : context = [Context(asset, parts) EXCEPT !.cacheHit = TRUE]
  OBVIOUS
<1>4. \A a, some : FromProviders(a, some)' = FromProviders(a, some)
  BY <1>1 DEF FromProviders
<1>5. Made(context)' /\ delivered' = Memo(context)
  BY <1>1, <1>2, <1>3, <1>4 DEF Made
<1>6. \A a, some : Gathered(a, some)' = Gathered(a, some)
  BY <1>1, <1>4 DEF Gathered
<1> QED
  BY <1>1, <1>4, <1>5, <1>6 DEF GatewayInv

LEMMA GatewayKeeps == ASSUME GatewayInv, GatewayNext PROVE GatewayInv'
<1>1. CASE GetContext
  BY <1>1, FromCacheKeeps, GatherKeeps DEF GetContext
<1>2. CASE ProviderAnswers
  BY <1>2, AnsweredKeeps
<1>3. CASE Deliver
  BY <1>3, DeliverKeeps
<1>4. CASE Expire
  <2>1. /\ cache' = cache /\ contextCache' = contextCache /\ gathering' = gathering
        /\ delivered' = delivered
    BY <1>4 DEF Expire
  <2>2. \A a, some : FromProviders(a, some)' = FromProviders(a, some)
    BY <2>1 DEF FromProviders
  <2>3. /\ \A context : Made(context)' = Made(context)
        /\ \A a, some : Gathered(a, some)' = Gathered(a, some)
    BY <2>1, <2>2 DEF Made, Gathered
  <2> QED
    BY <2>1, <2>2, <2>3 DEF GatewayInv
<1> QED
  BY <1>1, <1>2, <1>3, <1>4 DEF GatewayNext

LEMMA GatewayPromise == ASSUME GatewayInv PROVE FallbackIsTold
<1> SUFFICES ASSUME delivered # Missing
             PROVE  LET context == delivered.context
                    IN /\ delivered.badge = "Live data" <=> \E c \in Capabilities : context.parts[c] = Live
                       /\ delivered.oracle = "Live data" => context.parts["solana-oracle"] = Live
                       /\ \A c \in Capabilities :
                            /\ context.parts[c] = Demo =>
                                 context.sources[c] = Demo /\ context.observability[c] = Demo
                            /\ c \in Keeping => context.parts[c] = cache[Key(c, context.asset)]
  BY DEF FallbackIsTold
<1>1. PICK made : Made(made) /\ delivered = Memo(made)
  BY DEF GatewayInv
<1>2. PICK asset \in Assets, parts \in [Capabilities -> Modes] :
        /\ FromProviders(asset, parts)
        /\ \/ made = Context(asset, parts)
           \/ made = [Context(asset, parts) EXCEPT !.cacheHit = TRUE]
  BY <1>1 DEF Made
<1>3. /\ made.asset = asset /\ made.parts = parts
      /\ made.sources = [c \in Capabilities |-> parts[c]]
      /\ made.dataMode = IF \E c \in Capabilities : parts[c] = Live THEN Live ELSE Demo
      /\ made.observability = [c \in Capabilities |-> SourceMode(c, parts[c])]
  <2>1. PICK sources, mode, seen :
          /\ sources = [c \in Capabilities |-> parts[c]]
          /\ mode = IF \E c \in Capabilities : parts[c] = Live THEN Live ELSE Demo
          /\ seen = [c \in Capabilities |-> SourceMode(c, parts[c])]
    OBVIOUS
  <2>2. \A c \in Capabilities : sources[c] = parts[c]
    BY <2>1
  <2>3. Context(asset, parts) =
          [asset |-> asset, parts |-> parts, sources |-> sources, dataMode |-> mode,
           observability |-> seen, cacheHit |-> FALSE]
    BY <2>1, <2>2 DEF Context, ListedMode
  <2>4. PICK context : context = Context(asset, parts)
    OBVIOUS
  <2>5. /\ made.asset = context.asset /\ made.parts = context.parts
        /\ made.sources = context.sources /\ made.dataMode = context.dataMode
        /\ made.observability = context.observability
    <3>1. CASE made = context
      BY <3>1
    <3>2. CASE made = [context EXCEPT !.cacheHit = TRUE]
      BY <2>3, <2>4, <3>2
    <3> QED
      BY <1>2, <2>4, <3>1, <3>2
  <2> QED
    BY <2>1, <2>3, <2>4, <2>5
<1>4. /\ delivered.context = made
      /\ delivered.badge = IF made.dataMode = Live THEN "Live data" ELSE "Demo fallback data"
      /\ delivered.oracle =
           IF made.parts["solana-oracle"] = Live THEN "Live data" ELSE "Demo fallback"
  BY <1>1 DEF Memo
<1>5. delivered.badge = "Live data" <=> \E c \in Capabilities : parts[c] = Live
  BY <1>3, <1>4, ModesAreTold
<1>6. delivered.oracle = "Live data" => parts["solana-oracle"] = Live
  BY <1>3, <1>4
<1>7. \A c \in Capabilities : parts[c] = Demo =>
        made.sources[c] = Demo /\ made.observability[c] = Demo
  BY <1>3 DEF SourceMode
<1>8. \A c \in Capabilities : c \in Keeping => parts[c] = cache[Key(c, asset)]
  BY <1>2 DEF FromProviders
<1> QED
  BY <1>3, <1>4, <1>5, <1>6, <1>7, <1>8

-----------------------------------------------------------------------------
(* The World Cup page.                                                     *)

Edges == [of : Fixtures, from : {"page", "proxy"}, demo : BOOLEAN, sample : BOOLEAN]
Settlements == [of : Fixtures, ok : BOOLEAN]
Boards == {<<>>, DEMO_FIXTURES, LiveFixtures}
Places == DOMAIN DEMO_FIXTURES \cup DOMAIN LiveFixtures
Pages ==
  [fixtures : Boards, source : {Null, "live", "demo"}, idx : Places, edge : Edges \cup {Null},
   settleRes : Settlements \cup {Null}, settling : BOOLEAN]
Effects == [run : Nat, of : Fixtures, at : {"edge", "settle"}]

\* A read is made of sample odds when it says so, and when the page made it of a
\* row without the prices' names.
SampleAsTold(e) == e.sample <=> e.demo \/ (e.from = "page" /\ e.of \in Nameless)

\* What the page shows is the selected fixture's.
PageShows(p) ==
  /\ p \in Pages
  /\ p.source # Null => p.idx \in DOMAIN p.fixtures /\ Selected(p) \in Fixtures
  /\ p.source = Null => p.fixtures = <<>> /\ p.idx = 1
  /\ p.source = "demo" => p.fixtures = DEMO_FIXTURES
  /\ p.source = "live" => p.fixtures = LiveFixtures
  /\ p.edge # Null =>
       /\ p.source # Null
       /\ p.edge.of = Selected(p) /\ (p.edge.demo <=> p.source = "demo")
       /\ SampleAsTold(p.edge)
  /\ p.settleRes # Null =>
       p.settleRes.of = Selected(p) /\ p.source = "live" /\ p.edge # Null

\* Only the last effect can be alive; it is of the selected fixture, and when
\* it has come to the settlement the read is there.
EffectsAre(p, some, last) ==
  /\ last \in Nat
  /\ some \in SUBSET Effects
  /\ \A x \in some : x.run <= last
  /\ \A x, y \in some : x.run = last /\ y.run = last => x = y
  /\ \A x \in some : x.run = last =>
       /\ p.source = "live" /\ x.of = Selected(p)
       /\ x.at = "settle" => p.edge # Null
  /\ p.settling <=> \E x \in some : x.run = last /\ x.at = "settle"

\* A reference is bound to the fixture of the press.
ButtonHolds ==
  /\ button = [status |-> button.status, at |-> button.at, of |-> button.of, ref |-> button.ref]
  /\ button.at \in {Null, "intent", "send", "verify"}
  /\ button.at \in {"send", "verify"} => button.ref.of = button.of
  /\ button.status = "ok" => button.ref \in landed /\ button.ref.of = button.of
  /\ button.at # Null => button.status = "busy"

OracleAppInv ==
  /\ PageShows(page)
  /\ EffectsAre(page, effects, runs)
  /\ ButtonHolds

LEMMA OracleAppStarts == ASSUME OracleAppInit PROVE OracleAppInv
<1>1. /\ page = [fixtures |-> <<>>, source |-> Null, idx |-> 1, edge |-> Null,
                 settleRes |-> Null, settling |-> FALSE]
      /\ effects = {} /\ runs = 0
      /\ button = [status |-> "idle", at |-> Null, of |-> Null, ref |-> Null]
  BY DEF OracleAppInit
<1>2. page \in Pages
  BY <1>1, OracleAppAssumption DEF Pages, Boards, Places
<1>3. PageShows(page)
  BY <1>1, <1>2, OracleAppAssumption DEF PageShows
<1>4. EffectsAre(page, effects, runs)
  BY <1>1 DEF EffectsAre
<1>5. ButtonHolds
  <2>1. button.status = "idle" /\ button.at = Null /\ button.of = Null /\ button.ref = Null
    BY <1>1
  <2> QED
    BY <1>1, <2>1, OracleAppAssumption DEF ButtonHolds
<1> QED
  BY <1>3, <1>4, <1>5 DEF OracleAppInv

LEMMA OracleAppRests == ASSUME OracleAppInv, UNCHANGED oracleAppVars PROVE OracleAppInv'
<1>1. /\ page' = page /\ effects' = effects /\ runs' = runs /\ button' = button
      /\ landed' = landed
  BY DEF oracleAppVars
<1> QED
  BY <1>1 DEF OracleAppInv, PageShows, Selected, EffectsAre, ButtonHolds

LEMMA FixturesAre ==
    ASSUME NEW board \in {DEMO_FIXTURES, LiveFixtures}, NEW i \in DOMAIN board
    PROVE  board[i] \in Fixtures
BY DEF Fixtures, Range

\* A render starts over for what is then selected; what earlier effects wait
\* for is no longer alive.
LEMMA RenderKeeps ==
    ASSUME OracleAppInv, NEW p \in Pages, p.source \in {"live", "demo"},
           p.fixtures \in {DEMO_FIXTURES, LiveFixtures}, p.idx \in DOMAIN p.fixtures,
           p.source = "demo" => p.fixtures = DEMO_FIXTURES,
           p.source = "live" => p.fixtures = LiveFixtures,
           Render(p), UNCHANGED <<button, landed>>
    PROVE  OracleAppInv'
<1> DEFINE live == p.source = "live"
           fx == Selected(p)
           load == [run |-> runs + 1, of |-> fx, at |-> "edge"]
<1>1. /\ runs' = runs + 1
      /\ page' = [p EXCEPT !.edge = IF live THEN Null ELSE ClientEdge(fx, live),
                           !.settleRes = Null, !.settling = FALSE]
      /\ effects' = IF live THEN effects \cup {load} ELSE effects
  BY DEF Render
<1>2. fx \in Fixtures
  BY FixturesAre DEF Selected
<1>3. /\ runs \in Nat /\ effects \in SUBSET Effects /\ \A x \in effects : x.run <= runs
  BY DEF OracleAppInv, EffectsAre
<1>4. /\ ClientEdge(fx, live) \in Edges /\ ClientEdge(fx, live).of = fx
      /\ ClientEdge(fx, live).demo = ~live
      /\ SampleAsTold(ClientEdge(fx, live))
  BY <1>2 DEF ClientEdge, Edges, SampleAsTold
<1>5. Null # "live" /\ Null # "demo" /\ Null \notin Edges
  BY OracleAppAssumption DEF Edges
<1> HIDE DEF fx, live
<1>6. PICK e : e = IF live THEN Null ELSE ClientEdge(fx, live)
  OBVIOUS
<1>7. e \in Edges \cup {Null} /\ (live => e = Null) /\ (~live => e.of = fx /\ e.demo)
      /\ (~live => SampleAsTold(e))
  BY <1>4, <1>6
<1>8. /\ page' \in Pages
      /\ page'.fixtures = p.fixtures /\ page'.source = p.source /\ page'.idx = p.idx
      /\ page'.edge = e /\ page'.settleRes = Null /\ page'.settling = FALSE
  <2>1. page' = [p EXCEPT !.edge = e, !.settleRes = Null, !.settling = FALSE]
    BY <1>1, <1>6
  <2> QED
    BY <1>7, <2>1 DEF Pages
<1>9. Selected(page)' = fx
  BY <1>8 DEF Selected, fx
<1>10. PageShows(page)'
  <2>1. page'.edge # Null =>
          /\ page'.edge.of = fx /\ page'.edge.demo /\ page'.source = "demo"
          /\ SampleAsTold(page'.edge)
    BY <1>7, <1>8 DEF live
  <2> QED
    BY <1>2, <1>5, <1>8, <1>9, <2>1 DEF PageShows
<1>11. \A x \in effects : x.run \in Nat /\ x.run < runs + 1
  BY <1>3 DEF Effects
<1>12. load \in Effects /\ load.run = runs + 1 /\ load.of = fx /\ load.at = "edge"
  BY <1>2, <1>3 DEF Effects
<1> HIDE DEF load
<1>13. effects' \in SUBSET Effects /\ \A x \in effects' : x.run = runs + 1 => x = load /\ live
  BY <1>1, <1>3, <1>11, <1>12
<1>14. \A x \in effects' : x.run <= runs + 1
  BY <1>1, <1>3, <1>11, <1>12
<1>15. EffectsAre(page, effects, runs)'
  BY <1>1, <1>3, <1>8, <1>9, <1>12, <1>13, <1>14 DEF EffectsAre, live
<1>16. ButtonHolds'
  BY DEF OracleAppInv, ButtonHolds
<1> QED
  BY <1>10, <1>15, <1>16 DEF OracleAppInv

LEMMA BoardKeeps == ASSUME OracleAppInv, BoardArrives \/ BoardIsQuiet PROVE OracleAppInv'
<1>1. PageShows(page) /\ page \in Pages
  BY DEF OracleAppInv, PageShows
<1>2. UNCHANGED <<button, landed>>
  BY DEF BoardArrives, BoardIsQuiet
<1>3. CASE BoardArrives
  <2>1. PICK p : p = [page EXCEPT !.fixtures = LiveFixtures, !.source = "live", !.idx = 1]
    OBVIOUS
  <2>2. Render(p)
    BY <1>3, <2>1 DEF BoardArrives
  <2>3. /\ p \in Pages /\ p.source = "live" /\ p.fixtures = LiveFixtures /\ p.idx = 1
    BY <1>1, <2>1, OracleAppAssumption DEF Pages, Boards, Places
  <2> QED
    BY <1>2, <2>2, <2>3, OracleAppAssumption, RenderKeeps
<1>4. CASE BoardIsQuiet /\ page.fixtures = <<>>
  <2>1. PICK p : p = [page EXCEPT !.fixtures = DEMO_FIXTURES, !.source = "demo"]
    OBVIOUS
  <2>2. Render(p)
    BY <1>4, <2>1 DEF BoardIsQuiet
  <2>3. page.source = Null /\ page.idx = 1
    BY <1>1, <1>4 DEF PageShows
  <2>4. /\ p \in Pages /\ p.source = "demo" /\ p.fixtures = DEMO_FIXTURES /\ p.idx = 1
    BY <1>1, <2>1, <2>3 DEF Pages, Boards
  <2> QED
    BY <1>2, <2>2, <2>4, OracleAppAssumption, RenderKeeps
<1>5. CASE BoardIsQuiet /\ page.fixtures # <<>>
  <2>1. page' = page /\ runs' = runs /\ effects' = effects
    BY <1>5 DEF BoardIsQuiet
  <2> QED
    BY <1>2, <2>1 DEF OracleAppInv, PageShows, Selected, EffectsAre, ButtonHolds
<1> QED
  BY <1>3, <1>4, <1>5

LEMMA SelectKeeps ==
    ASSUME OracleAppInv, NEW i \in DOMAIN page.fixtures, Select(i)
    PROVE  OracleAppInv'
<1>1. PageShows(page) /\ page \in Pages
  BY DEF OracleAppInv, PageShows
<1>2. page.source # Null
  BY <1>1 DEF PageShows
<1>3. page.source \in {"live", "demo"}
  BY <1>1, <1>2 DEF Pages
<1>4. /\ page.fixtures \in {DEMO_FIXTURES, LiveFixtures}
      /\ page.source = "demo" => page.fixtures = DEMO_FIXTURES
      /\ page.source = "live" => page.fixtures = LiveFixtures
  BY <1>1, <1>3 DEF PageShows
<1>5. PICK p : p = [page EXCEPT !.idx = i]
  OBVIOUS
<1>6. Render(p) /\ UNCHANGED <<button, landed>>
  BY <1>5 DEF Select
<1>7. i \in Places
  BY <1>4 DEF Places
<1>8. p \in Pages /\ p.source = page.source /\ p.fixtures = page.fixtures /\ p.idx = i
  BY <1>1, <1>5, <1>7 DEF Pages
<1> QED
  BY <1>3, <1>4, <1>6, <1>8, RenderKeeps

LEMMA AnsweredEdgeKeeps ==
    ASSUME OracleAppInv, NEW x \in effects, EdgeAnswered(x)
    PROVE  OracleAppInv'
<1>1. /\ PageShows(page) /\ page \in Pages /\ EffectsAre(page, effects, runs)
      /\ runs' = runs /\ button' = button /\ landed' = landed /\ x.at = "edge"
  BY DEF OracleAppInv, PageShows, EdgeAnswered
<1>2. ButtonHolds'
  BY <1>1 DEF OracleAppInv, ButtonHolds
<1>3. /\ runs \in Nat /\ effects \in SUBSET Effects /\ x \in Effects /\ x.of \in Fixtures
      /\ \A y \in effects : y.run <= runs
      /\ \A y, z \in effects : y.run = runs /\ z.run = runs => y = z
      /\ \A y \in effects : y.run = runs =>
           /\ page.source = "live" /\ y.of = Selected(page)
           /\ y.at = "settle" => page.edge # Null
      /\ page.settling <=> \E y \in effects : y.run = runs /\ y.at = "settle"
  BY <1>1 DEF EffectsAre, Effects
<1>4. CASE Alive(x)
  <2>1. x.run = runs /\ page.source = "live" /\ x.of = Selected(page)
    BY <1>3, <1>4 DEF Alive
  <2>2. PICK e \in {ProxyEdge(x.of), ClientEdge(x.of, TRUE)} :
          page' = [page EXCEPT !.edge = e, !.settling = TRUE]
    BY <1>4 DEF EdgeAnswered
  <2>3. e \in Edges /\ e.of = Selected(page) /\ ~e.demo /\ SampleAsTold(e) /\ e # Null
    <3>1. e \in Edges /\ e.of = x.of /\ ~e.demo /\ SampleAsTold(e)
      <4>1. PICK fx \in Fixtures : fx = x.of
        BY <1>3
      <4>2. PICK from \in {"proxy", "page"}, sample \in BOOLEAN :
              /\ e = [of |-> fx, from |-> from, demo |-> FALSE, sample |-> sample]
              /\ sample <=> from = "page" /\ fx \in Nameless
        <5>1. CASE e = ProxyEdge(x.of)
          BY <4>1, <5>1 DEF ProxyEdge
        <5>2. CASE e = ClientEdge(x.of, TRUE)
          <6>1. PICK demo, sample :
                  demo = (~TRUE) /\ sample = (~TRUE \/ fx \in Nameless)
            OBVIOUS
          <6>2. e = [of |-> fx, from |-> "page", demo |-> demo, sample |-> sample]
            BY <4>1, <5>2, <6>1 DEF ClientEdge
          <6>3. demo = FALSE /\ sample \in BOOLEAN /\ (sample <=> fx \in Nameless)
            BY <6>1
          <6> QED
            BY <6>2, <6>3
        <5> QED
          BY <2>2, <5>1, <5>2
      <4>3. e \in Edges
        BY <4>2 DEF Edges
      <4>4. e.of = fx /\ ~e.demo /\ SampleAsTold(e)
        BY <4>2 DEF SampleAsTold
      <4> QED
        BY <4>1, <4>3, <4>4
    <3> QED
      BY <2>1, <3>1, OracleAppAssumption DEF Edges
  <2>4. /\ page' \in Pages /\ page'.edge = e /\ page'.settling = TRUE
        /\ page'.fixtures = page.fixtures /\ page'.source = page.source /\ page'.idx = page.idx
        /\ page'.settleRes = page.settleRes
    BY <1>1, <2>2, <2>3 DEF Pages
  <2>5. Selected(page)' = Selected(page)
    BY <2>4 DEF Selected
  <2>6. "live" # Null /\ "live" # "demo"
    BY OracleAppAssumption
  <2>7. PageShows(page)'
    BY <1>1, <2>1, <2>3, <2>4, <2>5, <2>6 DEF PageShows
  <2>8. PICK y : y = [x EXCEPT !.at = "settle"]
    OBVIOUS
  <2>9. y \in Effects /\ y.run = runs /\ y.of = x.of /\ y.at = "settle"
    BY <1>3, <2>1, <2>8 DEF Effects
  <2>10. effects' = (effects \ {x}) \cup {y}
    BY <1>4, <2>8 DEF EdgeAnswered
  <2>11. \A z \in effects' : z.run = runs => z = y
    BY <1>3, <2>1, <2>9, <2>10
  <2>12. EffectsAre(page, effects, runs)'
    BY <1>1, <1>3, <2>1, <2>3, <2>4, <2>5, <2>9, <2>10, <2>11 DEF EffectsAre
  <2> QED
    BY <1>2, <2>7, <2>12 DEF OracleAppInv
<1>5. CASE ~Alive(x)
  <2>1. effects' = effects \ {x} /\ page' = page /\ x.run # runs
    BY <1>5 DEF EdgeAnswered, Alive
  <2>2. EffectsAre(page, effects, runs)'
    BY <1>1, <1>3, <2>1 DEF EffectsAre, Selected
  <2> QED
    BY <1>1, <1>2, <2>1, <2>2 DEF OracleAppInv, PageShows, Selected
<1> QED
  BY <1>4, <1>5

LEMMA SettledKeeps ==
    ASSUME OracleAppInv, NEW x \in effects, Settled(x)
    PROVE  OracleAppInv'
<1>1. /\ PageShows(page) /\ page \in Pages /\ EffectsAre(page, effects, runs)
      /\ runs' = runs /\ button' = button /\ landed' = landed /\ x.at = "settle"
      /\ effects' = effects \ {x}
  BY DEF OracleAppInv, PageShows, Settled
<1>2. ButtonHolds'
  BY <1>1 DEF OracleAppInv, ButtonHolds
<1>3. /\ runs \in Nat /\ effects \in SUBSET Effects /\ x.of \in Fixtures
      /\ \A y \in effects : y.run <= runs
      /\ \A y, z \in effects : y.run = runs /\ z.run = runs => y = z
      /\ \A y \in effects : y.run = runs =>
           /\ page.source = "live" /\ y.of = Selected(page)
           /\ y.at = "settle" => page.edge # Null
      /\ page.settling <=> \E y \in effects : y.run = runs /\ y.at = "settle"
  BY <1>1 DEF EffectsAre, Effects
<1>4. CASE Alive(x)
  <2>1. /\ x.run = runs /\ page.source = "live" /\ x.of = Selected(page) /\ page.edge # Null
    BY <1>1, <1>3, <1>4 DEF Alive
  <2>2. PICK ok \in BOOLEAN :
          page' = [page EXCEPT !.settleRes = [of |-> x.of, ok |-> ok], !.settling = FALSE]
    BY <1>4 DEF Settled
  <2>3. PICK res : res = [of |-> x.of, ok |-> ok]
    OBVIOUS
  <2>4. res \in Settlements /\ res.of = Selected(page)
    BY <1>3, <2>1, <2>3 DEF Settlements
  <2>5. /\ page' \in Pages /\ page'.settleRes = res /\ page'.settling = FALSE
        /\ page'.fixtures = page.fixtures /\ page'.source = page.source /\ page'.idx = page.idx
        /\ page'.edge = page.edge
    <3>1. page' = [page EXCEPT !.settleRes = res, !.settling = FALSE]
      BY <2>2, <2>3
    <3> QED
      BY <1>1, <2>4, <3>1 DEF Pages
  <2>6. Selected(page)' = Selected(page)
    BY <2>5 DEF Selected
  <2>7. PageShows(page)'
    BY <1>1, <2>1, <2>4, <2>5, <2>6 DEF PageShows
  <2>8. \A z \in effects' : z.run # runs
    BY <1>1, <1>3, <2>1
  <2>9. EffectsAre(page, effects, runs)'
    BY <1>1, <1>3, <2>5, <2>8 DEF EffectsAre
  <2> QED
    BY <1>2, <2>7, <2>9 DEF OracleAppInv
<1>5. CASE ~Alive(x)
  <2>1. page' = page /\ x.run # runs
    BY <1>5 DEF Settled, Alive
  <2>2. EffectsAre(page, effects, runs)'
    BY <1>1, <1>3, <2>1 DEF EffectsAre, Selected
  <2> QED
    BY <1>1, <1>2, <2>1, <2>2 DEF OracleAppInv, PageShows, Selected
<1> QED
  BY <1>4, <1>5

LEMMA ButtonKeeps ==
    ASSUME OracleAppInv, PollAgain \/ Pay \/ PayIntent \/ SendTransfer \/ PayVerify
    PROVE  OracleAppInv'
<1>1. page' = page /\ effects' = effects /\ runs' = runs
  BY DEF PollAgain, Pay, PayIntent, SendTransfer, PayVerify
<1>2. PageShows(page)' /\ EffectsAre(page, effects, runs)'
  BY <1>1 DEF OracleAppInv, PageShows, EffectsAre, Selected
<1> SUFFICES ButtonHolds'
  BY <1>2 DEF OracleAppInv
<1>3. /\ button = [status |-> button.status, at |-> button.at, of |-> button.of, ref |-> button.ref]
      /\ button.at \in {Null, "intent", "send", "verify"}
      /\ button.at \in {"send", "verify"} => button.ref.of = button.of
      /\ button.status = "ok" => button.ref \in landed /\ button.ref.of = button.of
      /\ button.at # Null => button.status = "busy"
  BY DEF OracleAppInv, ButtonHolds
<1>4. Null \notin {"intent", "send", "verify"}
  BY OracleAppAssumption
<1>5. ASSUME NEW status \in {"busy", "error"}, NEW at \in {Null, "intent", "send", "verify"},
             at # Null => status = "busy",
             button' = ButtonAt(status, at), at \in {"send", "verify"} => button.ref.of = button.of
      PROVE  ButtonHolds'
  <2>1. /\ button' = [status |-> status, at |-> at, of |-> button.of, ref |-> button.ref]
    BY <1>3, <1>5 DEF ButtonAt
  <2>2. /\ button'.status = status /\ button'.at = at /\ button'.of = button.of
        /\ button'.ref = button.ref
    BY <2>1
  <2> QED
    BY <1>5, <2>1, <2>2 DEF ButtonHolds
<1>6. ASSUME Throws PROVE ButtonHolds'
  BY <1>4, <1>5, <1>6 DEF Throws
<1>7. CASE PollAgain
  BY <1>7 DEF PollAgain, OracleAppInv, ButtonHolds
<1>8. CASE Pay
  <2>1. CASE button' = [status |-> "busy", at |-> "intent", of |-> Selected(page), ref |-> Null]
    BY <1>4, <2>1 DEF ButtonHolds
  <2>2. CASE button' = ButtonAt("error", Null)
    BY <1>4, <1>5, <2>2
  <2> QED
    BY <1>8, <2>1, <2>2 DEF Pay
<1>9. CASE PayIntent
  <2>1. CASE button' = [ButtonAt("busy", "send") EXCEPT !.ref = BoundReference(button.of)]
    <3>1. PICK ref : ref = BoundReference(button.of)
      OBVIOUS
    <3>2. ref.of = button.of
      BY <3>1 DEF BoundReference
    <3>3. button' = [status |-> "busy", at |-> "send", of |-> button.of, ref |-> ref]
      BY <1>3, <2>1, <3>1 DEF ButtonAt
    <3> QED
      BY <3>2, <3>3 DEF ButtonHolds
  <2> QED
    BY <1>6, <1>9, <2>1 DEF PayIntent
<1>10. CASE SendTransfer
  <2>1. button.ref.of = button.of
    BY <1>3, <1>10 DEF SendTransfer
  <2>2. CASE button' = ButtonAt("busy", "verify")
    BY <1>5, <2>1, <2>2
  <2>3. CASE button' = ButtonAt("error", Null)
    BY <1>4, <1>5, <2>3
  <2> QED
    BY <1>6, <1>10, <2>2, <2>3 DEF SendTransfer
<1>11. CASE PayVerify
  <2>1. button.ref.of = button.of /\ landed' = landed
    BY <1>3, <1>11 DEF PayVerify
  <2>2. CASE button.ref \in landed /\ button' = ButtonAt("ok", Null)
    <3>1. button' = [status |-> "ok", at |-> Null, of |-> button.of, ref |-> button.ref]
      BY <1>3, <2>2 DEF ButtonAt
    <3> QED
      BY <1>4, <2>1, <2>2, <3>1 DEF ButtonHolds
  <2>3. CASE button' = ButtonAt("error", Null)
    BY <1>4, <1>5, <2>3
  <2> QED
    BY <1>11, <2>2, <2>3 DEF PayVerify
<1> QED
  BY <1>7, <1>8, <1>9, <1>10, <1>11

LEMMA OracleAppKeeps == ASSUME OracleAppInv, OracleAppNext PROVE OracleAppInv'
BY BoardKeeps, SelectKeeps, AnsweredEdgeKeeps, SettledKeeps, ButtonKeeps DEF OracleAppNext

LEMMA OracleAppPromise == ASSUME OracleAppInv PROVE ReadIsOfSelection
BY DEF OracleAppInv, PageShows, EffectsAre, ButtonHolds, ReadIsOfSelection, SampleAsTold

-----------------------------------------------------------------------------
(* The theorems.                                                           *)

ClientsInv ==
  DashboardInv /\ BacktestInv /\ DeskInv /\ GatewayInv /\ OracleAppInv

\* Each client, the seller's data and the page keep their own invariants, and
\* leave the others alone.
THEOREM ClientsInvariant == ClientsSpec => []ClientsInv
<1>1. ClientsInit => ClientsInv
  BY DashboardStarts, BacktestStarts, DeskStarts, GatewayStarts, OracleAppStarts
     DEF ClientsInit, ClientsInv
<1>2. ClientsInv /\ [ClientsNext]_clientsVars => ClientsInv'
  <2> SUFFICES ASSUME ClientsInv, [ClientsNext]_clientsVars PROVE ClientsInv'
    OBVIOUS
  <2>1. DashboardInv /\ BacktestInv /\ DeskInv /\ GatewayInv /\ OracleAppInv
    BY DEF ClientsInv
  <2>2. UNCHANGED dashboardVars => DashboardInv'
    <3>1. UNCHANGED dashboardVars => UNCHANGED <<selection, details, view, saves>>
      BY DEF dashboardVars, historyVars
    <3> QED
      BY <2>1, <3>1, DashboardRests
  <2>3. /\ UNCHANGED backtestVars => BacktestInv'
        /\ UNCHANGED deskVars => DeskInv'
        /\ UNCHANGED gatewayVars => GatewayInv'
        /\ UNCHANGED oracleAppVars => OracleAppInv'
    BY <2>1, BacktestRests, DeskRests, GatewayRests, OracleAppRests
  <2>4. CASE Browses
    <3>1. DashboardNext /\ UNCHANGED <<backtestVars, deskVars, gatewayVars, oracleAppVars>>
      BY <2>4 DEF Browses, quantVars, serverVars
    <3> QED
      BY <2>1, <2>3, <3>1, DashboardKeeps DEF ClientsInv
  <2>5. CASE Backtests
    <3>1. BacktestNext /\ UNCHANGED <<dashboardVars, deskVars, gatewayVars, oracleAppVars>>
      BY <2>5 DEF Backtests, serverVars
    <3> QED
      BY <2>1, <2>2, <2>3, <3>1, BacktestKeeps DEF ClientsInv
  <2>6. CASE Orders
    <3>1. DeskNext /\ UNCHANGED <<dashboardVars, backtestVars, gatewayVars, oracleAppVars>>
      BY <2>6 DEF Orders, serverVars
    <3> QED
      BY <2>1, <2>2, <2>3, <3>1, DeskKeeps DEF ClientsInv
  <2>7. CASE Streams
    <3>1. UNCHANGED <<dashboardVars, backtestVars, deskVars, gatewayVars, oracleAppVars>>
      BY <2>7 DEF Streams, quantVars
    <3> QED
      BY <2>2, <2>3, <3>1 DEF ClientsInv
  <2>8. CASE Sells
    <3>1. GatewayNext /\ UNCHANGED <<dashboardVars, backtestVars, deskVars, oracleAppVars>>
      BY <2>8 DEF Sells, quantVars
    <3> QED
      BY <2>1, <2>2, <2>3, <3>1, GatewayKeeps DEF ClientsInv
  <2>9. CASE Reads
    <3>1. OracleAppNext /\ UNCHANGED <<dashboardVars, backtestVars, deskVars, gatewayVars>>
      BY <2>9 DEF Reads, quantVars
    <3> QED
      BY <2>1, <2>2, <2>3, <3>1, OracleAppKeeps DEF ClientsInv
  <2>10. CASE UNCHANGED clientsVars
    <3>1. UNCHANGED <<dashboardVars, backtestVars, deskVars, gatewayVars, oracleAppVars>>
      BY <2>10 DEF clientsVars, quantVars, serverVars
    <3> QED
      BY <2>2, <2>3, <3>1 DEF ClientsInv
  <2> QED
    BY <2>4, <2>5, <2>6, <2>7, <2>8, <2>9, <2>10 DEF ClientsNext
<1> QED
  BY <1>1, <1>2, PTL DEF ClientsSpec

\* The detail that the dashboard shows when nothing loads is that of the session
\* that is selected, with that session's workspace, members, audit and
\* organization unless another session's save has been answered into them since;
\* and the page's read and settlement are those of the fixture that is selected,
\* however late earlier ones answer, and made of sample odds only where it says
\* so or the fixture's row names no prices (web/src/api.ts:464-533, 553, 577-586,
\* txodds/web/app.js:91-98, 382-417).
THEOREM SelectionIsShown == ClientsSpec => []ShownIsSelected
<1>1. ClientsInv => ShownIsSelected
  BY OracleAppPromise DEF ClientsInv, DashboardInv, ShownIsSelected
<1> QED
  BY <1>1, ClientsInvariant, PTL

\* A backtest's curve is what its trades have won or lost, and no purchase is on
\* credit (privateQuantBacktest.ts:113-155).
THEOREM CurveIsExplained == ClientsSpec => []TradesExplainEquity
<1>1. ClientsInv => TradesExplainEquity
  BY BacktestPromise DEF ClientsInv
<1> QED
  BY <1>1, ClientsInvariant, PTL

\* The paper account is never overdrawn and adds up, whatever the market and
\* other workflows did between approval and execution; and each position fitted
\* under the limits on top of those that were held when its risk was evaluated
\* (privateQuantRisk.ts:85-150, privateQuantOrders.ts:160-202).
THEOREM AccountIsKept == ClientsSpec => []AccountHolds
<1>1. ClientsInv => AccountHolds
  BY DeskPromise DEF ClientsInv
<1> QED
  BY <1>1, ClientsInvariant, PTL

\* A memo says live only of live data, and a memo from the context cache is the
\* one that the providers' caches would still make, whatever failed when
\* (financialDataProvider.ts:50-191).
THEOREM FallbackIsShown == ClientsSpec => []FallbackIsTold
<1>1. ClientsInv => FallbackIsTold
  BY GatewayPromise DEF ClientsInv
<1> QED
  BY <1>1, ClientsInvariant, PTL
====
