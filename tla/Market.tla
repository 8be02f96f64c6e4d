------------------------------- MODULE Market -------------------------------
(***************************************************************************)
(* The market round (coral-agents/buyer-agent/src/index.ts and             *)
(* coral-agents/seller-agent/src/index.ts): a buyer asks for bids, awards  *)
(* one seller, puts the price in an arbitrated order on the chain, and has *)
(* it paid out when the delivery passes its checks.                        *)
(*                                                                         *)
(* The chain is module Order, which the arbiter program implements         *)
(* (ProgramProofs.tla): in SETTLEMENT_MODE=arbiter, the default, the       *)
(* buyer's process holds the arbiter's key.  With SETTLEMENT_MODE=direct an*)
(* order is a deposit of the buyer's own in the escrow program, which the  *)
(* buyer alone releases and takes back (module Escrow, on the variables of *)
(* Order).  All agents of all sessions run in one mode.                    *)
(*                                                                         *)
(* Every wait of the buyer has a deadline, so it may give up at any time.  *)
(* A session may be relaunched: the agents start afresh, the chain does    *)
(* not.  Prices are abstract units.  An order's reference is a SHA-256 of  *)
(* its round, wallet and price, taken to be free of collisions; service    *)
(* and argument are the same in the same round of every session.  Messages *)
(* nobody acts on (ERROR, VERIFIED, RELEASED) are left out.                *)
(***************************************************************************)
EXTENDS Order, Sequences, FiniteSetsExt

CONSTANTS
    Sellers, Buyer, ArbiterKey,
    Wallet,         \* Wallet[s]: the payout wallet of seller s (SELLER_WALLET)
    Floor,          \* Floor[s]: its FLOOR_SOL
    Budget,         \* BUYER_MAX_SOL
    Trusted,        \* wallets payoutMatches accepts
    Proposals,      \* prices the model may propose
    PlainFrom,      \* smallest positive price that is printed without an exponent
    Sol,            \* units in one SOL
    ConfigRent,     \* what naming the arbiter costs
    LowWater, Stipend,  \* an arbiter with less than LowWater is sent Stipend
    DeadlineSecs,   \* ESCROW_DEADLINE_SECS
    Modes,          \* the modes a market may be configured with
    Endowment,      \* what each party starts with
    MaxTurns,       \* bound: rounds asked, plus sessions relaunched
    NoPrice, NoTerms, NoSeller

ASSUME DeadlineAssumption == DeadlineSecs \in Nat \ {0}
ASSUME PartiesAssumption ==
    /\ Wallet \in [Sellers -> Parties] /\ Trusted \subseteq Parties
    /\ {Buyer, ArbiterKey} \subseteq Parties /\ Nobody \notin Parties
    /\ Buyer \notin Sellers /\ NoSeller \notin Sellers
    /\ Endowment \in [Parties -> Nat]

(* Amounts are lamports and prices whole units of some size: no fractions. *)
ASSUME AmountsAssumption ==
    /\ Floor \in [Sellers -> Nat] /\ Proposals \subseteq Nat
    /\ {Budget, PlainFrom, Sol, MaxTurns} \subseteq Nat
    /\ {Fee, ConfigRent, LowWater, Stipend, Horizon} \subseteq Nat
    /\ NoPrice \notin Nat /\ NoOrder \notin Orders

Rounds == 1..MaxTurns
Agents == Sellers \cup {Buyer}

(* A price is sent as `price=${n}` and read back by /price=([\d.]+)/: a    *)
(* price below 1e-6 prints as "1e-7", of which the reader keeps the "1".   *)
(* Such a price is read as that many whole SOL.                            *)
Read(p) == IF p > 0 /\ p < PlainFrom THEN p * Sol ELSE p

Reference(n, w, p) == <<n, w, p>>

ASSUME ReferencesAssumption ==
    \A n \in Rounds, s \in Sellers : \A p \in Floor[s]..Budget :
        Reference(n, Wallet[s], p) \in Refs

WantMsg(n) == [type |-> "WANT", round |-> n, budget |-> Budget]
BidMsg(n, s, p) == [type |-> "BID", round |-> n, by |-> s, price |-> Read(p)]
AwardMsg(n) == [type |-> "AWARD", round |-> n]
TermsMsg(n, w, p) ==
    [type |-> "ESCROW_REQUIRED", round |-> n, reference |-> Reference(n, w, p),
     seller |-> w, amount |-> Read(p)]
DepositedMsg(n, r) == [type |-> "DEPOSITED", round |-> n, reference |-> r]
DeliveredMsg(n, good) == [type |-> "DELIVERED", round |-> n, good |-> good]

VARIABLES
    mode,       \* SETTLEMENT_MODE
    session, round, stage,  \* the buyer: session, round, and where in the round it is
    bids,       \* bids[s]: the last bid of seller s in this round, or NoPrice
    winner,     \* the seller awarded in this round
    terms,      \* the ESCROW_REQUIRED the buyer acts on
    quoted,     \* quoted[s][n]: the price s bid in round n, or NoPrice
    awarded,    \* awarded[s]: the orders s waits to see funded: <<reference, price>>
    serving,    \* serving[s]: the delivery s has under way, if any: its round and
                \* reference, and (history) the deposit as s read it
    mailbox,    \* mailbox[a]: mentions of agent a it has not read
    work,       \* history: work[r], the deliveries <<seller, good>> made against
                \* the deposit order r holds or last held
    deposited   \* history: the references some deposit has used

history == <<work, deposited>>
agentVars ==
    <<mode, session, round, stage, bids, winner, terms, quoted, awarded, serving, mailbox, history>>
marketVars == <<orderVars, agentVars>>
-----------------------------------------------------------------------------
TurnsLeft == round + session <= MaxTurns

NoBids == [s \in Sellers |-> NoPrice]
NoQuotes == [s \in Sellers |-> [n \in Rounds |-> NoPrice]]
NoAwards == [s \in Sellers |-> {}]
NoWork == [s \in Sellers |-> {}]
Silence == [a \in Agents |-> <<>>]
Bidders == {s \in Sellers : bids[s] # NoPrice}

Consume(box, a) == [box EXCEPT ![a] = Tail(@)]
Post(box, to, m) == [a \in Agents |-> IF a \in to THEN Append(box[a], m) ELSE box[a]]

(* The mention waitForMention hands to agent a next, if there is one.      *)
Mention(a) == IF mailbox[a] = <<>> THEN {} ELSE {Head(mailbox[a])}

(* Anything but "direct" means "arbiter".                                  *)
ModeInit == mode \in Modes

MarketInit ==
    /\ order = [r \in Refs |-> NoOrder]
    /\ pot = [r \in Refs |-> 0]
    /\ purse = Endowment
    /\ arbiter = Nobody
    /\ signer = Nobody
    /\ clock = 0
    /\ ModeInit
    /\ session = 1
    /\ round = 0
    /\ stage = "setup"
    /\ bids = NoBids
    /\ winner = NoSeller
    /\ terms = NoTerms
    /\ quoted = NoQuotes
    /\ awarded = NoAwards
    /\ serving = NoWork
    /\ mailbox = Silence
    /\ work = [r \in Refs |-> {}]
    /\ deposited = {}
-----------------------------------------------------------------------------
(* The buyer.                                                              *)

(* The process starts by naming its arbiter key, unless one is named, and  *)
(* by giving that key some lamports, unless it has some: two transactions, *)
(* either of which may land or not when its call throws.  Nothing catches  *)
(* that, so the process ends.                                              *)
Begin(step) ==
    /\ stage' \in {step, "down"}
    /\ UNCHANGED <<mode, session, round, bids, winner, terms, quoted, awarded, serving,
                   mailbox, history>>

BeginFails ==
    /\ stage' = "down"
    /\ UNCHANGED <<orderVars, mode, session, round, bids, winner, terms, quoted, awarded,
                   serving,
                   mailbox, history>>

Configure ==
    /\ mode = "arbiter"
    /\ stage = "setup"
    /\ \/ /\ arbiter = Nobody
          /\ purse[Buyer] >= ConfigRent
          /\ arbiter' = ArbiterKey
          /\ signer' = Buyer
          /\ purse' = [purse EXCEPT ![Buyer] = @ - ConfigRent]
          /\ UNCHANGED <<order, pot, clock>>
          /\ Begin("funding")
       \/ arbiter # Nobody /\ UNCHANGED orderVars /\ Begin("funding")
       \/ BeginFails

FundArbiter ==
    /\ stage = "funding"
    /\ \/ /\ purse[ArbiterKey] < LowWater
          /\ purse[Buyer] >= Stipend
          /\ signer' = Buyer
          /\ purse' = [purse EXCEPT ![Buyer] = @ - Stipend, ![ArbiterKey] = @ + Stipend]
          /\ UNCHANGED <<order, pot, arbiter, clock>>
          /\ Begin("idle")
       \/ purse[ArbiterKey] >= LowWater /\ UNCHANGED orderVars /\ Begin("idle")
       \/ BeginFails

(* To settle directly it only fetches the program's description.           *)
SetUpDirect ==
    /\ mode = "direct"
    /\ stage = "setup"
    /\ UNCHANGED orderVars
    /\ Begin("idle")

Ask ==
    /\ stage = "idle"
    /\ TurnsLeft
    /\ round' = round + 1
    /\ stage' = "bidding"
    /\ bids' = NoBids
    /\ winner' = NoSeller
    /\ terms' = NoTerms
    /\ mailbox' = Post(mailbox, Sellers, WantMsg(round'))
    /\ UNCHANGED <<orderVars, mode, session, quoted, awarded, serving, history>>

(* A later bid of the same seller replaces the earlier one; anything else  *)
(* that is read during the window is gone.                                 *)
HearBid ==
    /\ stage = "bidding"
    /\ \E m \in Mention(Buyer) :
          /\ bids' = IF m.type = "BID" /\ m.round = round
                     THEN [bids EXCEPT ![m.by] = m.price] ELSE bids
    /\ mailbox' = Consume(mailbox, Buyer)
    /\ UNCHANGED <<orderVars, mode, session, round, stage, winner, terms, quoted, awarded,
                   serving, history>>

(* The window closes.  The model, or its fallback, may pick any bidder.    *)
Award ==
    /\ stage = "bidding"
    /\ \/ /\ Bidders = {}
          /\ stage' = "idle"
          /\ UNCHANGED <<winner, mailbox>>
       \/ \E s \in Bidders :
             /\ winner' = s
             /\ stage' = "terms"
             /\ mailbox' = Post(mailbox, {s}, AwardMsg(round))
    /\ UNCHANGED <<orderVars, mode, session, round, bids, terms, quoted, awarded, serving,
                   history>>

(* Definitions named ...Mutant are slips this code could have had.  No     *)
(* specification uses them: each shows that a property would catch it.     *)
IsTermsMutant(m) == m.type = "ESCROW_REQUIRED"

IsTerms(m) == m.type = "ESCROW_REQUIRED" /\ m.round = round

HearTerms ==
    /\ stage = "terms"
    /\ \E m \in Mention(Buyer) :
          /\ terms' = IF IsTerms(m) THEN m ELSE terms
          /\ stage' = IF ~IsTerms(m) THEN "terms"
                      ELSE IF m.seller \in Trusted THEN "opening" ELSE "idle"
    /\ mailbox' = Consume(mailbox, Buyer)
    /\ UNCHANGED <<orderVars, mode, session, round, bids, winner, quoted, awarded, serving,
                   history>>

(* The buyer pays in the amount and a rent; the deadline is counted from   *)
(* its own clock.                                                          *)
PayIn ==
    /\ signer' = Buyer
    /\ purse[Buyer] >= terms.amount + Fee
    /\ order' = [order EXCEPT ![terms.reference] =
                   [seller |-> terms.seller, amount |-> terms.amount,
                    deadline |-> clock + DeadlineSecs]]
    /\ Place(terms.reference)

OpenArbitrated == mode = "arbiter" /\ PayIn

Deposit == mode = "direct" /\ PayIn

(* The transaction lands, unless the chain refuses it; the call may throw  *)
(* either way, and only a call that returns is followed by DEPOSITED.      *)
OpenOrder ==
    /\ stage = "opening"
    /\ \/ /\ OpenArbitrated \/ Deposit
          /\ work' = [work EXCEPT ![terms.reference] = {}]
          /\ deposited' = deposited \cup {terms.reference}
          /\ \/ /\ stage' = "delivery"
                /\ mailbox' = Post(mailbox, {winner}, DepositedMsg(round, terms.reference))
             \/ stage' = "idle" /\ UNCHANGED mailbox
       \/ stage' = "idle" /\ UNCHANGED <<orderVars, mailbox, history>>
    /\ UNCHANGED <<mode, session, round, bids, winner, terms, quoted, awarded, serving>>

IsDeliveryMutant(m) == m.type = "DELIVERED"

IsDelivery(m) == m.type = "DELIVERED" /\ m.round = round

HearDelivery ==
    /\ stage = "delivery"
    /\ \E m \in Mention(Buyer) :
          /\ stage' = IF ~IsDelivery(m) THEN "delivery"
                      ELSE IF m.good THEN "releasing" ELSE "idle"
    /\ mailbox' = Consume(mailbox, Buyer)
    /\ UNCHANGED <<orderVars, mode, session, round, bids, winner, terms, quoted, awarded,
                   serving, history>>

TimedWaitsMutant == {"terms"}

TimedWaits == {"terms", "delivery"}

GiveUp ==
    /\ stage \in TimedWaits
    /\ stage' = "idle"
    /\ UNCHANGED <<orderVars, mode, session, round, bids, winner, terms, quoted, awarded,
                   serving, mailbox, history>>

(* The buyer's process signs with the arbiter's key.                       *)
ArbitrateRelease ==
    mode = "arbiter" /\ signer' = ArbiterKey /\ PaySeller(terms.reference)

(* The escrow program closes a deposit: the seller gets its amount, or     *)
(* nothing, and the buyer what is left of the pot.                         *)
Close(r, amount) ==
    /\ mode = "direct"
    /\ order[r] # NoOrder
    /\ signer' = Buyer
    /\ order' = [order EXCEPT ![r] = NoOrder]
    /\ pot' = [pot EXCEPT ![r] = 0]
    /\ purse' = [purse EXCEPT ![order[r].seller] = @ + amount, ![Buyer] = @ + pot[r] - amount]
    /\ UNCHANGED <<arbiter, clock>>

ReleaseDeposit == Close(terms.reference, order[terms.reference].amount)

Release ==
    /\ stage = "releasing"
    /\ stage' = "idle"
    /\ ArbitrateRelease \/ ReleaseDeposit \/ UNCHANGED orderVars
    /\ UNCHANGED <<mode, session, round, bids, winner, terms, quoted, awarded, serving,
                   mailbox, history>>

BuyerStep ==
    \/ Configure \/ FundArbiter \/ SetUpDirect \/ Ask \/ HearBid \/ Award \/ HearTerms \/ OpenOrder
    \/ HearDelivery \/ GiveUp \/ Release
-----------------------------------------------------------------------------
(* A seller handles one mention at a time.                                 *)

ClampMutant(floor, budget, p) == Max({floor, p})

Clamp(floor, budget, p) == Min({budget, Max({floor, p})})

(* The prices it may decide to bid; it may also decide not to.  Without an *)
(* answer of the model it bids its floor.                                  *)
DecideBid(s, budget) ==
    {Clamp(Floor[s], budget, p) : p \in {q \in Proposals \cup {Floor[s]} : Floor[s] <= budget}}

HandleWant(s) ==
    \E m \in Mention(s) :
       /\ m.type = "WANT"
       /\ \/ /\ UNCHANGED quoted
             /\ mailbox' = Consume(mailbox, s)
          \/ \E price \in DecideBid(s, m.budget) :
                /\ quoted' = [quoted EXCEPT ![s][m.round] = price]
                /\ mailbox' = Post(Consume(mailbox, s), {Buyer}, BidMsg(m.round, s, price))
       /\ UNCHANGED <<orderVars, mode, session, round, stage, bids, winner, terms, awarded,
                      serving, history>>

HandleAward(s) ==
    \E m \in Mention(s) :
       /\ m.type = "AWARD"
       /\ LET price == quoted[s][m.round]
          IN IF price = NoPrice
             THEN mailbox' = Consume(mailbox, s) /\ UNCHANGED <<quoted, awarded>>
             ELSE /\ awarded' = [awarded EXCEPT ![s] =
                                   @ \cup {<<Reference(m.round, Wallet[s], price), price>>}]
                  /\ quoted' = [quoted EXCEPT ![s][m.round] = NoPrice]
                  /\ mailbox' = Post(Consume(mailbox, s), {Buyer},
                                     TermsMsg(m.round, Wallet[s], price))
       /\ UNCHANGED <<orderVars, mode, session, round, stage, bids, winner, terms, serving,
                      history>>

IsFundedMutant(s, r, price) == TRUE

IsFunded(s, r, price) ==
    /\ order[r] # NoOrder
    /\ order[r].seller = Wallet[s]
    /\ order[r].amount >= price

(* A chain read that throws, an unknown reference and an order that is not *)
(* funded are answered with ERROR.  Otherwise the award is spent, and then *)
(* the service runs.                                                       *)
CheckDeposit(s) ==
    \E m \in Mention(s) :
       /\ m.type = "DEPOSITED"
       /\ LET due == {a \in awarded[s] : /\ a[1] = m.reference
                                         /\ IsFunded(s, m.reference, a[2])}
          IN \/ UNCHANGED <<awarded, serving>>
             \/ /\ due # {}
                /\ awarded' = [awarded EXCEPT ![s] = @ \ due]
                /\ serving' = [serving EXCEPT ![s] =
                                 {[round |-> m.round, reference |-> m.reference,
                                   deposit |-> order[m.reference]]}]
       /\ mailbox' = Consume(mailbox, s)
       /\ UNCHANGED <<orderVars, mode, session, round, stage, bids, winner, terms, quoted,
                      history>>

(* A service that throws is answered with ERROR.  While it runs the chain  *)
(* and the other agents go on.                                             *)
Deliver(s) ==
    \E d \in serving[s] :
       /\ serving' = [serving EXCEPT ![s] = {}]
       /\ \/ UNCHANGED <<work, mailbox>>
          \/ \E good \in BOOLEAN :
                /\ work' = [work EXCEPT ![d.reference] = @ \cup {<<s, good>>}]
                /\ mailbox' = Post(mailbox, {Buyer}, DeliveredMsg(d.round, good))
       /\ UNCHANGED <<orderVars, mode, session, round, stage, bids, winner, terms, quoted,
                      awarded,
                      deposited>>

SellerStep(s) ==
    \/ serving[s] = {} /\ (HandleWant(s) \/ HandleAward(s) \/ CheckDeposit(s))
    \/ Deliver(s)
-----------------------------------------------------------------------------
(* A mention is lost when its send throws, and when several are pending:   *)
(* parseMention keeps the first of those it is handed.                     *)
Lose(a) ==
    /\ mailbox[a] # <<>>
    /\ mailbox' = Consume(mailbox, a)
    /\ UNCHANGED <<orderVars, mode, session, round, stage, bids, winner, terms, quoted,
                   awarded, serving, history>>

(* The market is launched again: every agent is a fresh process.           *)
Relaunch ==
    /\ TurnsLeft
    /\ session' = session + 1
    /\ round' = 0
    /\ stage' = "setup"
    /\ bids' = NoBids
    /\ winner' = NoSeller
    /\ terms' = NoTerms
    /\ quoted' = NoQuotes
    /\ awarded' = NoAwards
    /\ serving' = NoWork
    /\ mailbox' = Silence
    /\ UNCHANGED <<orderVars, mode, history>>

(* Nothing in the agents calls a refund; whoever holds the arbiter's key,  *)
(* or in direct mode the buyer's, may, from the deadline on.               *)
Refund(r) == clock >= order[r].deadline /\ Close(r, 0)

Reclaim(r) ==
    /\ order[r] # NoOrder
    /\ (mode = "arbiter" /\ signer' = ArbiterKey /\ Reimburse(r, Buyer)) \/ Refund(r)
    /\ UNCHANGED agentVars

PassTime == Pass /\ UNCHANGED agentVars

MarketNext ==
    \/ BuyerStep
    \/ \E s \in Sellers : SellerStep(s)
    \/ \E a \in Agents : Lose(a)
    \/ Relaunch
    \/ \E r \in Refs : Reclaim(r)
    \/ PassTime

(* Each wait of the buyer ends by its deadline and each RPC call returns   *)
(* or throws, so the buyer goes on; nothing is assumed of the sellers.     *)
MarketSpec == MarketInit /\ [][MarketNext]_marketVars /\ WF_marketVars(BuyerStep)
-----------------------------------------------------------------------------
Prices == Nat \cup {NoPrice}
Underway == {"bidding", "terms", "opening", "delivery", "releasing"}
Acting == {"opening", "delivery", "releasing"}

Terms == [type : {"ESCROW_REQUIRED"}, round : Rounds, reference : Refs, seller : Parties, amount : Nat]
BuyerMail ==
    [type : {"BID"}, round : Rounds, by : Sellers, price : Nat]
        \cup Terms \cup [type : {"DELIVERED"}, round : Rounds, good : BOOLEAN]
SellerMail ==
    [type : {"WANT"}, round : Rounds, budget : {Budget}]
        \cup [type : {"AWARD"}, round : Rounds]
        \cup [type : {"DEPOSITED"}, round : Rounds, reference : Refs]

MarketTypeOK ==
    /\ order \in [Refs -> Orders \cup {NoOrder}]
    /\ pot \in [Refs -> Nat] /\ purse \in [Parties -> Nat]
    /\ arbiter \in {Nobody, ArbiterKey} /\ signer \in {Nobody, Buyer, ArbiterKey}
    /\ clock \in 0..Horizon
    /\ mode \in Modes
    /\ session \in 1..(MaxTurns + 1) /\ round \in 0..MaxTurns
    /\ stage \in {"setup", "funding", "down", "idle"} \cup Underway
    /\ bids \in [Sellers -> Prices]
    /\ winner \in Bidders \cup {NoSeller}
    /\ stage \in {"terms"} \cup Acting => winner # NoSeller
    /\ stage \in Acting => terms \in Terms
    /\ quoted \in [Sellers -> [Rounds -> Prices]]
    /\ awarded \in [Sellers -> SUBSET (Refs \X Nat)]
    /\ serving \in [Sellers -> SUBSET [round : Rounds, reference : Refs, deposit : Orders]]
    /\ mailbox \in [Agents -> Seq(BuyerMail \cup SellerMail)]
    /\ mailbox[Buyer] \in Seq(BuyerMail)
    /\ \A s \in Sellers : mailbox[s] \in Seq(SellerMail)
    /\ work \in [Refs -> SUBSET (Sellers \X BOOLEAN)]
    /\ deposited \subseteq Refs

Opens(r) == order[r] = NoOrder /\ order'[r] # NoOrder
Pays(r) ==
    /\ order[r] # NoOrder
    /\ order'[r] = NoOrder
    /\ purse'[order[r].seller] > purse[order[r].seller]

(* The buyer only ever deposits for the seller it awarded in this round, at*)
(* the price that seller bid in this round (round.e2e.test.ts:99-100),     *)
(* whatever answers to earlier rounds still arrive.                        *)
OpensItsAward ==
    [][\A r \in Refs : Opens(r) =>
          /\ r[1] = round
          /\ order'[r].seller = Wallet[winner]
          /\ order'[r].amount = bids[winner]]_marketVars

(* An order is paid out only for work: the seller it pays has delivered    *)
(* against this very deposit, and what it delivered passed the checks      *)
(* (buyer index.ts:243-258).                                               *)
PaysForWork ==
    [][\A r \in Refs : Pays(r) =>
          \E s \in Sellers : Wallet[s] = order[r].seller /\ <<s, TRUE>> \in work[r]]_marketVars

(* A seller delivers only for a deposit it found open, naming it and       *)
(* covering the price it quoted; alone, and once; and although nothing is  *)
(* locked while the service runs, that deposit is still there when it      *)
(* delivers, unless the deadline has passed (seller index.ts:88-112,       *)
(* single-use reference).                                                  *)
WorksForDeposit ==
    [][\A r \in Refs, s \in Sellers, good \in BOOLEAN :
          <<s, good>> \in work'[r] \ work[r] =>
             /\ work[r] = {}
             /\ \A q \in Sellers \ {s} : \A d \in serving[q] : d.reference # r
             /\ \E d \in serving[s] :
                   /\ d.reference = r
                   /\ d.deposit # NoOrder /\ d.deposit.seller = Wallet[s] /\ r[3] <= d.deposit.amount
                   /\ order[r] = d.deposit \/ clock >= d.deposit.deadline]_marketVars

(* No order is for more than the budget the buyer announced                *)
(* (round.e2e.test.ts:80, "budget respected").                             *)
WithinBudget == \A r \in Refs : order[r] # NoOrder => order[r].amount <= Budget

(* The reference of an order is unique to it: no two deposits share one    *)
(* (docs/superteam-agentic-engineering-grant-application.md:63).           *)
UniqueReference == [][\A r \in Refs : Opens(r) => r \notin deposited]_marketVars

(* Whatever the sellers do, and whatever is lost, a round ends.            *)
RoundsEnd == stage \in Underway ~> stage \notin Underway
=============================================================================
