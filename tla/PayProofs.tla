----------------------------- MODULE PayProofs -----------------------------
(***************************************************************************)
(* Proofs about the deployments that pay by reference or settle: the buyer *)
(* and seller of the quickstart, the broker, the bridge and the odds proxy,*)
(* for any wallets, prices, quotes, budgets, orders and numbers of calls.  *)
(***************************************************************************)
EXTENDS MCPay, WellFoundedInduction, FiniteSetTheorems, TLAPS

(* The transfers on the chain.                                             *)
Marks(n) == (0..n) \cup {None}
Wallets == Payers \cup {RECIPIENT, Elsewhere} \cup {SELLERS[i] : i \in 1..Len(SELLERS)}
Transfers == [from : Payers, to : Wallets, amount : Nat, ref : Marks(MaxRefs)]

ChainOK ==
    /\ chain \in Seq(Transfers)
    /\ \A i \in 1..Len(chain) : chain[i].ref \in Marks(refs)
    /\ debited \in [Payers -> Nat]
    /\ refs \in 0..MaxRefs
    /\ faults \in Nat

PaidUnder(to, amount, ref) == \E i \in 1..Len(chain) : Paid(chain[i], to, amount, ref)

(* The purchase loop.                                                      *)
Requests == {Fetch} \cup [tool : {"pay_and_retry"}, recipient : {RECIPIENT, Elsewhere},
                          amount : Amounts, ref : Marks(MaxRefs)]

Buyers == [pc : {"turn", "tool", "retry", "wait", "answered", "threw"},
           strategy : Strategies, turn : Nat, calls : Seq(Requests),
           ref : Marks(MaxRefs), told : SUBSET Nat,
           allowedRecipients : SUBSET {RECIPIENT},
           allowedReferences : SUBSET Nat, spentLamports : Nat]

IsBuyer(b, n) ==
    /\ b \in Buyers
    /\ b.told \subseteq 1..n /\ b.allowedReferences \subseteq 1..n
    /\ b.pc = "tool" => b.calls # <<>>
    /\ \A i \in 1..Len(b.calls) : b.calls[i] = Fetch \/ b.calls[i].ref \in Marks(n)

BuyerOK == IsBuyer(buyer, refs)

(* What the wallet has sent is what the guard has counted, but for a       *)
(* payment that threw after it landed, which ends the purchase.            *)
SpendingOK ==
    /\ buyer.pc # "threw" => debited[Buyer] = buyer.spentLamports
    /\ buyer.strategy = "guarded" => debited[Buyer] <= Budget

ServerOK ==
    /\ pending \subseteq 1..refs
    /\ verifying \subseteq [ref : 1..refs, copy : BOOLEAN]
    /\ served \in [References -> Nat]
    /\ resends \in Nat
    /\ \A r \in References : served[r] > 0 => r <= refs /\ PaidUnder(RECIPIENT, PRICE, r)

(* Without a proof sent twice, data are delivered once: a reference that   *)
(* was served is neither pending nor under verification.                   *)
OnceOK ==
    resends = 0 =>
       /\ \A e \in verifying : ~e.copy
       /\ \A r \in References :
             /\ served[r] <= 1
             /\ served[r] > 0 => r \notin pending /\ \A e \in verifying : e.ref # r

(* The exchange the buyer waits for is the one that is no copy; a payment  *)
(* is served, or the buyer still retries with it.                          *)
WaitingOK ==
    /\ \A e \in verifying : ~e.copy => buyer.pc = "wait" /\ e.ref = buyer.ref
    /\ buyer.pc = "wait" => [ref |-> buyer.ref, copy |-> FALSE] \in verifying
    /\ buyer.strategy = "quickstart" /\ faults = 0 =>
          \A r \in 1..refs :
             /\ served[r] = 0 => r \in pending
             /\ VerifyPayment(RECIPIENT, PRICE, r) =>
                   served[r] > 0 \/ (buyer.pc \in {"retry", "wait"} /\ buyer.ref = r)

PurchaseInv == BuyerOK /\ SpendingOK /\ ServerOK /\ OnceOK /\ WaitingOK

PurchaseRests ==
    /\ buyer.strategy = "guarded" /\ debited[Buyer] = 0
    /\ served = [r \in References |-> 0]
(* The broker: what it says, hears and keeps in its locals.                *)
Names == Customers \cup {SELLERS[i] : i \in 1..Len(SELLERS)}
Threads == [with : Names, cycle : Nat]
Charges == [ref : 1..MaxRefs, amount : Nat]
Quoted == [kind : {"quote"}, thread : Threads, body : [ref : 1..MaxRefs, amount : Quotes]]
Deliveries == [kind : {"DELIVERED"}, thread : Threads, body : Threads]
Mentions == Quoted \cup Deliveries \cup [kind : {"request"}, thread : Threads]
            \cup [kind : {"paid"}, thread : Threads, body : [sig : Nat]]
Kinds == {"request", "paid", "PAYMENT_REQUIRED"} \cup Answers
Sayings == [kind : Kinds, thread : Threads, cycle : Nat,
            body : {None} \cup Charges \cup [sig : Nat] \cup Threads]

Shopping == {"shop", "quote"}
Holding == {"tell", "bought", "charge", "sell", "deliver"}
Brokers == [pc : {"idle", "backoff", "failed", "unpaid"} \cup Shopping \cup Holding,
            cycle : Nat, ask : Threads \cup {None}, asked : 0..Len(SELLERS),
            quotes : SUBSET Quoted, best : Quoted \cup {None},
            data : Threads \cup {None}, charge : Charges \cup {None}]

BrokerOK ==
    /\ broker \in Brokers
    /\ broker.pc \notin {"idle", "backoff"} =>
          broker.cycle > 0 /\ broker.ask \in Threads /\ broker.ask.cycle = 0
    /\ broker.pc \in {"idle", "backoff"} => broker.quotes = {}
    /\ \A q \in broker.quotes : q \in heard /\ q.thread.cycle = broker.cycle

MailOK ==
    /\ inbox \in Seq(Mentions)
    /\ \A i \in 1..Len(inbox) :
          /\ inbox[i].kind \in {"quote", "DELIVERED"} => inbox[i] \in heard
          /\ inbox[i].kind = "request" => inbox[i].thread.cycle = 0

SaidOK ==
    /\ said \subseteq Sayings
    /\ \A m \in said :
          /\ m.cycle > 0 /\ m.cycle <= broker.cycle
          /\ m.kind = "request" => m.thread.cycle = m.cycle
          /\ m.kind = "PAYMENT_REQUIRED" => m.body \in Charges /\ m.body.ref <= refs

(* References tell quotes apart.                                           *)
HeardOK ==
    /\ heard \subseteq Quoted \cup Deliveries
    /\ \A d \in heard : d.kind = "DELIVERED" => d.body = d.thread
    /\ \A q \in heard : q.kind = "quote" =>
          /\ q.thread.cycle > 0 /\ q.thread.cycle <= broker.cycle
          /\ q.body.ref <= refs
          /\ \A p \in heard : p.kind = "quote" /\ p.body.ref = q.body.ref => p = q

(* A purchase is for a quote of its cycle, which has no other; while the   *)
(* broker shops it has bought nothing.                                     *)
Buys(i) == i \in 1..Len(chain) /\ chain[i].from = Me
PaysQuote(i, q) == Buys(i) /\ q.kind = "quote" /\ q.body.ref = chain[i].ref

BoughtOK ==
    /\ \A i \in 1..Len(chain) : Buys(i) => chain[i].amount <= MAX_SOL
    /\ \A i, j \in 1..Len(chain) : \A p, q \in heard :
          PaysQuote(i, p) /\ PaysQuote(j, q) /\ p.thread.cycle = q.thread.cycle => i = j
    /\ broker.pc \in Shopping =>
          \A i \in 1..Len(chain) : \A q \in heard :
             PaysQuote(i, q) => q.thread.cycle # broker.cycle

BoughtFrom(q) ==
    \E i \in 1..Len(chain) :
       Buys(i) /\ Paid(chain[i], q.thread.with, q.body.amount, q.body.ref)

Charged == [kind |-> "PAYMENT_REQUIRED", thread |-> broker.ask, cycle |-> broker.cycle,
            body |-> broker.charge]

DealOK ==
    /\ broker.pc \in Holding =>
          broker.best \in Quoted /\ broker.best \in heard /\ BoughtFrom(broker.best)
          /\ broker.best.thread.cycle = broker.cycle
    /\ broker.pc \in {"charge", "sell", "deliver"} => broker.data = broker.best.thread
    /\ broker.pc \in {"sell", "deliver"} =>
          /\ broker.charge \in Charges /\ broker.charge.amount = Resell(broker.best.body.amount)
          /\ Charged \in said
    /\ broker.pc = "deliver" => PaidUnder(Me, broker.charge.amount, broker.charge.ref)

AnswersTo(n) == {m \in said : m.cycle = n /\ m.kind \in Answers}

AnsweredOK ==
    faults = 0 =>
       /\ broker.pc # "backoff"
       /\ \A n \in 1..broker.cycle :
             IF n = broker.cycle /\ broker.pc # "idle" THEN AnswersTo(n) = {}
             ELSE \E m \in said : AnswersTo(n) = {m}

BrokerInv ==
    /\ BrokerOK /\ MailOK /\ SaidOK /\ HeardOK
    /\ BoughtOK /\ DealOK /\ SellsWhatItBought /\ AnsweredOK

BrokerRests ==
    /\ said = {} /\ heard = {} /\ broker.cycle = 0
    /\ \A i \in 1..Len(chain) : chain[i].from # Me
-----------------------------------------------------------------------------
(* Numbers, sequences and the chain.                                       *)

LEMMA Least ==
    ASSUME NEW S \in SUBSET Nat, S # {}
    PROVE  \E x \in S : \A y \in S : x <= y
<1> DEFINE R == {s \in Nat \X Nat : s[1] < s[2]}
<1>1. IsWellFoundedOn(R, Nat)
  BY NatLessThanWellFounded DEF OpToRel
<1>2. PICK x \in S : \A y \in S : ~ (<<y, x>> \in R)
  <2> HIDE DEF R
  <2> QED
    BY <1>1, WFMin
<1>3. ASSUME NEW y \in S
      PROVE  x <= y
  <2>1. x \in Nat /\ y \in Nat /\ ~ (<<y, x>> \in R)
    BY <1>2
  <2> QED
    BY <2>1
<1> QED
  BY <1>3

LEMMA Appended ==
    ASSUME NEW S, NEW q \in Seq(S), NEW e \in S
    PROVE  /\ Append(q, e) \in Seq(S)
           /\ Len(Append(q, e)) = Len(q) + 1 /\ Len(q) \in Nat
           /\ \A i \in 1..Len(q) : Append(q, e)[i] = q[i]
           /\ Append(q, e)[Len(q) + 1] = e
  OBVIOUS

Oldest(q, r) ==
    CHOOSE i \in DOMAIN q : q[i].ref = r /\ \A j \in 1..(i - 1) : q[j].ref # r

IsOldest(q, r, i) ==
    i \in 1..Len(q) /\ q[i].ref = r /\ \A j \in 1..(i - 1) : q[j].ref # r

LEMMA OldestFound ==
    ASSUME NEW S, NEW q \in Seq(S), NEW r, NEW i \in 1..Len(q), q[i].ref = r
    PROVE  /\ IsOldest(q, r, Oldest(q, r))
           /\ \A k : IsOldest(q, r, k) => k = Oldest(q, r)
<1> DEFINE T == {k \in 1..Len(q) : q[k].ref = r}
<1>1. DOMAIN q = 1..Len(q) /\ Len(q) \in Nat /\ T \in SUBSET Nat /\ i \in T
  OBVIOUS
<1>2. PICK k \in T : \A j \in T : k <= j
  BY <1>1, Least
<1>3. IsOldest(q, r, k)
  BY <1>1, <1>2 DEF IsOldest
<1>4. IsOldest(q, r, Oldest(q, r))
  BY <1>1, <1>3 DEF Oldest, IsOldest
<1>5. \A m, n : IsOldest(q, r, m) /\ IsOldest(q, r, n) => m = n
  BY <1>1 DEF IsOldest
<1> QED
  BY <1>4, <1>5

(* A transfer under another reference does not change which is the oldest. *)
LEMMA OldestStays ==
    ASSUME NEW S, NEW q \in Seq(S), NEW t \in S, NEW r, t.ref # r,
           NEW i \in 1..Len(Append(q, t)), Append(q, t)[i].ref = r
    PROVE  Oldest(Append(q, t), r) = Oldest(q, r) /\ Oldest(q, r) \in 1..Len(q)
<1>1. /\ Append(q, t) \in Seq(S) /\ Len(Append(q, t)) = Len(q) + 1 /\ Len(q) \in Nat
      /\ \A k \in 1..Len(q) : Append(q, t)[k] = q[k]
      /\ Append(q, t)[Len(q) + 1] = t
  BY Appended
<1>2. i \in 1..Len(q) /\ q[i].ref = r
  BY <1>1
<1>3. IsOldest(q, r, Oldest(q, r))
  BY <1>2, OldestFound
<1>4. IsOldest(Append(q, t), r, Oldest(q, r))
  BY <1>1, <1>3 DEF IsOldest
<1>5. Oldest(q, r) = Oldest(Append(q, t), r)
  BY <1>1, <1>4, OldestFound
<1> QED
  BY <1>3, <1>5 DEF IsOldest

LEMMA VerifiedIs ==
    ASSUME NEW to, NEW amount, NEW r, chain \in Seq(Transfers)
    PROVE  VerifyPayment(to, amount, r) <=>
              /\ \E i \in 1..Len(chain) : chain[i].ref = r
              /\ Oldest(chain, r) \in 1..Len(chain) /\ Paid(chain[Oldest(chain, r)], to, amount, r)
<1>1. DOMAIN chain = 1..Len(chain)
  OBVIOUS
<1>2. OldestWith(r) = Oldest(chain, r)
  BY DEF OldestWith, Oldest
<1> QED
  BY <1>1, <1>2 DEF VerifyPayment, ValidTransfer

LEMMA VerifiedBefore ==
    ASSUME NEW to, NEW amount, NEW r, NEW t \in Transfers, chain \in Seq(Transfers),
           chain' = Append(chain, t), t.ref # r, VerifyPayment(to, amount, r)'
    PROVE  VerifyPayment(to, amount, r)
<1>1. /\ chain' \in Seq(Transfers) /\ Len(chain') = Len(chain) + 1 /\ Len(chain) \in Nat
      /\ \A k \in 1..Len(chain) : chain'[k] = chain[k]
      /\ chain'[Len(chain) + 1] = t
  BY Appended
<1>2. /\ \E i \in 1..Len(chain') : chain'[i].ref = r
      /\ Oldest(chain', r) \in 1..Len(chain') /\ Paid(chain'[Oldest(chain', r)], to, amount, r)
  <2>1. DOMAIN chain' = 1..Len(chain')
    BY <1>1
  <2>2. OldestWith(r)' = Oldest(chain', r)
    BY DEF OldestWith, Oldest
  <2> QED
    BY <2>1, <2>2 DEF VerifyPayment, ValidTransfer
<1>3. Oldest(chain', r) = Oldest(chain, r) /\ Oldest(chain, r) \in 1..Len(chain)
  BY <1>2, OldestStays
<1>4. \E i \in 1..Len(chain) : chain[i].ref = r
  BY <1>1, <1>2
<1> QED
  BY <1>1, <1>2, <1>3, <1>4, VerifiedIs

-----------------------------------------------------------------------------
(* The purchase loop.                                                      *)

LEMMA NextCallIs ==
    ASSUME NEW n \in Nat, NEW m \in Nat, n <= m, NEW b, IsBuyer(b, n)
    PROVE  /\ IsBuyer(NextCall(b), m)
           /\ NextCall(b).pc \in {"tool", "turn"}
           /\ NextCall(b).strategy = b.strategy /\ NextCall(b).spentLamports = b.spentLamports
<1>1. /\ b.calls \in Seq(Requests) /\ Len(b.calls) \in Nat /\ <<>> \in Seq(Requests)
      /\ Marks(n) \subseteq Marks(m) /\ 1..n \subseteq 1..m
  BY DEF IsBuyer, Buyers, Marks
<1>2. CASE Len(b.calls) > 1
  <2>1. NextCall(b) = [b EXCEPT !.pc = "tool", !.calls = Tail(b.calls)]
    BY <1>2 DEF NextCall
  <2>2. /\ Tail(b.calls) \in Seq(Requests) /\ Len(Tail(b.calls)) = Len(b.calls) - 1
        /\ \A i \in 1..Len(Tail(b.calls)) : Tail(b.calls)[i] = b.calls[i + 1]
    BY <1>1, <1>2
  <2>3. b \in Buyers
    BY DEF IsBuyer
  <2>4. NextCall(b) \in Buyers
    BY <2>1, <2>2, <2>3 DEF Buyers
  <2>5. /\ NextCall(b).calls = Tail(b.calls) /\ NextCall(b).pc = "tool"
        /\ NextCall(b).told = b.told /\ NextCall(b).allowedReferences = b.allowedReferences
        /\ NextCall(b).strategy = b.strategy /\ NextCall(b).spentLamports = b.spentLamports
    BY <2>1, <2>3 DEF Buyers
  <2>6. Tail(b.calls) # <<>>
    BY <1>1, <1>2, <2>2
  <2>7. \A i \in 1..Len(Tail(b.calls)) :
           Tail(b.calls)[i] = Fetch \/ Tail(b.calls)[i].ref \in Marks(m)
    BY <1>1, <1>2, <2>2 DEF IsBuyer
  <2>8. b.told \subseteq 1..m /\ b.allowedReferences \subseteq 1..m
    BY <1>1 DEF IsBuyer
  <2> QED
    BY <2>4, <2>5, <2>6, <2>7, <2>8 DEF IsBuyer
<1>3. CASE ~(Len(b.calls) > 1)
  <2>1. NextCall(b) = [b EXCEPT !.pc = "turn", !.calls = <<>>, !.turn = b.turn + 1,
                               !.told = b.allowedReferences]
    BY <1>3 DEF NextCall
  <2>2. b \in Buyers
    BY DEF IsBuyer
  <2>3. NextCall(b) \in Buyers
    <3>1. b.turn + 1 \in Nat /\ b.allowedReferences \in SUBSET Nat
      BY <2>2 DEF Buyers
    <3> QED
      BY <1>1, <2>1, <2>2, <3>1 DEF Buyers
  <2>4. /\ NextCall(b).calls = <<>> /\ NextCall(b).pc = "turn"
        /\ NextCall(b).told = b.allowedReferences /\ NextCall(b).allowedReferences = b.allowedReferences
        /\ NextCall(b).strategy = b.strategy /\ NextCall(b).spentLamports = b.spentLamports
    BY <2>1, <2>2 DEF Buyers
  <2>5. b.allowedReferences \subseteq 1..m /\ Len(<<>>) = 0
    BY <1>1 DEF IsBuyer
  <2> QED
    BY <2>3, <2>4, <2>5 DEF IsBuyer
<1> QED
  BY <1>2, <1>3

LEMMA ThrowIs ==
    ASSUME NEW n \in Nat, NEW m \in Nat, n <= m, NEW b, IsBuyer(b, n)
    PROVE  /\ IsBuyer(Throw(b), m)
           /\ Throw(b).pc = "threw" /\ Throw(b).strategy = b.strategy
           /\ Throw(b).spentLamports = b.spentLamports
<1>1. b \in Buyers /\ <<>> \in Seq(Requests) /\ Len(<<>>) = 0
  BY DEF IsBuyer
<1>2. Throw(b) \in Buyers
  BY <1>1 DEF Buyers, Throw
<1>3. /\ Throw(b).pc = "threw" /\ Throw(b).strategy = b.strategy /\ Throw(b).calls = <<>>
      /\ Throw(b).spentLamports = b.spentLamports
      /\ Throw(b).told = b.told /\ Throw(b).allowedReferences = b.allowedReferences
  BY <1>1 DEF Buyers, Throw
<1>4. b.told \subseteq 1..m /\ b.allowedReferences \subseteq 1..m
  BY DEF IsBuyer
<1> QED
  BY <1>1, <1>2, <1>3, <1>4 DEF IsBuyer

(* What a step may do to the chain: nothing, or land a transfer of one of  *)
(* the wallets in S.                                                       *)
ChainStep(S) ==
    \/ UNCHANGED <<chain, debited>>
    \/ \E t \in Transfers : t.from \in S /\ t.ref \in Marks(refs) /\ Land(t)

LEMMA Counts ==
    ASSUME ChainOK
    PROVE  /\ refs \in Nat /\ refs \in 0..MaxRefs /\ MaxRefs \in Nat /\ refs <= MaxRefs
           /\ faults \in Nat
  BY PaymentsAssumption DEF ChainOK

LEMMA ChainKept ==
    ASSUME ChainOK, NEW S, ChainStep(S), refs' \in refs..MaxRefs, faults' \in Nat
    PROVE  /\ ChainOK'
           /\ \A to, amount, r : PaidUnder(to, amount, r) => PaidUnder(to, amount, r)'
           /\ \A p \in Payers : p \notin S => debited'[p] = debited[p]
           /\ \A i \in 1..Len(chain') :
                 (i \in 1..Len(chain) /\ chain'[i] = chain[i]) \/ chain'[i].from \in S
<1>1. /\ chain \in Seq(Transfers) /\ debited \in [Payers -> Nat] /\ refs \in Nat /\ MaxRefs \in Nat
      /\ \A i \in 1..Len(chain) : chain[i].ref \in Marks(refs)
  BY PaymentsAssumption DEF ChainOK
<1>2. Marks(refs) \subseteq Marks(refs') /\ refs' \in 0..MaxRefs
  BY <1>1 DEF Marks
<1>3. CASE UNCHANGED <<chain, debited>>
  BY <1>1, <1>2, <1>3 DEF ChainOK, PaidUnder
<1>4. ASSUME NEW t \in Transfers, t.from \in S, t.ref \in Marks(refs), Land(t)
      PROVE  ChainOK' /\ (\A to, amount, r : PaidUnder(to, amount, r) => PaidUnder(to, amount, r)')
             /\ (\A p \in Payers : p \notin S => debited'[p] = debited[p])
             /\ (\A i \in 1..Len(chain') :
                   (i \in 1..Len(chain) /\ chain'[i] = chain[i]) \/ chain'[i].from \in S)
  <2>1. /\ chain' = Append(chain, t)
        /\ debited' = [debited EXCEPT ![t.from] = @ + t.amount]
    BY <1>4 DEF Land
  <2>2. t.from \in Payers /\ t.amount \in Nat
    BY DEF Transfers
  <2>3. debited' \in [Payers -> Nat] /\ \A p \in Payers : p \notin S => debited'[p] = debited[p]
    BY <1>1, <1>4, <2>1, <2>2
  <2>4. /\ chain' \in Seq(Transfers) /\ Len(chain') = Len(chain) + 1 /\ Len(chain) \in Nat
        /\ \A i \in 1..Len(chain) : chain'[i] = chain[i]
        /\ chain'[Len(chain) + 1] = t
    BY <1>1, <2>1, Appended
  <2>5. \A i \in 1..Len(chain') : i \in 1..Len(chain) \/ i = Len(chain) + 1
    BY <2>4
  <2>6. \A i \in 1..Len(chain') : chain'[i].ref \in Marks(refs')
    BY <1>1, <1>2, <1>4, <2>4, <2>5
  <2>7. \A to, amount, r : PaidUnder(to, amount, r) => PaidUnder(to, amount, r)'
    BY <2>4 DEF PaidUnder, Paid
  <2> QED
    BY <1>2, <1>4, <2>3, <2>4, <2>5, <2>6, <2>7 DEF ChainOK
<1> QED
  BY <1>3, <1>4 DEF ChainStep

(* A step of the buyer alone, away from a retry; it may ask for a new      *)
(* reference, which is then pending.                                       *)
LEMMA BuyerMoves ==
    ASSUME ChainOK, PurchaseInv, UNCHANGED <<chain, debited, verifying, served, resends>>,
           refs' \in {refs, refs + 1}, pending' = pending \cup ((refs + 1)..refs'),
           faults' \in {faults, faults + 1},
           buyer.pc \in {"turn", "tool"}, IsBuyer(buyer', refs'),
           buyer'.pc \in {"turn", "tool", "answered", "threw"},
           buyer'.strategy = buyer.strategy,
           buyer'.spentLamports = buyer.spentLamports
    PROVE  PurchaseInv'
<1>1. /\ refs \in Nat /\ refs' \in Nat /\ faults \in Nat
      /\ \A i \in 1..Len(chain) : chain[i].ref \in Marks(refs)
      /\ chain \in Seq(Transfers)
  BY DEF ChainOK
<1>2. BuyerOK'
  BY DEF BuyerOK
<1>3. SpendingOK'
  BY DEF PurchaseInv, SpendingOK
<1>4. ServerOK'
  <2>1. 1..refs \subseteq 1..refs' /\ pending' \subseteq pending \cup 1..refs'
    BY <1>1
  <2>2. verifying \subseteq [ref : 1..refs', copy : BOOLEAN]
    BY <2>1 DEF PurchaseInv, ServerOK
  <2>3. \A r \in References : served[r] > 0 => r <= refs' /\ PaidUnder(RECIPIENT, PRICE, r)
    BY <1>1 DEF PurchaseInv, ServerOK, References
  <2> QED
    BY <2>1, <2>2, <2>3 DEF PurchaseInv, ServerOK, PaidUnder
<1>5. OnceOK'
  <2>1. SUFFICES ASSUME resends = 0
                 PROVE  /\ \A e \in verifying : ~e.copy
                        /\ \A r \in References :
                              /\ served[r] <= 1
                              /\ served[r] > 0 => r \notin pending' /\ \A e \in verifying : e.ref # r
    BY DEF OnceOK
  <2>2. \A r \in References : served[r] > 0 => r <= refs
    BY DEF PurchaseInv, ServerOK
  <2> QED
    BY <1>1, <2>1, <2>2 DEF PurchaseInv, OnceOK, References
<1>6. WaitingOK'
  <2>1. \A r : VerifyPayment(RECIPIENT, PRICE, r)' <=> VerifyPayment(RECIPIENT, PRICE, r)
    BY DEF VerifyPayment, ValidTransfer, OldestWith
  <2>2. \A r \in 1..refs' : r \in 1..refs \/ (r = refs' /\ r \in pending')
    BY <1>1
  <2>3. \A r \in 1..refs' : r \notin 1..refs => ~VerifyPayment(RECIPIENT, PRICE, r)
    BY <1>1, <2>2, VerifiedIs, PaymentsAssumption DEF Marks
  <2>4. faults' = 0 => faults = 0
    BY <1>1
  <2> QED
    BY <1>1, <2>1, <2>2, <2>3, <2>4 DEF PurchaseInv, WaitingOK
<1> QED
  BY <1>2, <1>3, <1>4, <1>5, <1>6 DEF PurchaseInv

LEMMA RespondKeeps ==
    ASSUME ChainOK, PurchaseInv, Respond
    PROVE  PurchaseInv'
<1>0. refs \in Nat /\ refs \in 0..MaxRefs /\ MaxRefs \in Nat
  BY Counts
<1>1. IsBuyer(buyer, refs) /\ buyer \in Buyers
  BY DEF PurchaseInv, BuyerOK, IsBuyer
<1>2. /\ UNCHANGED <<chain, debited, verifying, served, resends, refs, faults>>
      /\ pending' = pending \cup ((refs + 1)..refs')
      /\ buyer.pc = "turn"
  <2>1. UNCHANGED <<payVars, pending, verifying, served, resends>> /\ buyer.pc = "turn"
    BY DEF Respond
  <2> QED
    BY <1>0, <2>1 DEF payVars
<1>3. CASE buyer' = [buyer EXCEPT !.pc = "answered"]
  <2>1. buyer' \in Buyers
    BY <1>1, <1>3 DEF Buyers
  <2>2. /\ buyer'.pc = "answered" /\ buyer'.calls = buyer.calls /\ buyer'.told = buyer.told
        /\ buyer'.allowedReferences = buyer.allowedReferences
        /\ buyer'.strategy = buyer.strategy /\ buyer'.spentLamports = buyer.spentLamports
    BY <1>1, <1>3 DEF Buyers
  <2>3. IsBuyer(buyer', refs)
    BY <1>1, <2>1, <2>2 DEF IsBuyer
  <2> QED
    BY <1>0, <1>2, <2>2, <2>3, BuyerMoves
<1>4. ASSUME NEW calls \in Calls, buyer' = [buyer EXCEPT !.pc = "tool", !.calls = calls]
      PROVE  PurchaseInv'
  <2>1. PICK n \in 1..MaxTools : calls \in [1..n -> {Fetch} \cup Payment]
    BY DEF Calls
  <2>2. n \in Nat \ {0} /\ DOMAIN calls = 1..n /\ \A i \in 1..n : calls[i] \in {Fetch} \cup Payment
    BY <2>1, PurchaseAssumption
  <2>3. \A p \in Payment : p \in Requests /\ p.ref \in Marks(refs)
    <3>1. buyer.told \subseteq 1..refs
      BY <1>1 DEF IsBuyer
    <3>2. buyer.told \cup {None, 0} \subseteq Marks(refs) /\ Marks(refs) \subseteq Marks(MaxRefs)
      BY <1>0, <3>1 DEF Marks
    <3> QED
      BY <3>2 DEF Payment, Requests
  <2>4. calls \in [1..n -> Requests]
    BY <2>1, <2>3 DEF Requests
  <2>5. calls \in Seq(Requests) /\ Len(calls) = n
    BY <2>2, <2>4
  <2>6. calls # <<>> /\ \A i \in 1..Len(calls) : calls[i] = Fetch \/ calls[i].ref \in Marks(refs)
    BY <2>2, <2>3, <2>5
  <2>7. buyer' \in Buyers
    BY <1>1, <1>4, <2>5 DEF Buyers
  <2>8. /\ buyer'.pc = "tool" /\ buyer'.calls = calls /\ buyer'.told = buyer.told
        /\ buyer'.allowedReferences = buyer.allowedReferences
        /\ buyer'.strategy = buyer.strategy /\ buyer'.spentLamports = buyer.spentLamports
    BY <1>1, <1>4 DEF Buyers
  <2>9. IsBuyer(buyer', refs)
    BY <1>1, <2>6, <2>7, <2>8 DEF IsBuyer
  <2> QED
    BY <1>0, <1>2, <2>8, <2>9, BuyerMoves
<1> QED
  BY <1>3, <1>4 DEF Respond

LEMMA ExhaustedKeeps ==
    ASSUME ChainOK, PurchaseInv, Exhausted
    PROVE  PurchaseInv'
<1>1. refs \in Nat /\ IsBuyer(buyer, refs) /\ buyer \in Buyers /\ buyer.pc = "turn"
  BY DEF ChainOK, PurchaseInv, BuyerOK, Exhausted, IsBuyer
<1>2. buyer' \in Buyers
  BY <1>1 DEF Buyers, Exhausted
<1>3. /\ buyer'.pc = "threw" /\ buyer'.calls = buyer.calls /\ buyer'.told = buyer.told
      /\ buyer'.allowedReferences = buyer.allowedReferences
      /\ buyer'.strategy = buyer.strategy /\ buyer'.spentLamports = buyer.spentLamports
  BY <1>1 DEF Buyers, Exhausted
<1>4. IsBuyer(buyer', refs)
  BY <1>1, <1>2, <1>3 DEF IsBuyer
<1>5. /\ UNCHANGED <<chain, debited, verifying, served, resends, refs, faults>>
      /\ pending' = pending \cup ((refs + 1)..refs')
  BY <1>1 DEF Exhausted, payVars
<1> QED
  BY <1>1, <1>3, <1>4, <1>5, BuyerMoves

LEMMA RefusedKeeps ==
    ASSUME ChainOK, PurchaseInv, Refused
    PROVE  PurchaseInv'
<1>1. refs \in Nat /\ IsBuyer(buyer, refs) /\ buyer.pc = "tool" /\ refs <= refs
  BY DEF ChainOK, PurchaseInv, BuyerOK, Refused, Calling
<1>2. /\ IsBuyer(buyer', refs) /\ buyer'.pc \in {"tool", "turn"}
      /\ buyer'.strategy = buyer.strategy /\ buyer'.spentLamports = buyer.spentLamports
  BY <1>1, NextCallIs DEF Refused
<1>3. /\ UNCHANGED <<chain, debited, verifying, served, resends, refs, faults>>
      /\ pending' = pending \cup ((refs + 1)..refs')
  BY <1>1 DEF Refused, payVars
<1> QED
  BY <1>1, <1>2, <1>3, BuyerMoves

LEMMA FetchDataKeeps ==
    ASSUME ChainOK, PurchaseInv, FetchData
    PROVE  PurchaseInv' /\ refs' \in refs..MaxRefs /\ faults' \in Nat
<1>0. buyer.pc = "tool"
  BY DEF FetchData, Calling
<1>1. /\ refs \in Nat /\ refs \in 0..MaxRefs /\ MaxRefs \in Nat /\ refs <= MaxRefs /\ faults \in Nat
      /\ buyer.pc = "tool"
  BY <1>0, Counts
<1>2. IsBuyer(buyer, refs) /\ buyer \in Buyers
  BY DEF PurchaseInv, BuyerOK, IsBuyer
<1>3. UNCHANGED <<chain, debited, verifying, served, resends>>
  BY DEF FetchData
<1>4. ASSUME NEW ref \in References, NewRef(ref), pending' = pending \cup {ref},
             NEW b, b = [buyer EXCEPT !.allowedRecipients = @ \cup {RECIPIENT},
                                      !.allowedReferences = @ \cup {ref}],
             \/ buyer' = NextCall(b) /\ UNCHANGED faults
             \/ Fault /\ buyer' = Throw(buyer)
      PROVE  PurchaseInv' /\ refs' \in refs..MaxRefs /\ faults' \in Nat
  <2>1. ref = refs + 1 /\ refs' = ref /\ refs' \in Nat /\ refs <= refs' /\ refs' <= MaxRefs
    BY <1>1, <1>4 DEF NewRef
  <2>2. pending' = pending \cup ((refs + 1)..refs')
    BY <1>1, <1>4, <2>1
  <2>3. IsBuyer(b, refs') /\ b.strategy = buyer.strategy /\ b.spentLamports = buyer.spentLamports
    <3>1. b \in Buyers
      BY <1>2, <1>4, <2>1 DEF Buyers
    <3>2. /\ b.pc = buyer.pc /\ b.calls = buyer.calls /\ b.told = buyer.told
          /\ b.allowedReferences = buyer.allowedReferences \cup {ref}
          /\ b.strategy = buyer.strategy /\ b.spentLamports = buyer.spentLamports
      BY <1>2, <1>4 DEF Buyers
    <3>3. Marks(refs) \subseteq Marks(refs') /\ (1..refs) \cup {ref} \subseteq 1..refs'
      BY <1>1, <2>1 DEF Marks
    <3> QED
      BY <1>2, <3>1, <3>2, <3>3 DEF IsBuyer
  <2>4. CASE buyer' = NextCall(b) /\ UNCHANGED faults
    <3>1. /\ IsBuyer(buyer', refs') /\ buyer'.pc \in {"tool", "turn"}
          /\ buyer'.strategy = buyer.strategy /\ buyer'.spentLamports = buyer.spentLamports
      BY <2>1, <2>3, <2>4, NextCallIs
    <3> QED
      BY <1>1, <1>3, <2>1, <2>2, <2>4, <3>1, BuyerMoves
  <2>5. CASE Fault /\ buyer' = Throw(buyer)
    <3>1. /\ IsBuyer(buyer', refs') /\ buyer'.pc = "threw"
          /\ buyer'.strategy = buyer.strategy /\ buyer'.spentLamports = buyer.spentLamports
      BY <1>1, <1>2, <2>1, <2>5, ThrowIs
    <3> QED
      BY <1>1, <1>3, <2>1, <2>2, <2>5, <3>1, BuyerMoves DEF Fault
  <2> QED
    BY <1>4, <2>4, <2>5
<1>5. ASSUME Fault, buyer' = Throw(buyer), UNCHANGED <<refs, pending>>
      PROVE  PurchaseInv' /\ refs' \in refs..MaxRefs /\ faults' \in Nat
  <2>1. /\ IsBuyer(buyer', refs') /\ buyer'.pc = "threw"
        /\ buyer'.strategy = buyer.strategy /\ buyer'.spentLamports = buyer.spentLamports
    BY <1>1, <1>2, <1>5, ThrowIs
  <2>2. pending' = pending \cup ((refs + 1)..refs')
    BY <1>1, <1>5
  <2> QED
    BY <1>1, <1>3, <1>5, <2>1, <2>2, BuyerMoves DEF Fault
<1> QED
  BY <1>4, <1>5 DEF FetchData

(* A payment: the guard keeps what lands within the budget, also when the  *)
(* call throws.                                                            *)
LEMMA SignTransferKeeps ==
    ASSUME ChainOK, PurchaseInv, SignTransfer
    PROVE  PurchaseInv' /\ ChainStep({Buyer}) /\ UNCHANGED refs /\ faults' \in Nat
<1> DEFINE t == Transfer(Buyer, Call.recipient, Call.amount, Call.ref)
<1>1. /\ buyer.pc = "tool" /\ Call.tool = "pay_and_retry" /\ Allowed(buyer, Call)
      /\ UNCHANGED <<demo, refs, pending, verifying, served, resends>>
      /\ \/ /\ Land(t) /\ UNCHANGED faults
            /\ buyer' = [buyer EXCEPT !.pc = "retry", !.ref = Call.ref,
                                      !.spentLamports = @ + Call.amount]
         \/ /\ Fault /\ (Land(t) \/ UNCHANGED <<chain, debited>>)
            /\ buyer' = Throw(buyer)
  BY DEF SignTransfer, Calling, Landed, Thrown
<1>2. /\ refs \in Nat /\ refs \in 0..MaxRefs /\ MaxRefs \in Nat /\ refs <= MaxRefs /\ faults \in Nat
      /\ chain \in Seq(Transfers) /\ debited \in [Payers -> Nat]
  BY Counts DEF ChainOK
<1>3. IsBuyer(buyer, refs) /\ buyer \in Buyers
  BY DEF PurchaseInv, BuyerOK, IsBuyer
<1>4. /\ Call \in [tool : {"pay_and_retry"}, recipient : {RECIPIENT, Elsewhere},
                    amount : Amounts, ref : Marks(MaxRefs)]
      /\ Call.ref \in Marks(refs)
  <2>1. buyer.calls \in Seq(Requests) /\ buyer.calls # <<>>
    BY <1>1, <1>3 DEF IsBuyer, Buyers
  <2>2. 1 \in 1..Len(buyer.calls) /\ Call = buyer.calls[1] /\ Call \in Requests
    BY <2>1 DEF Call
  <2>3. Call # Fetch
    BY <1>1 DEF Fetch
  <2> QED
    BY <1>3, <2>2, <2>3 DEF IsBuyer, Requests
<1>5. t \in Transfers /\ t.from = Buyer /\ t.ref = Call.ref /\ t.amount = Call.amount
  BY <1>4, PurchaseAssumption DEF Transfer, Transfers, Wallets
<1>6. Call.amount \in Nat /\ buyer.spentLamports \in Nat /\ Budget \in Nat /\ Buyer \in Payers
      /\ debited[Buyer] \in Nat
  BY <1>2, <1>3, <1>4, PurchaseAssumption DEF Buyers
<1>7. ChainStep({Buyer})
  BY <1>1, <1>4, <1>5 DEF ChainStep
<1>8. faults' \in Nat
  BY <1>1, <1>2 DEF Fault
<1>9. \A to, amount, r : PaidUnder(to, amount, r) => PaidUnder(to, amount, r)'
  BY <1>1, <1>2, <1>7, <1>8, ChainKept
<1>10. ServerOK' /\ OnceOK'
  BY <1>1, <1>9 DEF PurchaseInv, ServerOK, OnceOK
<1>11. debited[Buyer] = buyer.spentLamports
  BY <1>1 DEF PurchaseInv, SpendingOK
<1>12. buyer.strategy = "guarded" => buyer.spentLamports + Call.amount <= Budget
  BY <1>1 DEF Allowed, GuardPayment
<1>13. \A e \in verifying : e.copy
  BY <1>1, <1>3 DEF PurchaseInv, WaitingOK
<1>14. CASE /\ Land(t) /\ UNCHANGED faults
            /\ buyer' = [buyer EXCEPT !.pc = "retry", !.ref = Call.ref,
                                      !.spentLamports = @ + Call.amount]
  <2>0. buyer.spentLamports + Call.amount \in Nat /\ Call.ref \in Marks(MaxRefs)
    BY <1>4, <1>6
  <2>1. buyer' \in Buyers
    BY <1>3, <1>14, <2>0 DEF Buyers
  <2>2. /\ buyer'.pc = "retry" /\ buyer'.calls = buyer.calls /\ buyer'.told = buyer.told
        /\ buyer'.allowedReferences = buyer.allowedReferences /\ buyer'.ref = Call.ref
        /\ buyer'.strategy = buyer.strategy
        /\ buyer'.spentLamports = buyer.spentLamports + Call.amount
    BY <1>3, <1>14 DEF Buyers
  <2>3. BuyerOK'
    BY <1>1, <1>3, <2>1, <2>2 DEF IsBuyer, BuyerOK
  <2>4. debited'[Buyer] = debited[Buyer] + Call.amount
    BY <1>2, <1>5, <1>6, <1>14 DEF Land
  <2>5. SpendingOK'
    BY <1>11, <1>12, <2>2, <2>4 DEF SpendingOK
  <2>6. \A r \in 1..refs : VerifyPayment(RECIPIENT, PRICE, r)' =>
           VerifyPayment(RECIPIENT, PRICE, r) \/ Call.ref = r
    BY <1>2, <1>5, <1>14, VerifiedBefore DEF Land
  <2>7. WaitingOK'
    BY <1>1, <1>13, <1>14, <2>2, <2>6 DEF PurchaseInv, WaitingOK
  <2> QED
    BY <1>1, <1>7, <1>8, <1>10, <2>3, <2>5, <2>7 DEF PurchaseInv
<1>15. CASE /\ Fault /\ (Land(t) \/ UNCHANGED <<chain, debited>>)
            /\ buyer' = Throw(buyer)
  <2>1. IsBuyer(buyer', refs) /\ buyer'.pc = "threw" /\ buyer'.strategy = buyer.strategy
    BY <1>2, <1>3, <1>15, ThrowIs
  <2>2. debited'[Buyer] \in {debited[Buyer], debited[Buyer] + Call.amount}
    BY <1>2, <1>5, <1>6, <1>15 DEF Land
  <2>3. SpendingOK'
    BY <1>6, <1>11, <1>12, <2>1, <2>2 DEF SpendingOK
  <2>4. faults' # 0
    BY <1>2, <1>15 DEF Fault
  <2>5. WaitingOK'
    BY <1>1, <1>13, <2>1, <2>4 DEF WaitingOK
  <2> QED
    BY <1>1, <1>7, <1>8, <1>10, <2>1, <2>3, <2>5 DEF PurchaseInv, BuyerOK
<1> QED
  BY <1>1, <1>7, <1>8, <1>14, <1>15

LEMMA RetryKeeps ==
    ASSUME ChainOK, PurchaseInv, Retry
    PROVE  PurchaseInv' /\ faults' \in Nat
<1> DEFINE p == ProofReference(buyer)
<1>1. /\ buyer.pc = "retry"
      /\ UNCHANGED <<demo, chain, debited, refs, pending, served, resends>>
      /\ \/ /\ p \in pending
            /\ verifying' = verifying \cup {[ref |-> p, copy |-> FALSE]}
            /\ buyer' = [buyer EXCEPT !.pc = "wait"]
            /\ UNCHANGED faults
         \/ p \notin pending /\ buyer' = NextCall(buyer) /\ UNCHANGED <<faults, verifying>>
         \/ Fault /\ buyer' = Throw(buyer) /\ UNCHANGED verifying
  BY DEF Retry
<1>2. /\ refs \in Nat /\ faults \in Nat /\ refs <= refs /\ MaxRefs \in Nat /\ refs <= MaxRefs
  BY Counts
<1>3. IsBuyer(buyer, refs) /\ buyer \in Buyers
  BY DEF PurchaseInv, BuyerOK, IsBuyer
<1>4. faults' \in Nat
  BY <1>1, <1>2 DEF Fault
<1>5. \A e \in verifying : e.copy
  BY <1>1, <1>3 DEF PurchaseInv, WaitingOK
<1>6. /\ \A to, amount, r : PaidUnder(to, amount, r) <=> PaidUnder(to, amount, r)'
      /\ \A r : VerifyPayment(RECIPIENT, PRICE, r)' <=> VerifyPayment(RECIPIENT, PRICE, r)
  BY <1>1 DEF PaidUnder, VerifyPayment, ValidTransfer, OldestWith
<1>7. debited[Buyer] = buyer.spentLamports
  BY <1>1 DEF PurchaseInv, SpendingOK
<1>8. CASE /\ p \in pending
           /\ verifying' = verifying \cup {[ref |-> p, copy |-> FALSE]}
           /\ buyer' = [buyer EXCEPT !.pc = "wait"]
           /\ UNCHANGED faults
  <2>1. p \in 1..refs /\ None \notin 1..refs
    BY <1>8, PaymentsAssumption DEF PurchaseInv, ServerOK
  <2>2. p = buyer.ref
    BY <2>1 DEF ProofReference
  <2>3. buyer' \in Buyers
    BY <1>3, <1>8 DEF Buyers
  <2>4. /\ buyer'.pc = "wait" /\ buyer'.calls = buyer.calls /\ buyer'.told = buyer.told
        /\ buyer'.allowedReferences = buyer.allowedReferences /\ buyer'.ref = buyer.ref
        /\ buyer'.strategy = buyer.strategy /\ buyer'.spentLamports = buyer.spentLamports
    BY <1>3, <1>8 DEF Buyers
  <2>5. BuyerOK'
    BY <1>1, <1>3, <2>3, <2>4 DEF BuyerOK, IsBuyer
  <2>6. SpendingOK'
    BY <1>1, <2>4 DEF PurchaseInv, SpendingOK
  <2>7. verifying' \subseteq [ref : 1..refs, copy : BOOLEAN]
    <3>1. [ref |-> p, copy |-> FALSE] \in [ref : 1..refs, copy : BOOLEAN]
      BY <2>1
    <3> QED
      BY <1>8, <3>1 DEF PurchaseInv, ServerOK
  <2>8. ServerOK'
    BY <1>1, <1>6, <2>7 DEF PurchaseInv, ServerOK
  <2>9. OnceOK'
    BY <1>1, <1>8 DEF PurchaseInv, OnceOK
  <2>10. WaitingOK'
    BY <1>1, <1>5, <1>6, <1>8, <2>2, <2>4 DEF PurchaseInv, WaitingOK
  <2> QED
    BY <1>4, <2>5, <2>6, <2>8, <2>9, <2>10 DEF PurchaseInv
<1>9. (ServerOK' /\ OnceOK') \/ verifying' # verifying
  BY <1>1, <1>6 DEF PurchaseInv, ServerOK, OnceOK
<1>10. CASE p \notin pending /\ buyer' = NextCall(buyer) /\ UNCHANGED <<faults, verifying>>
  <2>1. /\ IsBuyer(buyer', refs) /\ buyer'.pc \in {"tool", "turn"}
        /\ buyer'.strategy = buyer.strategy /\ buyer'.spentLamports = buyer.spentLamports
    BY <1>2, <1>3, <1>10, NextCallIs
  <2>2. BuyerOK' /\ SpendingOK'
    BY <1>1, <2>1 DEF PurchaseInv, BuyerOK, SpendingOK
  <2>3. served \in [References -> Nat] /\ 1..refs \subseteq References
    BY <1>2 DEF PurchaseInv, ServerOK, References
  <2>4. buyer.strategy = "quickstart" /\ faults = 0 => \A r \in 1..refs : buyer.ref = r => served[r] > 0
    BY <1>10, <2>3 DEF PurchaseInv, WaitingOK, ProofReference
  <2>5. WaitingOK'
    BY <1>1, <1>5, <1>6, <1>10, <2>1, <2>4 DEF PurchaseInv, WaitingOK
  <2> QED
    BY <1>4, <1>9, <1>10, <2>2, <2>5 DEF PurchaseInv
<1>11. CASE Fault /\ buyer' = Throw(buyer) /\ UNCHANGED verifying
  <2>1. IsBuyer(buyer', refs) /\ buyer'.pc = "threw" /\ buyer'.strategy = buyer.strategy
    BY <1>2, <1>3, <1>11, ThrowIs
  <2>2. faults' # 0
    BY <1>2, <1>11 DEF Fault
  <2>3. BuyerOK' /\ SpendingOK'
    BY <1>1, <2>1 DEF PurchaseInv, BuyerOK, SpendingOK
  <2>4. WaitingOK'
    BY <1>1, <1>5, <1>11, <2>1, <2>2 DEF WaitingOK
  <2> QED
    BY <1>4, <1>9, <1>11, <2>3, <2>4 DEF PurchaseInv
<1> QED
  BY <1>1, <1>4, <1>8, <1>10, <1>11

LEMMA ResendKeeps ==
    ASSUME ChainOK, PurchaseInv, Resend
    PROVE  PurchaseInv'
<1>1. PICK e \in verifying :
         verifying' = verifying \cup {[e EXCEPT !.copy = TRUE]}
  BY DEF Resend
<1>2. /\ resends' = resends + 1
      /\ UNCHANGED <<chain, debited, refs, faults, buyer, pending, served>>
  BY DEF Resend, payVars
<1>3. /\ \A to, amount, r : PaidUnder(to, amount, r) <=> PaidUnder(to, amount, r)'
      /\ \A r : VerifyPayment(RECIPIENT, PRICE, r)' <=> VerifyPayment(RECIPIENT, PRICE, r)
  BY <1>2 DEF PaidUnder, VerifyPayment, ValidTransfer, OldestWith
<1>4. e \in [ref : 1..refs, copy : BOOLEAN] /\ resends \in Nat
  BY DEF PurchaseInv, ServerOK
<1>5. /\ [e EXCEPT !.copy = TRUE] \in [ref : 1..refs, copy : BOOLEAN]
      /\ [e EXCEPT !.copy = TRUE].copy = TRUE
  BY <1>4
<1>6. BuyerOK' /\ SpendingOK'
  BY <1>2 DEF PurchaseInv, BuyerOK, SpendingOK
<1>7. ServerOK'
  <2>1. verifying' \subseteq [ref : 1..refs, copy : BOOLEAN]
    <3> DEFINE S == [ref : 1..refs, copy : BOOLEAN]
               x == [e EXCEPT !.copy = TRUE]
    <3>1. verifying \subseteq S /\ x \in S /\ verifying' = verifying \cup {x}
      BY <1>1, <1>5 DEF PurchaseInv, ServerOK
    <3> HIDE DEF S, x
    <3>2. verifying' \subseteq S
      BY <3>1
    <3> QED
      BY <3>2 DEF S
  <2> QED
    BY <1>2, <1>3, <1>4, <2>1 DEF PurchaseInv, ServerOK
<1>8. OnceOK'
  BY <1>2, <1>4 DEF OnceOK
<1>9. WaitingOK'
  BY <1>1, <1>2, <1>3, <1>5 DEF PurchaseInv, WaitingOK
<1> QED
  BY <1>6, <1>7, <1>8, <1>9 DEF PurchaseInv

LEMMA VerifiedKeeps ==
    ASSUME ChainOK, PurchaseInv, Verified
    PROVE  PurchaseInv'
<1>1. PICK e \in verifying :
         /\ verifying' = verifying \ {e}
         /\ Answer(e)
         /\ IF ServerVerifies(e.ref) THEN Deliver(e) ELSE UNCHANGED <<pending, served>>
         /\ UNCHANGED <<payVars, resends>>
  BY DEF Verified
<1>2. UNCHANGED <<chain, debited, refs, faults, resends>>
  BY <1>1 DEF payVars
<1>3. /\ \A to, amount, r : PaidUnder(to, amount, r) <=> PaidUnder(to, amount, r)'
      /\ \A r : VerifyPayment(RECIPIENT, PRICE, r)' <=> VerifyPayment(RECIPIENT, PRICE, r)
  BY <1>2 DEF PaidUnder, VerifyPayment, ValidTransfer, OldestWith
<1>4. /\ e \in [ref : 1..refs, copy : BOOLEAN] /\ e.ref \in References /\ e.ref <= refs
      /\ served \in [References -> Nat] /\ 1..refs \subseteq References
  BY Counts DEF PurchaseInv, ServerOK, References
<1>5. /\ refs \in Nat /\ refs <= refs /\ IsBuyer(buyer, refs) /\ buyer \in Buyers
  BY Counts DEF PurchaseInv, BuyerOK, IsBuyer
<1>6. /\ IsBuyer(buyer', refs) /\ buyer'.strategy = buyer.strategy
      /\ buyer'.spentLamports = buyer.spentLamports
      /\ buyer'.pc \in {buyer.pc, "tool", "turn"} /\ (buyer.pc # "wait" => buyer' = buyer)
      /\ IF ~e.copy /\ buyer.pc = "wait" THEN buyer'.pc \in {"tool", "turn"} ELSE buyer' = buyer
  BY <1>1, <1>5, NextCallIs DEF Answer
<1>7. BuyerOK' /\ SpendingOK'
  BY <1>2, <1>6 DEF PurchaseInv, BuyerOK, SpendingOK
<1>8. /\ VerifyPayment(RECIPIENT, PRICE, e.ref) =>
            /\ PaidUnder(RECIPIENT, PRICE, e.ref)
            /\ pending' = pending \ {e.ref}
            /\ served' = [served EXCEPT ![e.ref] = @ + 1]
      /\ ~VerifyPayment(RECIPIENT, PRICE, e.ref) => UNCHANGED <<pending, served>>
  <2>1. VerifyPayment(RECIPIENT, PRICE, e.ref) => PaidUnder(RECIPIENT, PRICE, e.ref)
    BY DEF VerifyPayment, ValidTransfer, PaidUnder, ChainOK
  <2> QED
    BY <1>1, <2>1 DEF ServerVerifies, Deliver
<1>9. /\ served' \in [References -> Nat] /\ pending' \subseteq pending
      /\ \A r \in References : served'[r] # served[r] =>
            r = e.ref /\ served'[r] = served[r] + 1 /\ PaidUnder(RECIPIENT, PRICE, r) /\ r \notin pending'
  BY <1>4, <1>8
<1>10. ServerOK'
  BY <1>1, <1>2, <1>3, <1>4, <1>9 DEF PurchaseInv, ServerOK
<1>11. OnceOK'
  <2>1. SUFFICES ASSUME resends = 0
                 PROVE  /\ \A d \in verifying' : ~d.copy
                        /\ \A r \in References :
                              /\ served'[r] <= 1
                              /\ served'[r] > 0 => r \notin pending' /\ \A d \in verifying' : d.ref # r
    BY <1>2 DEF OnceOK
  <2>2. /\ \A d \in verifying : ~d.copy
        /\ \A r \in References :
              /\ served[r] <= 1
              /\ served[r] > 0 => r \notin pending /\ \A d \in verifying : d.ref # r
    BY <2>1 DEF PurchaseInv, OnceOK
  <2>3. served[e.ref] = 0
    BY <1>4, <2>2
  <2>4. \A d \in verifying' : d.ref # e.ref
    <3>1. ASSUME NEW d \in verifying, d.ref = e.ref
          PROVE  d = e
      <4>1. d \in [ref : 1..refs, copy : BOOLEAN]
        BY DEF PurchaseInv, ServerOK
      <4>2. d.copy = e.copy
        BY <1>4, <2>2, <4>1
      <4> QED
        BY <1>4, <3>1, <4>1, <4>2
    <3> QED
      BY <1>1, <3>1
  <2> QED
    BY <1>1, <1>4, <1>9, <2>2, <2>3, <2>4
<1>12. WaitingOK'
  <2>1. ASSUME NEW d \in verifying', ~d.copy
        PROVE  buyer'.pc = "wait" /\ d.ref = buyer'.ref
    <3>1. d \in verifying /\ d # e /\ buyer.pc = "wait" /\ d.ref = buyer.ref
      BY <1>1, <2>1 DEF PurchaseInv, WaitingOK
    <3>2. d \in [ref : 1..refs, copy : BOOLEAN]
      BY <3>1 DEF PurchaseInv, ServerOK
    <3>3. e.copy
      BY <1>4, <2>1, <3>1, <3>2 DEF PurchaseInv, WaitingOK
    <3> QED
      BY <1>6, <3>1, <3>3
  <2>2. buyer'.pc = "wait" => [ref |-> buyer'.ref, copy |-> FALSE] \in verifying'
    <3>1. ASSUME buyer'.pc = "wait"
          PROVE  buyer' = buyer /\ buyer.pc = "wait" /\ e.copy
      BY <1>4, <1>6, <3>1
    <3> QED
      BY <1>1, <3>1 DEF PurchaseInv, WaitingOK
  <2>3. ASSUME buyer.strategy = "quickstart", faults = 0, NEW r \in 1..refs
        PROVE  /\ served'[r] = 0 => r \in pending'
               /\ VerifyPayment(RECIPIENT, PRICE, r) =>
                     served'[r] > 0 \/ (buyer'.pc \in {"retry", "wait"} /\ buyer'.ref = r)
    <3>1. /\ served[r] = 0 => r \in pending
          /\ VerifyPayment(RECIPIENT, PRICE, r) =>
                served[r] > 0 \/ (buyer.pc \in {"retry", "wait"} /\ buyer.ref = r)
      BY <2>3 DEF PurchaseInv, WaitingOK
    <3>2. r \in References /\ served[r] \in Nat /\ served'[r] \in Nat
      BY <1>4, <1>9
    <3>3. CASE r = e.ref /\ VerifyPayment(RECIPIENT, PRICE, r)
      BY <1>4, <1>8, <3>2, <3>3
    <3>4. CASE ~(r = e.ref /\ VerifyPayment(RECIPIENT, PRICE, r))
      <4>1. served'[r] = served[r] /\ (r \in pending' <=> r \in pending)
        BY <1>4, <1>8, <3>2, <3>4
      <4>2. VerifyPayment(RECIPIENT, PRICE, r) /\ buyer.ref = r => buyer' = buyer
        BY <1>4, <1>6, <3>4 DEF PurchaseInv, WaitingOK
      <4> QED
        BY <3>1, <4>1, <4>2
    <3> QED
      BY <3>3, <3>4
  <2> QED
    BY <1>2, <1>3, <1>6, <2>1, <2>2, <2>3 DEF WaitingOK
<1> QED
  BY <1>7, <1>10, <1>11, <1>12 DEF PurchaseInv

LEMMA RestartServerKeeps ==
    ASSUME ChainOK, PurchaseInv, RestartServer
    PROVE  PurchaseInv' /\ faults' \in Nat
<1>1. /\ faults' = faults + 1 /\ pending' = {} /\ verifying' = {}
      /\ buyer' = IF buyer.pc = "wait" THEN Throw(buyer) ELSE buyer
      /\ UNCHANGED <<chain, debited, refs, served, resends>>
  BY DEF RestartServer, Fault
<1>2. refs \in Nat /\ refs <= refs /\ faults \in Nat /\ IsBuyer(buyer, refs)
  BY Counts DEF PurchaseInv, BuyerOK
<1>3. /\ IsBuyer(buyer', refs) /\ buyer'.strategy = buyer.strategy
      /\ buyer'.pc # "wait" /\ (buyer' = buyer \/ buyer'.pc = "threw")
  BY <1>1, <1>2, ThrowIs
<1>4. BuyerOK' /\ SpendingOK'
  BY <1>1, <1>3 DEF PurchaseInv, BuyerOK, SpendingOK
<1>5. ServerOK' /\ OnceOK'
  BY <1>1 DEF PurchaseInv, ServerOK, OnceOK, PaidUnder
<1>6. WaitingOK'
  BY <1>1, <1>2, <1>3 DEF WaitingOK
<1> QED
  BY <1>1, <1>2, <1>4, <1>5, <1>6 DEF PurchaseInv

LEMMA PurchaseKeeps ==
    ASSUME ChainOK, PurchaseInv, PurchaseStep \/ PurchaseEvent
    PROVE  /\ PurchaseInv' /\ ChainStep({Buyer}) /\ UNCHANGED demo
           /\ refs' \in refs..MaxRefs /\ faults' \in Nat
<1>1. refs \in refs..MaxRefs /\ faults \in Nat
  BY Counts
<1>2. CASE Respond
  BY <1>1, <1>2, RespondKeeps DEF Respond, payVars, ChainStep
<1>3. CASE Exhausted
  BY <1>1, <1>3, ExhaustedKeeps DEF Exhausted, payVars, ChainStep
<1>4. CASE FetchData
  BY <1>4, FetchDataKeeps DEF FetchData, ChainStep
<1>5. CASE Refused
  BY <1>1, <1>5, RefusedKeeps DEF Refused, payVars, ChainStep
<1>6. CASE SignTransfer
  <2>1. UNCHANGED demo
    BY <1>6 DEF SignTransfer
  <2> QED
    BY <1>1, <1>6, <2>1, SignTransferKeeps
<1>7. CASE Retry
  BY <1>1, <1>7, RetryKeeps DEF Retry, ChainStep
<1>8. CASE Verified
  BY <1>1, <1>8, VerifiedKeeps DEF Verified, payVars, ChainStep
<1>9. CASE Resend
  BY <1>1, <1>9, ResendKeeps DEF Resend, payVars, ChainStep
<1>10. CASE RestartServer
  BY <1>1, <1>10, RestartServerKeeps DEF RestartServer, ChainStep
<1> QED
  BY <1>2, <1>3, <1>4, <1>5, <1>6, <1>7, <1>8, <1>9, <1>10 DEF PurchaseStep, PurchaseEvent

-----------------------------------------------------------------------------
(* The broker.                                                             *)

ChainGrows ==
    /\ DOMAIN chain = 1..Len(chain) /\ DOMAIN chain' = 1..Len(chain')
    /\ 1..Len(chain) \subseteq 1..Len(chain')
    /\ \A i \in 1..Len(chain) : chain'[i] = chain[i]

LEMMA ChainOnlyGrows ==
    ASSUME ChainOK, NEW S, ChainStep(S)
    PROVE  ChainGrows
<1>1. chain \in Seq(Transfers)
  BY DEF ChainOK
<1>2. CASE UNCHANGED <<chain, debited>>
  BY <1>1, <1>2 DEF ChainGrows
<1>3. ASSUME NEW t \in Transfers, Land(t)
      PROVE  ChainGrows
  <2>1. /\ chain' \in Seq(Transfers) /\ Len(chain') = Len(chain) + 1 /\ Len(chain) \in Nat
        /\ \A i \in 1..Len(chain) : chain'[i] = chain[i]
    BY <1>1, <1>3, Appended DEF Land
  <2> QED
    BY <1>1, <2>1 DEF ChainGrows
<1> QED
  BY <1>2, <1>3 DEF ChainStep

LEMMA GoIs ==
    ASSUME BrokerOK, NEW p \in {"idle", "backoff", "failed", "unpaid"} \cup Shopping \cup Holding
    PROVE  /\ Go(p) \in Brokers /\ Go(p).pc = p /\ Go(p).cycle = broker.cycle
           /\ p \notin {"idle", "backoff"} =>
                 /\ Go(p).ask = broker.ask /\ Go(p).asked = broker.asked
                 /\ Go(p).quotes = broker.quotes /\ Go(p).best = broker.best
                 /\ Go(p).data = broker.data /\ Go(p).charge = broker.charge
           /\ p \in {"idle", "backoff"} => Go(p).quotes = {}
<1>1. broker \in Brokers /\ Len(SELLERS) \in Nat
  BY BrokerAssumption DEF BrokerOK
<1>2. CASE p \in {"idle", "backoff"}
  <2>1. Go(p) = [Idle(broker.cycle) EXCEPT !.pc = p]
    BY <1>2 DEF Go
  <2>2. Go(p) = [pc |-> p, cycle |-> broker.cycle, ask |-> None, asked |-> 0, quotes |-> {},
                 best |-> None, data |-> None, charge |-> None]
    BY <2>1 DEF Idle
  <2> QED
    BY <1>1, <1>2, <2>2 DEF Brokers
<1>3. CASE p \notin {"idle", "backoff"}
  <2>1. Go(p) = [broker EXCEPT !.pc = p]
    BY <1>3 DEF Go
  <2> QED
    BY <1>1, <1>3, <2>1 DEF Brokers
<1> QED
  BY <1>2, <1>3

LEMMA SellsStays ==
    ASSUME ChainGrows, heard \subseteq heard', said \subseteq said',
           \A m \in said' : m.kind = "DELIVERED" => m \in said, SellsWhatItBought
    PROVE  SellsWhatItBought'
<1> SUFFICES ASSUME NEW d \in said', d.kind = "DELIVERED"
             PROVE  \E q \in heard', c \in said' :
               /\ q.kind = "quote" /\ q.thread = d.body /\ q.thread.cycle = d.cycle
               /\ c.kind = "PAYMENT_REQUIRED" /\ c.cycle = d.cycle /\ c.thread = d.thread
               /\ \E i \in DOMAIN chain' :
                    chain'[i].from = Me /\ Paid(chain'[i], q.thread.with, q.body.amount, q.body.ref)
               /\ \E i \in DOMAIN chain' : Paid(chain'[i], Me, c.body.amount, c.body.ref)
               /\ q.body.amount >= 2500 => c.body.amount >= q.body.amount
  BY DEF SellsWhatItBought, Paid
<1>1. PICK q \in heard, c \in said :
        /\ q.kind = "quote" /\ q.thread = d.body /\ q.thread.cycle = d.cycle
        /\ c.kind = "PAYMENT_REQUIRED" /\ c.cycle = d.cycle /\ c.thread = d.thread
        /\ \E i \in DOMAIN chain :
             chain[i].from = Me /\ Paid(chain[i], q.thread.with, q.body.amount, q.body.ref)
        /\ \E i \in DOMAIN chain : Paid(chain[i], Me, c.body.amount, c.body.ref)
        /\ q.body.amount >= 2500 => c.body.amount >= q.body.amount
  BY DEF SellsWhatItBought
<1>2. \E i \in DOMAIN chain' :
         chain'[i].from = Me /\ Paid(chain'[i], q.thread.with, q.body.amount, q.body.ref)
  BY <1>1 DEF ChainGrows
<1>3. \E i \in DOMAIN chain' : Paid(chain'[i], Me, c.body.amount, c.body.ref)
  BY <1>1 DEF ChainGrows
<1> QED
  BY <1>1, <1>2, <1>3

LEMMA MailShrinks ==
    ASSUME MailOK, inbox # <<>>
    PROVE  /\ Tail(inbox) \in Seq(Mentions)
           /\ \A i \in 1..Len(Tail(inbox)) : i + 1 \in 1..Len(inbox) /\ Tail(inbox)[i] = inbox[i + 1]
           /\ Mentioned \in Mentions
           /\ Mentioned.kind \in {"quote", "DELIVERED"} => Mentioned \in heard
           /\ Mentioned.kind = "request" => Mentioned.thread.cycle = 0
<1>1. inbox \in Seq(Mentions) /\ Len(inbox) \in Nat \ {0}
  BY DEF MailOK
<1>2. /\ Tail(inbox) \in Seq(Mentions)
      /\ \A i \in 1..Len(Tail(inbox)) : i + 1 \in 1..Len(inbox) /\ Tail(inbox)[i] = inbox[i + 1]
  BY <1>1
<1>3. Mentioned = inbox[1] /\ 1 \in 1..Len(inbox) /\ inbox[1] \in Mentions
  BY <1>1 DEF Mentioned
<1> QED
  BY <1>2, <1>3 DEF MailOK

(* The broker reads a mention or lets a wait pass.                         *)
Reads == inbox' = inbox \/ (inbox # <<>> /\ inbox' = Tail(inbox))

LEMMA ReadsKeeps ==
    ASSUME MailOK, Reads, UNCHANGED heard
    PROVE  MailOK'
<1>1. CASE inbox' = inbox
  BY <1>1 DEF MailOK
<1>2. CASE inbox # <<>> /\ inbox' = Tail(inbox)
  BY <1>2, MailShrinks DEF MailOK
<1> QED
  BY <1>1, <1>2 DEF Reads

LEMMA BrokerMoves ==
    ASSUME BrokerInv, UNCHANGED <<chain, refs, said, heard>>, faults' = 0 => faults = 0,
           chain \in Seq(Transfers), Reads, BrokerOK', DealOK',
           broker'.cycle = broker.cycle,
           broker'.pc \in Shopping => broker.pc \in Shopping,
           broker'.pc # "backoff",
           broker'.pc = "idle" <=> broker.pc \in {"idle", "backoff"}
    PROVE  BrokerInv'
<1>1. MailOK'
  BY ReadsKeeps DEF BrokerInv
<1>2. SaidOK' /\ HeardOK'
  BY DEF BrokerInv, SaidOK, HeardOK
<1>3. BoughtOK'
  BY DEF BrokerInv, BoughtOK, Buys, PaysQuote
<1>4. ChainGrows
  BY DEF ChainGrows
<1>5. SellsWhatItBought'
  BY <1>4, SellsStays DEF BrokerInv
<1>6. AnsweredOK'
  BY DEF BrokerInv, AnsweredOK, AnswersTo
<1> QED
  BY <1>1, <1>2, <1>3, <1>5, <1>6 DEF BrokerInv

(* The broker sends a message, or fails to.                                *)
LEMMA BrokerSays ==
    ASSUME BrokerInv, ChainOK, UNCHANGED <<chain, inbox, heard>>, refs' \in {refs, refs + 1},
           NEW m \in Sayings, m.cycle = broker.cycle, broker.cycle > 0,
           m.kind = "request" => m.thread.cycle = m.cycle,
           m.kind = "PAYMENT_REQUIRED" => m.body \in Charges /\ m.body.ref <= refs',
           said' \in {said, said \cup {m}}, faults' \in {faults, faults + 1},
           BrokerOK', DealOK', SellsWhatItBought',
           broker'.cycle = broker.cycle,
           broker'.pc \in Shopping => broker.pc \in Shopping,
           broker.pc # "idle",
           faults' = 0 => /\ said' = said \cup {m}
                          /\ broker'.pc # "backoff"
                          /\ m.kind \in Answers <=> broker'.pc = "idle"
    PROVE  BrokerInv'
<1>1. refs \in Nat /\ faults \in Nat
  BY Counts
<1>2. MailOK'
  BY DEF BrokerInv, MailOK
<1>3. SaidOK'
  <2>1. \A x \in said' : x \in said \/ x = m
    OBVIOUS
  <2>2. \A x \in said : x.kind = "PAYMENT_REQUIRED" => x.body \in Charges /\ x.body.ref <= refs'
    BY <1>1 DEF BrokerInv, SaidOK, Charges
  <2> QED
    BY <2>1, <2>2 DEF BrokerInv, SaidOK, Sayings
<1>4. HeardOK'
  <2>1. \A q \in heard : q.kind = "quote" => q \in Quoted
    BY DEF BrokerInv, HeardOK, Deliveries
  <2>2. \A q \in heard : q.kind = "quote" => q.body.ref <= refs'
    BY <1>1, <2>1 DEF BrokerInv, HeardOK, Quoted
  <2> QED
    BY <2>2 DEF BrokerInv, HeardOK
<1>5. BoughtOK'
  BY DEF BrokerInv, BoughtOK, Buys, PaysQuote
<1>6. AnsweredOK'
  <2>1. SUFFICES ASSUME faults' = 0
                 PROVE  \A n \in 1..broker.cycle :
                           IF n = broker.cycle /\ broker'.pc # "idle" THEN AnswersTo(n)' = {}
                           ELSE \E x \in said' : AnswersTo(n)' = {x}
    BY DEF AnsweredOK
  <2>2. faults = 0 /\ said' = said \cup {m} /\ (m.kind \in Answers <=> broker'.pc = "idle")
    BY <1>1, <2>1
  <2>3. \A n \in 1..broker.cycle :
           IF n = broker.cycle THEN AnswersTo(n) = {} ELSE \E x \in said : AnswersTo(n) = {x}
    BY <2>2 DEF BrokerInv, AnsweredOK
  <2>4. \A n \in 1..broker.cycle :
           AnswersTo(n)' = AnswersTo(n) \cup
              (IF n = broker.cycle /\ broker'.pc = "idle" THEN {m} ELSE {})
    BY <2>2 DEF AnswersTo
  <2> QED
    BY <2>2, <2>3, <2>4
<1> QED
  BY <1>2, <1>3, <1>4, <1>5, <1>6 DEF BrokerInv

(* A step to a place where nothing is held.                                *)
LEMMA GoKeeps ==
    ASSUME BrokerOK, UNCHANGED heard,
           NEW p \in {"idle", "backoff", "failed", "unpaid"} \cup Shopping,
           broker' = Go(p), p \in {"idle", "backoff"} \/ broker.pc \notin {"idle", "backoff"}
    PROVE  BrokerOK' /\ DealOK' /\ broker'.pc = p /\ broker'.cycle = broker.cycle
<1>1. /\ broker' \in Brokers /\ broker'.pc = p /\ broker'.cycle = broker.cycle
      /\ p \notin {"idle", "backoff"} => broker'.ask = broker.ask /\ broker'.quotes = broker.quotes
      /\ p \in {"idle", "backoff"} => broker'.quotes = {}
  BY GoIs
<1>2. BrokerOK'
  BY <1>1 DEF BrokerOK
<1>3. p \notin Holding
  BY DEF Holding, Shopping
<1>4. DealOK'
  BY <1>1, <1>3 DEF DealOK, Holding
<1> QED
  BY <1>1, <1>2, <1>4

LEMMA WaitIs ==
    ASSUME NEW thread, NEW answered, NEW timeout, Wait(thread, answered, timeout)
    PROVE  /\ Reads
           /\ \/ broker' \in {broker, timeout}
              \/ inbox # <<>> /\ Mentioned.thread = thread /\ broker' = answered
  BY DEF Wait, Reads, IsInThread

LEMMA SendIs ==
    ASSUME ChainOK, NEW m, NEW next, NEW failed, Send(m, next, failed)
    PROVE  /\ said' \in {said, said \cup {m}} /\ faults' \in {faults, faults + 1}
           /\ (broker' = next /\ said' = said \cup {m}) \/ broker' = failed
           /\ faults' = 0 => said' = said \cup {m} /\ broker' = next
<1>1. faults \in Nat
  BY Counts
<1> QED
  BY <1>1 DEF Send, Fault

LEMMA TakeRequestKeeps ==
    ASSUME ChainOK, BrokerInv, TakeRequest
    PROVE  BrokerInv'
<1>1. /\ broker.pc = "idle" /\ inbox # <<>> /\ inbox' = Tail(inbox)
      /\ UNCHANGED <<chain, refs, faults, said, heard>> /\ chain \in Seq(Transfers)
  BY DEF TakeRequest, payVars, ChainOK
<1>2. BrokerOK /\ broker \in Brokers /\ broker.cycle \in Nat /\ broker.quotes = {}
  BY <1>1 DEF BrokerInv, BrokerOK, Brokers
<1>3. Mentioned \in Mentions /\ (Mentioned.kind = "request" => Mentioned.thread.cycle = 0)
  BY <1>1, MailShrinks DEF BrokerInv
<1>4. CASE Mentioned.kind # "request"
  <2>1. broker' = broker
    BY <1>4 DEF TakeRequest, Mentioned
  <2>2. BrokerOK' /\ DealOK'
    BY <1>1, <1>2, <2>1 DEF BrokerOK, DealOK, Holding
  <2> QED
    BY <1>1, <2>1, <2>2, BrokerMoves DEF Reads, Shopping
<1>5. CASE Mentioned.kind = "request"
  <2>1. broker' = [Go("shop") EXCEPT !.cycle = @ + 1, !.ask = Mentioned.thread]
    BY <1>5 DEF TakeRequest, Mentioned
  <2>2. /\ Go("shop") \in Brokers /\ Go("shop").cycle = broker.cycle /\ Go("shop").pc = "shop"
        /\ Go("shop").quotes = {}
    BY <1>2, GoIs DEF Shopping
  <2>3. Mentioned.thread \in Threads
    BY <1>3 DEF Mentions, Quoted, Deliveries
  <2>4. broker.cycle + 1 \in Nat
    BY <1>2
  <2>5. /\ broker' \in Brokers /\ broker'.pc = "shop" /\ broker'.cycle = broker.cycle + 1
        /\ broker'.ask = Mentioned.thread /\ broker'.quotes = {}
    BY <2>1, <2>2, <2>3, <2>4 DEF Brokers
  <2>6. BrokerOK'
    BY <1>2, <1>3, <1>5, <2>3, <2>5 DEF BrokerOK
  <2>7. DealOK'
    BY <2>5 DEF DealOK, Holding
  <2>8. MailOK'
    BY <1>1, ReadsKeeps DEF BrokerInv, Reads
  <2>9. SaidOK'
    <3>1. \A m \in said : m.cycle \in Nat
      BY DEF BrokerInv, SaidOK, Sayings
    <3> QED
      BY <1>1, <1>2, <2>5, <3>1 DEF BrokerInv, SaidOK
  <2>10. \A q \in heard : q.kind = "quote" =>
            q.thread.cycle \in Nat /\ q.thread.cycle <= broker.cycle
    BY DEF BrokerInv, HeardOK, Quoted, Deliveries, Threads
  <2>11. HeardOK'
    <3>1. \A q \in heard : q.kind = "quote" => q.thread.cycle <= broker'.cycle
      BY <1>2, <2>5, <2>10
    <3> QED
      BY <1>1, <3>1 DEF BrokerInv, HeardOK
  <2>12. BoughtOK'
    <3>1. \A q \in heard : q.kind = "quote" => q.thread.cycle # broker'.cycle
      BY <1>2, <2>5, <2>10
    <3> QED
      BY <1>1, <3>1 DEF BrokerInv, BoughtOK, Buys, PaysQuote
  <2>13. SellsWhatItBought'
    BY <1>1, SellsStays DEF BrokerInv, ChainGrows
  <2>14. AnsweredOK'
    <3>1. SUFFICES ASSUME faults = 0
                   PROVE  \A n \in 1..(broker.cycle + 1) :
                             IF n = broker.cycle + 1 THEN AnswersTo(n) = {}
                             ELSE \E x \in said : AnswersTo(n) = {x}
      BY <1>1, <2>5 DEF AnsweredOK, AnswersTo
    <3>2. AnswersTo(broker.cycle + 1) = {}
      <4>1. \A m \in said : m.cycle \in Nat /\ m.cycle <= broker.cycle
        BY DEF BrokerInv, SaidOK, Sayings
      <4> QED
        BY <1>2, <4>1 DEF AnswersTo
    <3>3. \A n \in 1..broker.cycle : \E x \in said : AnswersTo(n) = {x}
      BY <1>1, <3>1 DEF BrokerInv, AnsweredOK
    <3>4. \A n \in 1..(broker.cycle + 1) : n = broker.cycle + 1 \/ n \in 1..broker.cycle
      BY <1>2
    <3> QED
      BY <3>2, <3>3, <3>4
  <2> QED
    BY <2>6, <2>7, <2>8, <2>9, <2>11, <2>12, <2>13, <2>14 DEF BrokerInv
<1> QED
  BY <1>4, <1>5

LEMMA HearQuoteKeeps ==
    ASSUME ChainOK, BrokerInv, HearQuote
    PROVE  BrokerInv'
<1>1. /\ broker.pc = "quote" /\ UNCHANGED <<chain, refs, faults, said, heard>>
      /\ chain \in Seq(Transfers) /\ BrokerOK /\ broker \in Brokers
  BY DEF HearQuote, payVars, ChainOK, BrokerInv, BrokerOK
<1> DEFINE more == [Go("shop") EXCEPT !.quotes = @ \cup {Mentioned}]
<1>2. /\ Reads
      /\ \/ broker' \in {broker, Go("shop")}
         \/ /\ inbox # <<>> /\ Mentioned.thread = Thread(Seller)
            /\ broker' = IF Mentioned.kind = "quote" THEN more ELSE Go("shop")
  <2>1. Wait(Thread(Seller), IF Mentioned.kind = "quote" THEN more ELSE Go("shop"), Go("shop"))
    BY DEF HearQuote
  <2> HIDE DEF more
  <2> QED
    BY <2>1, WaitIs
<1>3. CASE broker' = broker
  <2>1. BrokerOK' /\ DealOK'
    BY <1>1, <1>3 DEF BrokerOK, DealOK, Holding
  <2> QED
    BY <1>1, <1>2, <1>3, <2>1, BrokerMoves
<1>4. CASE broker' = Go("shop")
  <2>1. BrokerOK' /\ DealOK' /\ broker'.pc = "shop" /\ broker'.cycle = broker.cycle
    BY <1>1, <1>4, GoKeeps DEF Shopping
  <2> QED
    BY <1>1, <1>2, <2>1, BrokerMoves DEF Shopping
<1>5. CASE /\ inbox # <<>> /\ Mentioned.thread = Thread(Seller) /\ Mentioned.kind = "quote"
           /\ broker' = more
  <2>1. Mentioned \in Quoted /\ Mentioned \in heard
    BY <1>5, MailShrinks DEF BrokerInv, Mentions, Deliveries
  <2>2. Mentioned.thread.cycle = broker.cycle
    BY <1>5 DEF Thread
  <2>3. /\ Go("shop") \in Brokers /\ Go("shop").pc = "shop" /\ Go("shop").cycle = broker.cycle
        /\ Go("shop").ask = broker.ask /\ Go("shop").quotes = broker.quotes
    BY <1>1, GoIs DEF Shopping
  <2>4. broker.quotes \cup {Mentioned} \in SUBSET Quoted
    BY <1>1, <2>1 DEF Brokers
  <2>5. /\ broker' \in Brokers /\ broker'.pc = "shop" /\ broker'.cycle = broker.cycle
        /\ broker'.ask = broker.ask /\ broker'.quotes = broker.quotes \cup {Mentioned}
    BY <1>5, <2>3, <2>4 DEF Brokers
  <2>6. BrokerOK'
    BY <1>1, <2>1, <2>2, <2>5 DEF BrokerOK
  <2>7. DealOK'
    BY <2>5 DEF DealOK, Holding
  <2> QED
    BY <1>1, <1>2, <2>5, <2>6, <2>7, BrokerMoves DEF Shopping
<1> QED
  BY <1>2, <1>3, <1>4, <1>5

(* What a deal holds does not change when only its place does.             *)
HoldsOn(b) ==
    /\ b.ask = broker.ask /\ b.cycle = broker.cycle /\ b.quotes = broker.quotes
    /\ b.best = broker.best /\ b.data = broker.data /\ b.charge = broker.charge

LEMMA HearDeliveryKeeps ==
    ASSUME ChainOK, BrokerInv, HearDelivery
    PROVE  BrokerInv'
<1>1. /\ broker.pc = "bought" /\ UNCHANGED <<chain, refs, faults, said, heard>>
      /\ chain \in Seq(Transfers) /\ BrokerOK /\ broker \in Brokers /\ DealOK
  BY DEF HearDelivery, payVars, ChainOK, BrokerInv, BrokerOK
<1> DEFINE got == [Go("charge") EXCEPT !.data = Mentioned.body]
<1>2. /\ Reads
      /\ \/ broker' \in {broker, Go("failed")}
         \/ /\ inbox # <<>> /\ Mentioned.thread = broker.best.thread
            /\ broker' = IF Mentioned.kind = "DELIVERED" THEN got ELSE Go("failed")
  <2>1. Wait(broker.best.thread,
             IF Mentioned.kind = "DELIVERED" THEN got ELSE Go("failed"), Go("failed"))
    BY DEF HearDelivery
  <2> HIDE DEF got
  <2> QED
    BY <2>1, WaitIs
<1>3. CASE broker' = broker
  <2>1. BrokerOK' /\ DealOK'
    BY <1>1, <1>3 DEF BrokerOK, DealOK, BoughtFrom, Buys, PaidUnder, Charged
  <2> QED
    BY <1>1, <1>2, <1>3, <2>1, BrokerMoves
<1>4. CASE broker' = Go("failed")
  <2>1. BrokerOK' /\ DealOK' /\ broker'.pc = "failed" /\ broker'.cycle = broker.cycle
    BY <1>1, <1>4, GoKeeps DEF Shopping
  <2> QED
    BY <1>1, <1>2, <2>1, BrokerMoves DEF Shopping
<1>5. CASE /\ inbox # <<>> /\ Mentioned.thread = broker.best.thread
           /\ Mentioned.kind = "DELIVERED" /\ broker' = got
  <2>1. Mentioned \in heard /\ Mentioned \in Deliveries
    BY <1>5, MailShrinks DEF BrokerInv, Mentions, Quoted
  <2>2. Mentioned.body = broker.best.thread /\ Mentioned.body \in Threads
    BY <1>5, <2>1 DEF BrokerInv, HeardOK, Deliveries
  <2>3. Go("charge") \in Brokers /\ Go("charge").pc = "charge" /\ HoldsOn(Go("charge"))
    BY <1>1, GoIs DEF Holding, HoldsOn
  <2>4. /\ broker' \in Brokers /\ broker'.pc = "charge" /\ broker'.cycle = broker.cycle
        /\ broker'.ask = broker.ask /\ broker'.quotes = broker.quotes
        /\ broker'.best = broker.best /\ broker'.data = broker.best.thread
    BY <1>5, <2>2, <2>3 DEF Brokers, HoldsOn
  <2>5. BrokerOK'
    BY <1>1, <2>4 DEF BrokerOK
  <2>6. DealOK'
    BY <1>1, <2>4 DEF DealOK, BoughtFrom, Buys, Holding
  <2> QED
    BY <1>1, <1>2, <2>4, <2>5, <2>6, BrokerMoves DEF Shopping
<1> QED
  BY <1>2, <1>3, <1>4, <1>5

LEMMA HearProofKeeps ==
    ASSUME ChainOK, BrokerInv, HearProof
    PROVE  BrokerInv'
<1>1. /\ broker.pc = "sell" /\ UNCHANGED <<chain, refs, faults, said, heard>>
      /\ chain \in Seq(Transfers) /\ BrokerOK /\ broker \in Brokers /\ DealOK
  BY DEF HearProof, payVars, ChainOK, BrokerInv, BrokerOK
<1>2. /\ Reads
      /\ \/ broker' \in {broker, Go("unpaid")}
         \/ Proves(Mentioned) /\ broker' = Go("deliver")
  <2>1. Wait(broker.ask, Go(IF Proves(Mentioned) THEN "deliver" ELSE "unpaid"), Go("unpaid"))
    BY DEF HearProof
  <2>2. /\ Reads
        /\ \/ broker' \in {broker, Go("unpaid")}
           \/ broker' = Go(IF Proves(Mentioned) THEN "deliver" ELSE "unpaid")
    BY <2>1, WaitIs
  <2>3. CASE Proves(Mentioned)
    BY <2>2, <2>3
  <2>4. CASE ~Proves(Mentioned)
    BY <2>2, <2>4
  <2> QED
    BY <2>3, <2>4
<1>3. CASE broker' = broker
  <2>1. BrokerOK' /\ DealOK'
    BY <1>1, <1>3 DEF BrokerOK, DealOK, BoughtFrom, Buys, PaidUnder, Charged
  <2> QED
    BY <1>1, <1>2, <1>3, <2>1, BrokerMoves
<1>4. CASE broker' = Go("unpaid")
  <2>1. BrokerOK' /\ DealOK' /\ broker'.pc = "unpaid" /\ broker'.cycle = broker.cycle
    BY <1>1, <1>4, GoKeeps DEF Shopping
  <2> QED
    BY <1>1, <1>2, <2>1, BrokerMoves DEF Shopping
<1>5. CASE Proves(Mentioned) /\ broker' = Go("deliver")
  <2>1. PaidUnder(Me, broker.charge.amount, broker.charge.ref)
    BY <1>1, <1>5 DEF Proves, ValidTransfer, PaidUnder
  <2>2. broker' \in Brokers /\ broker'.pc = "deliver" /\ HoldsOn(broker')
    BY <1>1, <1>5, GoIs DEF Holding, HoldsOn
  <2>3. BrokerOK'
    BY <1>1, <2>2 DEF BrokerOK, HoldsOn
  <2>4. DealOK'
    BY <1>1, <2>1, <2>2 DEF DealOK, BoughtFrom, Buys, Holding, HoldsOn, Charged, PaidUnder
  <2> QED
    BY <1>1, <1>2, <2>2, <2>3, <2>4, BrokerMoves DEF Shopping, HoldsOn
<1> QED
  BY <1>2, <1>3, <1>4, <1>5

LEMMA BackoffKeeps ==
    ASSUME ChainOK, BrokerInv, Backoff
    PROVE  BrokerInv'
<1>1. /\ broker.pc = "backoff" /\ broker' = Go("idle")
      /\ UNCHANGED <<chain, refs, faults, said, heard, inbox>>
      /\ chain \in Seq(Transfers) /\ BrokerOK
  BY DEF Backoff, payVars, ChainOK, BrokerInv
<1>2. BrokerOK' /\ DealOK' /\ broker'.pc = "idle" /\ broker'.cycle = broker.cycle
  BY <1>1, GoKeeps
<1> QED
  BY <1>1, <1>2, BrokerMoves DEF Shopping, Reads

(* Messages other than a delivery, from a place in the middle of a cycle.  *)
LEMMA SellsUnlessDelivered ==
    ASSUME ChainOK, BrokerInv, UNCHANGED <<chain, heard>>, NEW m, m.kind # "DELIVERED",
           said' \in {said, said \cup {m}}
    PROVE  SellsWhatItBought'
<1>1. ChainGrows
  BY DEF ChainGrows, ChainOK
<1> QED
  BY <1>1, SellsStays DEF BrokerInv

(* A message that ends a cycle, or fails to.                               *)
LEMMA EndKeeps ==
    ASSUME ChainOK, BrokerInv, UNCHANGED <<chain, inbox, heard, refs>>,
           broker.pc \notin {"idle", "backoff"},
           NEW kind \in Answers \ {"DELIVERED"},
           Send(Msg(kind, broker.ask, None), Go("idle"), Go("backoff"))
    PROVE  BrokerInv'
<1> DEFINE m == Msg(kind, broker.ask, None)
<1>1. BrokerOK /\ broker \in Brokers /\ broker.ask \in Threads /\ broker.cycle > 0
      /\ broker.cycle \in Nat
  BY DEF BrokerInv, BrokerOK, Brokers
<1>2. m \in Sayings /\ m.cycle = broker.cycle /\ m.kind = kind
  BY <1>1 DEF Msg, Sayings, Kinds
<1>3. /\ said' \in {said, said \cup {m}} /\ faults' \in {faults, faults + 1}
      /\ broker' \in {Go("idle"), Go("backoff")}
      /\ faults' = 0 => said' = said \cup {m} /\ broker' = Go("idle")
  <2> HIDE DEF m
  <2> QED
    BY SendIs DEF m
<1>4. /\ BrokerOK' /\ DealOK' /\ broker'.cycle = broker.cycle
      /\ broker'.pc \in {"idle", "backoff"} /\ (faults' = 0 => broker'.pc = "idle")
  BY <1>1, <1>3, GoKeeps
<1>5. kind # "request" /\ kind # "PAYMENT_REQUIRED" /\ kind # "DELIVERED" /\ kind \in Answers
  BY DEF Answers
<1>6. SellsWhatItBought'
  BY <1>2, <1>3, <1>5, SellsUnlessDelivered
<1> HIDE DEF m
<1> QED
  BY <1>1, <1>2, <1>3, <1>4, <1>5, <1>6, BrokerSays DEF Shopping

LEMMA EndsKeep ==
    ASSUME ChainOK, BrokerInv, NoSellers \/ UpstreamFailed \/ NotVerified
    PROVE  BrokerInv'
<1>1. CASE NoSellers
  BY <1>1, EndKeeps DEF NoSellers, Answers
<1>2. CASE UpstreamFailed
  BY <1>2, EndKeeps DEF UpstreamFailed, Answers
<1>3. CASE NotVerified
  BY <1>3, EndKeeps DEF NotVerified, NextRequest, Answers
<1> QED
  BY <1>1, <1>2, <1>3

LEMMA AskSellerKeeps ==
    ASSUME ChainOK, BrokerInv, AskSeller
    PROVE  BrokerInv'
<1> DEFINE b == [broker EXCEPT !.asked = @ + 1]
           m == Msg("request", Thread(SELLERS[b.asked]), None)
<1>1. /\ broker.pc = "shop" /\ broker.asked < Len(SELLERS)
      /\ Send(m, [b EXCEPT !.pc = "quote"], b)
      /\ UNCHANGED <<chain, refs, inbox, heard>>
  BY DEF AskSeller
<1>2. BrokerOK /\ broker \in Brokers /\ broker.cycle > 0 /\ broker.cycle \in Nat
      /\ Len(SELLERS) \in Nat
  BY <1>1, BrokerAssumption DEF BrokerInv, BrokerOK, Brokers
<1>3. broker.asked + 1 \in 1..Len(SELLERS)
  BY <1>1, <1>2 DEF Brokers
<1>4. /\ b \in Brokers /\ b.pc = "shop" /\ b.asked = broker.asked + 1 /\ b.cycle = broker.cycle
      /\ b.ask = broker.ask /\ b.quotes = broker.quotes
  BY <1>1, <1>2, <1>3 DEF Brokers
<1>5. /\ [b EXCEPT !.pc = "quote"] \in Brokers /\ [b EXCEPT !.pc = "quote"].pc = "quote"
      /\ [b EXCEPT !.pc = "quote"].cycle = broker.cycle
      /\ [b EXCEPT !.pc = "quote"].ask = broker.ask
      /\ [b EXCEPT !.pc = "quote"].quotes = broker.quotes
  <2> HIDE DEF b
  <2> QED
    BY <1>4 DEF Brokers, Shopping
<1>6. /\ m \in Sayings /\ m.cycle = broker.cycle /\ m.kind = "request"
      /\ m.thread.cycle = m.cycle
  <2>1. Thread(SELLERS[b.asked]) \in Threads
    BY <1>2, <1>3, <1>4 DEF Thread, Threads, Names
  <2> QED
    BY <1>2, <2>1 DEF Msg, Sayings, Kinds, Thread
<1> HIDE DEF m, b
<1>7. /\ said' \in {said, said \cup {m}} /\ faults' \in {faults, faults + 1}
      /\ broker' \in {[b EXCEPT !.pc = "quote"], b}
      /\ faults' = 0 => said' = said \cup {m}
  BY <1>1, SendIs
<1>8. /\ broker' \in Brokers /\ broker'.pc \in Shopping /\ broker'.cycle = broker.cycle
      /\ broker'.ask = broker.ask /\ broker'.quotes = broker.quotes
  BY <1>4, <1>5, <1>7 DEF Shopping
<1>9. BrokerOK' /\ DealOK'
  BY <1>1, <1>2, <1>8 DEF BrokerOK, DealOK, Shopping, Holding
<1>10. SellsWhatItBought'
  BY <1>1, <1>6, <1>7, SellsUnlessDelivered
<1> QED
  BY <1>1, <1>2, <1>6, <1>7, <1>8, <1>9, <1>10, BrokerSays DEF Shopping, Answers

LEMMA TellKeeps ==
    ASSUME ChainOK, BrokerInv, Tell
    PROVE  BrokerInv'
<1> DEFINE m == Msg("paid", broker.best.thread, [sig |-> Len(chain)])
<1>1. /\ broker.pc = "tell" /\ Send(m, Go("bought"), Go("failed"))
      /\ UNCHANGED <<chain, refs, inbox, heard>>
  BY DEF Tell
<1>2. BrokerOK /\ DealOK /\ broker \in Brokers /\ broker.cycle > 0 /\ broker.cycle \in Nat
  BY <1>1 DEF BrokerInv, BrokerOK, Brokers
<1>3. m \in Sayings /\ m.cycle = broker.cycle /\ m.kind = "paid"
  <2>1. broker.best.thread \in Threads /\ Len(chain) \in Nat
    BY <1>1, <1>2 DEF DealOK, Holding, Quoted, ChainOK
  <2> QED
    BY <1>2, <2>1 DEF Msg, Sayings, Kinds
<1> HIDE DEF m
<1>4. /\ said' \in {said, said \cup {m}} /\ faults' \in {faults, faults + 1}
      /\ broker' \in {Go("bought"), Go("failed")} /\ (faults' = 0 => said' = said \cup {m})
  BY <1>1, SendIs
<1>5. /\ BrokerOK' /\ DealOK' /\ broker'.cycle = broker.cycle
      /\ broker'.pc \in {"bought", "failed"}
  <2>1. CASE broker' = Go("failed")
    BY <1>1, <1>2, <2>1, GoKeeps
  <2>2. CASE broker' = Go("bought")
    <3>1. broker' \in Brokers /\ broker'.pc = "bought" /\ HoldsOn(broker')
      BY <1>2, <2>2, GoIs DEF Holding, HoldsOn
    <3>2. BrokerOK'
      BY <1>1, <1>2, <3>1 DEF BrokerOK, HoldsOn
    <3>3. DealOK'
      BY <1>1, <1>2, <3>1 DEF DealOK, BoughtFrom, Buys, Holding, HoldsOn
    <3> QED
      BY <3>1, <3>2, <3>3 DEF HoldsOn
  <2> QED
    BY <1>4, <2>1, <2>2
<1>6. SellsWhatItBought'
  BY <1>1, <1>3, <1>4, SellsUnlessDelivered
<1> QED
  BY <1>1, <1>2, <1>3, <1>4, <1>5, <1>6, BrokerSays DEF Shopping, Answers

(* The markup survives the rounding, unless the quote is tiny.             *)
LEMMA ResellIs ==
    ASSUME NEW amount \in Nat
    PROVE  Resell(amount) \in Nat /\ (amount >= 2500 => Resell(amount) >= amount)
<1>1. (12 * amount + 5000) \div 10000 \in Nat
  OBVIOUS
<1>2. 10000 * ((12 * amount + 5000) \div 10000) > 12 * amount + 5000 - 10000
  OBVIOUS
<1> QED
  BY <1>1, <1>2 DEF Resell

LEMMA ChargeKeeps ==
    ASSUME ChainOK, BrokerInv, Charge
    PROVE  BrokerInv' /\ refs' \in refs..MaxRefs
<1>1. broker.pc = "charge" /\ UNCHANGED <<chain, inbox, heard>>
  BY DEF Charge
<1>2. PICK ref \in 1..MaxRefs :
        LET c == Msg("PAYMENT_REQUIRED", broker.ask,
                     [ref |-> ref, amount |-> Resell(broker.best.body.amount)])
        IN  NewRef(ref) /\ Send(c, [Go("sell") EXCEPT !.charge = c.body], Go("backoff"))
  BY DEF Charge
<1> DEFINE body == [ref |-> ref, amount |-> Resell(broker.best.body.amount)]
           m == Msg("PAYMENT_REQUIRED", broker.ask, body)
           next == [Go("sell") EXCEPT !.charge = m.body]
<1>3. NewRef(ref) /\ Send(m, next, Go("backoff"))
  BY <1>2
<1>4. /\ BrokerOK /\ DealOK /\ broker \in Brokers /\ broker.cycle > 0 /\ broker.cycle \in Nat
      /\ broker.ask \in Threads
  BY <1>1 DEF BrokerInv, BrokerOK, Brokers
<1>5. ref = refs + 1 /\ refs' = ref /\ refs \in Nat /\ refs' \in refs..MaxRefs
  BY <1>3, Counts DEF NewRef
<1>6. body \in Charges
  <2>1. broker.best.body.amount \in Nat
    BY <1>1, <1>4, BrokerAssumption DEF DealOK, Holding, Quoted
  <2> QED
    BY <2>1, ResellIs DEF Charges
<1>7. /\ m \in Sayings /\ m.cycle = broker.cycle /\ m.kind = "PAYMENT_REQUIRED" /\ m.body = body
      /\ m = [kind |-> "PAYMENT_REQUIRED", thread |-> broker.ask, cycle |-> broker.cycle, body |-> body]
  <2> HIDE DEF body
  <2> QED
    BY <1>4, <1>6 DEF Msg, Sayings, Kinds
<1>8. m.body \in Charges /\ m.body.ref <= refs'
  BY <1>5, <1>6, <1>7
<1>9. /\ next \in Brokers /\ next.pc = "sell" /\ next.ask = broker.ask /\ next.cycle = broker.cycle
      /\ next.quotes = broker.quotes /\ next.best = broker.best /\ next.data = broker.data
      /\ next.charge = body
  <2>1. Go("sell") \in Brokers /\ Go("sell").pc = "sell" /\ HoldsOn(Go("sell"))
    BY <1>4, GoIs DEF Holding, HoldsOn
  <2> HIDE DEF m, body
  <2> QED
    BY <1>6, <1>7, <2>1 DEF Brokers, HoldsOn
<1>10. body.amount = Resell(broker.best.body.amount)
  OBVIOUS
<1> HIDE DEF m, next, body
<1>11. /\ said' \in {said, said \cup {m}} /\ faults' \in {faults, faults + 1}
       /\ (broker' = next /\ said' = said \cup {m}) \/ broker' = Go("backoff")
       /\ faults' = 0 => said' = said \cup {m} /\ broker' = next
  BY <1>3, SendIs
<1>12. /\ BrokerOK' /\ DealOK' /\ broker'.cycle = broker.cycle
       /\ broker'.pc \in {"sell", "backoff"} /\ (faults' = 0 => broker'.pc = "sell")
  <2>1. CASE broker' = Go("backoff")
    <3>1. BrokerOK' /\ DealOK' /\ broker'.pc = "backoff" /\ broker'.cycle = broker.cycle
      BY <1>1, <1>4, <2>1, GoKeeps
    <3> QED
      BY <1>9, <1>11, <3>1
  <2>2. CASE broker' = next /\ said' = said \cup {m}
    <3>1. BrokerOK'
      BY <1>1, <1>4, <1>9, <2>2 DEF BrokerOK
    <3>2. Charged' = m
      BY <1>7, <1>9, <2>2 DEF Charged
    <3>3. BoughtFrom(broker.best)'
      BY <1>1, <1>4, <1>9, <2>2 DEF DealOK, BoughtFrom, Buys, Holding
    <3>4. DealOK'
      BY <1>1, <1>4, <1>6, <1>9, <1>10, <2>2, <3>2, <3>3 DEF DealOK, Holding
    <3> QED
      BY <1>9, <2>2, <3>1, <3>4
  <2> QED
    BY <1>11, <2>1, <2>2
<1>13. SellsWhatItBought'
  BY <1>1, <1>7, <1>11, SellsUnlessDelivered
<1>14. refs' \in {refs, refs + 1}
  BY <1>5
<1>15. /\ m.kind = "request" => m.thread.cycle = m.cycle
       /\ m.kind = "PAYMENT_REQUIRED" => m.body \in Charges /\ m.body.ref <= refs'
  BY <1>7, <1>8
<1>16. /\ broker'.pc \in Shopping => broker.pc \in Shopping
       /\ broker.pc # "idle"
       /\ faults' = 0 => /\ said' = said \cup {m}
                         /\ broker'.pc # "backoff"
                         /\ m.kind \in Answers <=> broker'.pc = "idle"
  BY <1>1, <1>7, <1>11, <1>12 DEF Shopping, Answers
<1> QED
  BY <1>1, <1>4, <1>5, <1>7, <1>11, <1>12, <1>13, <1>14, <1>15, <1>16, BrokerSays

LEMMA ResoldKeeps ==
    ASSUME ChainOK, BrokerInv, Resold
    PROVE  BrokerInv'
<1> DEFINE m == Msg("DELIVERED", broker.ask, broker.data)
<1>1. /\ broker.pc = "deliver" /\ Send(m, Go("idle"), Go("backoff"))
      /\ UNCHANGED <<chain, refs, inbox, heard>>
  BY DEF Resold
<1>2. /\ BrokerOK /\ DealOK /\ broker \in Brokers /\ broker.cycle > 0 /\ broker.cycle \in Nat
      /\ broker.ask \in Threads /\ SellsWhatItBought
  BY <1>1 DEF BrokerInv, BrokerOK, Brokers
<1>3. /\ broker.best \in Quoted /\ broker.best \in heard /\ BoughtFrom(broker.best)
      /\ broker.best.thread.cycle = broker.cycle /\ broker.data = broker.best.thread
      /\ broker.charge \in Charges /\ broker.charge.amount = Resell(broker.best.body.amount)
      /\ Charged \in said /\ PaidUnder(Me, broker.charge.amount, broker.charge.ref)
  BY <1>1, <1>2 DEF DealOK, Holding
<1>4. /\ m \in Sayings /\ m.cycle = broker.cycle /\ m.kind = "DELIVERED" /\ m.thread = broker.ask
      /\ m.body = broker.best.thread
  <2>1. broker.best.thread \in Threads
    BY <1>3 DEF Quoted
  <2> QED
    BY <1>2, <1>3, <2>1 DEF Msg, Sayings, Kinds, Answers
<1> HIDE DEF m
<1>5. /\ said' \in {said, said \cup {m}} /\ faults' \in {faults, faults + 1}
      /\ broker' \in {Go("idle"), Go("backoff")}
      /\ faults' = 0 => said' = said \cup {m} /\ broker' = Go("idle")
  BY <1>1, SendIs
<1>6. /\ BrokerOK' /\ DealOK' /\ broker'.cycle = broker.cycle
      /\ broker'.pc \in {"idle", "backoff"} /\ (faults' = 0 => broker'.pc = "idle")
  BY <1>1, <1>2, <1>5, GoKeeps
<1>7. DOMAIN chain = 1..Len(chain)
  BY DEF ChainOK
<1>8. SellsWhatItBought'
  <2> DEFINE Sold(d) ==
        \E q \in heard, c \in said :
          /\ q.kind = "quote" /\ q.thread = d.body /\ q.thread.cycle = d.cycle
          /\ c.kind = "PAYMENT_REQUIRED" /\ c.cycle = d.cycle /\ c.thread = d.thread
          /\ \E i \in DOMAIN chain :
               chain[i].from = Me /\ Paid(chain[i], q.thread.with, q.body.amount, q.body.ref)
          /\ \E i \in DOMAIN chain : Paid(chain[i], Me, c.body.amount, c.body.ref)
          /\ q.body.amount >= 2500 => c.body.amount >= q.body.amount
  <2>1. \A d \in said : d.kind = "DELIVERED" => Sold(d)
    BY <1>2 DEF SellsWhatItBought
  <2>2. Sold(m)
    <3>1. broker.best.kind = "quote" /\ broker.best.body.amount \in Nat
      BY <1>3, BrokerAssumption DEF Quoted
    <3>2. /\ Charged.kind = "PAYMENT_REQUIRED" /\ Charged.cycle = broker.cycle
          /\ Charged.thread = broker.ask /\ Charged.body = broker.charge
      BY DEF Charged
    <3>3. \E i \in DOMAIN chain : Paid(chain[i], Me, Charged.body.amount, Charged.body.ref)
      BY <1>3, <1>7, <3>2 DEF PaidUnder
    <3>4. \E i \in DOMAIN chain :
             chain[i].from = Me
             /\ Paid(chain[i], broker.best.thread.with, broker.best.body.amount, broker.best.body.ref)
      BY <1>3, <1>7 DEF BoughtFrom, Buys
    <3>5. broker.best.body.amount >= 2500 => Charged.body.amount >= broker.best.body.amount
      BY <1>3, <3>1, <3>2, ResellIs
    <3> QED
      BY <1>3, <1>4, <3>1, <3>2, <3>3, <3>4, <3>5
  <2>3. \A d \in said' : d \in said \/ d = m
    BY <1>5
  <2>4. \A d \in said' : d.kind = "DELIVERED" => Sold(d)
    BY <2>1, <2>2, <2>3
  <2> QED
    BY <1>1, <1>5, <2>4 DEF SellsWhatItBought, Paid
<1> QED
  BY <1>1, <1>2, <1>4, <1>5, <1>6, <1>8, BrokerSays DEF Shopping, Answers

LEMMA BuyKeeps ==
    ASSUME ChainOK, BrokerInv, Buy
    PROVE  BrokerInv' /\ ChainStep({Me}) /\ faults' \in Nat
<1>1. PICK q \in broker.quotes :
        LET t == Transfer(Me, q.thread.with, q.body.amount, q.body.ref) IN
        \/ /\ q.body.amount <= MAX_SOL
           /\ \/ Landed(t) /\ broker' = [Go("tell") EXCEPT !.best = q]
              \/ Thrown(t) /\ broker' = PaymentThrew
        \/ broker' = Go("failed") /\ UNCHANGED <<chain, debited, faults>>
  BY DEF Buy
<1>2. broker.pc = "shop" /\ UNCHANGED <<refs, inbox, said, heard>>
  BY DEF Buy
<1>3. BrokerOK /\ broker \in Brokers /\ broker.cycle \in Nat /\ q \in Quoted /\ q \in heard
      /\ q.thread.cycle = broker.cycle
  BY DEF BrokerInv, BrokerOK, Brokers
<1>4. chain \in Seq(Transfers) /\ faults \in Nat /\ refs \in Nat
  BY Counts DEF ChainOK
<1> DEFINE t == Transfer(Me, q.thread.with, q.body.amount, q.body.ref)
<1>5. /\ t \in Transfers /\ t.from = Me /\ t.to = q.thread.with /\ t.amount = q.body.amount
      /\ t.ref = q.body.ref /\ t.ref \in Marks(refs) /\ q.kind = "quote" /\ t.amount \in Nat
  <2>1. q.body.amount \in Nat /\ q.body.ref \in 1..MaxRefs /\ q.kind = "quote"
        /\ q.thread.with \in Wallets /\ Me \in Payers
    BY <1>3, BrokerAssumption DEF Quoted, Threads, Names, Wallets
  <2>2. q.body.ref \in Marks(refs) /\ q.body.ref \in Marks(MaxRefs)
    BY <1>3, <1>4, <2>1 DEF BrokerInv, HeardOK, Marks
  <2> QED
    BY <2>1, <2>2 DEF Transfer, Transfers
<1>6. \/ /\ Land(t) /\ q.body.amount <= MAX_SOL /\ faults' \in {faults, faults + 1}
         /\ \/ broker' = [Go("tell") EXCEPT !.best = q]
            \/ broker' = Go("failed")
      \/ /\ UNCHANGED <<chain, debited>> /\ faults' \in {faults, faults + 1}
         /\ broker' = Go("failed")
  BY <1>1 DEF Landed, Thrown, Fault, PaymentThrew
<1> HIDE DEF t
<1>7. ChainStep({Me}) /\ faults' \in Nat
  BY <1>4, <1>5, <1>6 DEF ChainStep
<1>8. ASSUME broker' = Go("failed")
      PROVE  BrokerOK' /\ DealOK' /\ broker'.pc = "failed" /\ broker'.cycle = broker.cycle
  BY <1>2, <1>3, <1>8, GoKeeps
<1>9. CASE /\ UNCHANGED <<chain, debited>> /\ faults' \in {faults, faults + 1}
           /\ broker' = Go("failed")
  <2>1. faults' = 0 => faults = 0
    BY <1>4, <1>9
  <2>2. BrokerInv'
    BY <1>2, <1>4, <1>8, <1>9, <2>1, BrokerMoves DEF Reads, Shopping
  <2> QED
    BY <1>7, <2>2
<1>10. CASE /\ Land(t) /\ q.body.amount <= MAX_SOL /\ faults' \in {faults, faults + 1}
            /\ \/ broker' = [Go("tell") EXCEPT !.best = q]
               \/ broker' = Go("failed")
  <2>1. /\ chain' \in Seq(Transfers) /\ Len(chain') = Len(chain) + 1 /\ Len(chain) \in Nat
        /\ \A i \in 1..Len(chain) : chain'[i] = chain[i]
        /\ chain'[Len(chain) + 1] = t
    BY <1>4, <1>5, <1>10, Appended DEF Land
  <2>2. \A i \in 1..Len(chain') : i \in 1..Len(chain) \/ i = Len(chain) + 1
    BY <2>1
  <2>3. BrokerOK' /\ DealOK' /\ broker'.cycle = broker.cycle /\ broker'.pc \in {"tell", "failed"}
    <3>1. CASE broker' = [Go("tell") EXCEPT !.best = q]
      <4>1. Go("tell") \in Brokers /\ Go("tell").pc = "tell" /\ HoldsOn(Go("tell"))
        BY <1>3, GoIs DEF Holding, HoldsOn
      <4>2. /\ broker' \in Brokers /\ broker'.pc = "tell" /\ broker'.cycle = broker.cycle
            /\ broker'.ask = broker.ask /\ broker'.quotes = broker.quotes /\ broker'.best = q
        BY <1>3, <3>1, <4>1 DEF Brokers, HoldsOn
      <4>3. BrokerOK'
        BY <1>2, <1>3, <4>2 DEF BrokerOK
      <4>4. BoughtFrom(broker.best)'
        <5>1. Len(chain) + 1 \in 1..Len(chain')
          BY <2>1
        <5> QED
          BY <1>5, <2>1, <4>2, <5>1 DEF BoughtFrom, Buys, Paid
      <4> QED
        BY <1>2, <1>3, <4>2, <4>3, <4>4 DEF DealOK
    <3> QED
      BY <1>8, <1>10, <3>1
  <2>4. MailOK' /\ SaidOK' /\ HeardOK'
    BY <1>2, <2>3 DEF BrokerInv, MailOK, SaidOK, HeardOK
  <2>5. BoughtOK'
    <3>1. \A i \in 1..Len(chain') : Buys(i)' => chain'[i].amount <= MAX_SOL
      BY <1>5, <1>10, <2>1, <2>2 DEF BrokerInv, BoughtOK, Buys
    <3>2. \A i \in 1..Len(chain), p \in heard : PaysQuote(i, p)' <=> PaysQuote(i, p)
      BY <2>1 DEF PaysQuote, Buys
    <3>3. ASSUME NEW p \in heard, NEW i, i = Len(chain) + 1, PaysQuote(i, p)'
          PROVE  p = q
      <4>1. p.kind = "quote" /\ p.body.ref = q.body.ref
        BY <1>5, <2>1, <3>3 DEF PaysQuote
      <4> QED
        BY <1>3, <1>5, <4>1 DEF BrokerInv, HeardOK
    <3>4. \A i \in 1..Len(chain), p \in heard : PaysQuote(i, p) => p.thread.cycle # broker.cycle
      BY <1>2 DEF BrokerInv, BoughtOK, Shopping
    <3>5. ASSUME NEW i \in 1..Len(chain'), NEW j \in 1..Len(chain'), NEW p \in heard, NEW r \in heard,
                 PaysQuote(i, p)', PaysQuote(j, r)', p.thread.cycle = r.thread.cycle
          PROVE  i = j
      <4>1. CASE i \in 1..Len(chain) /\ j \in 1..Len(chain)
        BY <3>2, <3>5, <4>1 DEF BrokerInv, BoughtOK
      <4>2. CASE i = Len(chain) + 1 /\ j \in 1..Len(chain)
        <5>1. p = q
          BY <3>3, <3>5, <4>2
        <5>2. PaysQuote(j, r) /\ r.thread.cycle = broker.cycle
          BY <1>3, <3>2, <3>5, <4>2, <5>1
        <5> QED
          BY <3>4, <4>2, <5>2
      <4>3. CASE j = Len(chain) + 1 /\ i \in 1..Len(chain)
        <5>1. r = q
          BY <3>3, <3>5, <4>3
        <5>2. PaysQuote(i, p) /\ p.thread.cycle = broker.cycle
          BY <1>3, <3>2, <3>5, <4>3, <5>1
        <5> QED
          BY <3>4, <4>3, <5>2
      <4> QED
        BY <2>2, <4>1, <4>2, <4>3
    <3> QED
      BY <1>2, <2>3, <3>1, <3>5 DEF BoughtOK, Shopping
  <2>6. SellsWhatItBought'
    <3>1. ChainGrows
      BY <1>4, <2>1 DEF ChainGrows
    <3> QED
      BY <1>2, <3>1, SellsStays DEF BrokerInv
  <2>7. AnsweredOK'
    <3>1. faults' = 0 => faults = 0
      BY <1>4, <1>10
    <3> QED
      BY <1>2, <2>3, <3>1 DEF BrokerInv, AnsweredOK, AnswersTo
  <2> QED
    BY <1>7, <2>3, <2>4, <2>5, <2>6, <2>7 DEF BrokerInv
<1> QED
  BY <1>6, <1>9, <1>10

(* What customers and sellers do.                                          *)
LEMMA OthersKeep ==
    ASSUME BrokerInv, ChainOK, UNCHANGED <<broker, said, faults>>, ChainGrows,
           refs' \in refs..MaxRefs,
           \A i \in 1..Len(chain') : i \in 1..Len(chain) \/ chain'[i].from # Me,
           heard \subseteq heard', HeardOK', MailOK',
           \A q \in heard' : \/ q \in heard \/ q.kind # "quote"
                             \/ \A i \in 1..Len(chain') : chain'[i].ref # q.body.ref
    PROVE  BrokerInv'
<1>1. BrokerOK'
  BY DEF BrokerInv, BrokerOK
<1>2. SaidOK'
  <2>1. \A m \in said : m.kind = "PAYMENT_REQUIRED" => m.body \in Charges /\ m.body.ref <= refs'
    BY Counts DEF BrokerInv, SaidOK, Charges
  <2> QED
    BY <2>1 DEF BrokerInv, SaidOK
<1>3. \A i \in 1..Len(chain') : Buys(i)' => i \in 1..Len(chain) /\ Buys(i) /\ chain'[i] = chain[i]
  BY DEF Buys, ChainGrows
<1>4. \A i \in 1..Len(chain'), q \in heard' :
         PaysQuote(i, q)' => q \in heard /\ i \in 1..Len(chain) /\ PaysQuote(i, q)
  BY <1>3 DEF PaysQuote
<1>5. BoughtOK'
  BY <1>3, <1>4 DEF BrokerInv, BoughtOK
<1>6. DealOK'
  <2>1. \A q : BoughtFrom(q) => BoughtFrom(q)'
    BY DEF BoughtFrom, Buys, ChainGrows
  <2>2. \A to, amount, r : PaidUnder(to, amount, r) => PaidUnder(to, amount, r)'
    BY DEF PaidUnder, ChainGrows
  <2>3. BoughtFrom(broker.best) => BoughtFrom(broker.best)'
    BY <2>1
  <2>4. PaidUnder(Me, broker.charge.amount, broker.charge.ref)
           => PaidUnder(Me, broker.charge.amount, broker.charge.ref)'
    BY <2>2
  <2>5. Charged' = Charged
    BY DEF Charged
  <2> QED
    BY <2>3, <2>4, <2>5 DEF BrokerInv, DealOK
<1>7. SellsWhatItBought'
  BY SellsStays DEF BrokerInv
<1>8. AnsweredOK'
  BY DEF BrokerInv, AnsweredOK, AnswersTo
<1> QED
  BY <1>1, <1>2, <1>5, <1>6, <1>7, <1>8 DEF BrokerInv

LEMMA MailGrows ==
    ASSUME MailOK, heard \subseteq heard', NEW m \in Mentions, Mention(m),
           m.kind \in {"quote", "DELIVERED"} => m \in heard',
           m.kind = "request" => m.thread.cycle = 0
    PROVE  MailOK'
<1>1. inbox \in Seq(Mentions) /\ inbox' = Append(inbox, m)
  BY DEF MailOK, Mention
<1>2. /\ inbox' \in Seq(Mentions) /\ Len(inbox') = Len(inbox) + 1 /\ Len(inbox) \in Nat
      /\ \A i \in 1..Len(inbox) : inbox'[i] = inbox[i]
      /\ inbox'[Len(inbox) + 1] = m
  BY <1>1, Appended
<1>3. \A i \in 1..Len(inbox') : i \in 1..Len(inbox) \/ i = Len(inbox) + 1
  BY <1>2
<1> QED
  BY <1>2, <1>3 DEF MailOK
LEMMA CustomerAsksKeeps ==
    ASSUME ChainOK, BrokerInv, CustomerAsks
    PROVE  BrokerInv'
<1>1. PICK b \in Customers : Mention([kind |-> "request", thread |-> [with |-> b, cycle |-> 0]])
  BY DEF CustomerAsks
<1>2. UNCHANGED <<payVars, broker, said, heard>>
  BY DEF CustomerAsks
<1> DEFINE m == [kind |-> "request", thread |-> [with |-> b, cycle |-> 0]]
<1>3. m \in Mentions /\ m.kind = "request" /\ m.thread.cycle = 0
  BY DEF Mentions, Threads, Names
<1> HIDE DEF m
<1>4. MailOK'
  <2>1. MailOK /\ heard \subseteq heard' /\ Mention(m)
    BY <1>1, <1>2 DEF BrokerInv, m
  <2> QED
    BY <1>3, <2>1, MailGrows
<1>5. HeardOK'
  BY <1>2 DEF BrokerInv, HeardOK, payVars
<1>6. ChainGrows /\ (\A i \in 1..Len(chain') : i \in 1..Len(chain))
  BY <1>2 DEF ChainGrows, ChainOK, payVars
<1>7. refs' \in refs..MaxRefs
  BY <1>2 DEF ChainOK, payVars
<1> QED
  BY <1>2, <1>4, <1>5, <1>6, <1>7, OthersKeep DEF payVars

LEMMA CustomerClaimsKeeps ==
    ASSUME ChainOK, BrokerInv, CustomerClaims
    PROVE  BrokerInv' /\ ChainStep(Customers)
<1>1. UNCHANGED <<refs, broker, said, heard>>
  BY DEF CustomerClaims
<1>2. PICK b \in Customers, sig \in 0..(Len(chain) + 1) :
        /\ Mention([kind |-> "paid", thread |-> [with |-> b, cycle |-> 0], body |-> [sig |-> sig]])
        /\ \/ UNCHANGED <<chain, debited, faults>>
           \/ \E c \in said, short \in {0, 1} :
                /\ c.kind = "PAYMENT_REQUIRED" /\ short <= c.body.amount
                /\ Landed(Transfer(b, Me, c.body.amount - short, c.body.ref))
  BY DEF CustomerClaims
<1> DEFINE m == [kind |-> "paid", thread |-> [with |-> b, cycle |-> 0], body |-> [sig |-> sig]]
<1>3. chain \in Seq(Transfers) /\ Len(chain) \in Nat /\ refs \in Nat /\ refs \in 0..MaxRefs
  BY Counts DEF ChainOK
<1>4. m \in Mentions /\ m.kind = "paid"
  BY <1>3 DEF Mentions, Threads, Names
<1> HIDE DEF m
<1>5. MailOK'
  <2>1. MailOK /\ heard \subseteq heard' /\ Mention(m)
    BY <1>1, <1>2 DEF BrokerInv, m
  <2> QED
    BY <1>4, <2>1, MailGrows
<1>6. HeardOK'
  BY <1>1 DEF BrokerInv, HeardOK
<1>7. CASE UNCHANGED <<chain, debited, faults>>
  <2>1. ChainGrows /\ (\A i \in 1..Len(chain') : i \in 1..Len(chain))
    BY <1>3, <1>7 DEF ChainGrows
  <2>2. refs' \in refs..MaxRefs
    BY <1>1, <1>3
  <2>3. BrokerInv'
    BY <1>1, <1>5, <1>6, <1>7, <2>1, <2>2, OthersKeep
  <2> QED
    BY <1>7, <2>3 DEF ChainStep
<1>8. ASSUME NEW c \in said, NEW short \in {0, 1},
             c.kind = "PAYMENT_REQUIRED", short <= c.body.amount,
             Landed(Transfer(b, Me, c.body.amount - short, c.body.ref))
      PROVE  BrokerInv' /\ ChainStep(Customers)
  <2> DEFINE t == Transfer(b, Me, c.body.amount - short, c.body.ref)
  <2>1. c.body \in Charges /\ c.body.ref <= refs
    BY <1>8 DEF BrokerInv, SaidOK
  <2>2. c.body.amount - short \in Nat /\ c.body.ref \in Marks(refs) /\ c.body.ref \in Marks(MaxRefs)
    BY <1>3, <1>8, <2>1 DEF Charges, Marks
  <2>3. t \in Transfers /\ t.from = b /\ t.ref \in Marks(refs)
    BY <2>2, BrokerAssumption DEF Transfer, Transfers, Wallets
  <2>4. Land(t) /\ UNCHANGED faults
    BY <1>8 DEF Landed
  <2> HIDE DEF t
  <2>5. ChainStep(Customers)
    BY <2>3, <2>4 DEF ChainStep
  <2>6. ChainGrows
    BY <2>5, ChainOnlyGrows
  <2>7. /\ Len(chain') = Len(chain) + 1 /\ chain'[Len(chain) + 1] = t
    BY <1>3, <2>3, <2>4, Appended DEF Land
  <2>8. b # Me
    BY BrokerAssumption
  <2>9. \A i \in 1..Len(chain') : i \in 1..Len(chain) \/ chain'[i].from # Me
    BY <1>3, <2>3, <2>7, <2>8
  <2>10. refs' \in refs..MaxRefs
    BY <1>1, <1>3
  <2>11. BrokerInv'
    BY <1>1, <1>5, <1>6, <2>4, <2>6, <2>9, <2>10, OthersKeep
  <2> QED
    BY <2>5, <2>11
<1> QED
  BY <1>2, <1>7, <1>8

LEMMA SellerQuotesKeeps ==
    ASSUME ChainOK, BrokerInv, SellerQuotes
    PROVE  BrokerInv' /\ refs' \in refs..MaxRefs
<1>1. UNCHANGED <<chain, debited, faults, broker, said>>
  BY DEF SellerQuotes
<1>2. PICK m \in said, amount \in Quotes, ref \in 1..MaxRefs :
        LET q == [kind |-> "quote", thread |-> m.thread,
                  body |-> [ref |-> ref, amount |-> amount]]
        IN  /\ m.kind = "request" /\ NewRef(ref)
            /\ heard' = heard \cup {q} /\ Mention(q)
  BY DEF SellerQuotes
<1> DEFINE q == [kind |-> "quote", thread |-> m.thread,
                 body |-> [ref |-> ref, amount |-> amount]]
<1>3. m.kind = "request" /\ NewRef(ref) /\ heard' = heard \cup {q} /\ Mention(q)
  BY <1>2
<1>4. /\ m.thread \in Threads /\ m.thread.cycle > 0 /\ m.thread.cycle <= broker.cycle
  BY <1>3 DEF BrokerInv, SaidOK, Sayings
<1>5. /\ q \in Quoted /\ q.kind = "quote" /\ q.thread = m.thread /\ q.body.ref = ref
  BY <1>4 DEF Quoted
<1> HIDE DEF q
<1>6. ref = refs + 1 /\ refs' = ref /\ refs \in Nat /\ refs' \in refs..MaxRefs
  BY <1>3, Counts DEF NewRef
<1>7. q \in Mentions
  BY <1>5 DEF Mentions
<1>8. MailOK'
  <2>1. MailOK /\ heard \subseteq heard' /\ q \in heard'
    BY <1>3 DEF BrokerInv
  <2> QED
    BY <1>3, <1>5, <1>7, <2>1, MailGrows
<1>9. HeardOK'
  <2>1. \A p \in heard : p.kind = "quote" => p \in Quoted /\ p.body.ref <= refs
    BY DEF BrokerInv, HeardOK, Deliveries
  <2>2. \A p \in heard : p.kind = "quote" => p.body.ref < refs' /\ p.body.ref # ref
    BY <1>6, <2>1 DEF Quoted
  <2>3. \A p \in heard' : p \in heard \/ p = q
    BY <1>3
  <2>4. heard' \subseteq Quoted \cup Deliveries
    BY <1>5, <2>3 DEF BrokerInv, HeardOK
  <2>5. \A d \in heard' : d.kind = "DELIVERED" => d.body = d.thread
    BY <1>5, <2>3 DEF BrokerInv, HeardOK
  <2>6. ASSUME NEW x \in heard', x.kind = "quote"
        PROVE  /\ x.thread.cycle > 0 /\ x.thread.cycle <= broker.cycle
               /\ x.body.ref <= refs'
               /\ \A p \in heard' : p.kind = "quote" /\ p.body.ref = x.body.ref => p = x
    <3>1. CASE x = q
      BY <1>4, <1>5, <1>6, <2>2, <2>3, <3>1
    <3>2. CASE x \in heard
      <4>1. \A p \in heard : p.kind = "quote" /\ p.body.ref = x.body.ref => p = x
        BY <2>6, <3>2 DEF BrokerInv, HeardOK
      <4>2. x.body.ref # ref /\ x.body.ref < refs' /\ x \in Quoted
        BY <2>1, <2>2, <2>6, <3>2
      <4>3. x.body.ref <= refs'
        BY <1>6, <4>2 DEF Quoted
      <4> QED
        BY <1>5, <2>3, <2>6, <3>2, <4>1, <4>2, <4>3 DEF BrokerInv, HeardOK
    <3> QED
      BY <2>3, <3>1, <3>2
  <2> QED
    BY <1>1, <2>4, <2>5, <2>6 DEF HeardOK
<1>10. ChainGrows /\ (\A i \in 1..Len(chain') : i \in 1..Len(chain))
  BY <1>1 DEF ChainGrows, ChainOK
<1>11. \A i \in 1..Len(chain') : chain'[i].ref # ref
  BY <1>1, <1>6, PaymentsAssumption DEF ChainOK, Marks
<1>12. \A x \in heard' : x \in heard \/ x = q
  BY <1>3
<1>13. \A x \in heard' : \/ x \in heard \/ x.kind # "quote"
                          \/ \A i \in 1..Len(chain') : chain'[i].ref # x.body.ref
  BY <1>5, <1>11, <1>12
<1>14. heard \subseteq heard'
  BY <1>3
<1> QED
  BY <1>1, <1>6, <1>8, <1>9, <1>10, <1>13, <1>14, OthersKeep

LEMMA SellerDeliversKeeps ==
    ASSUME ChainOK, BrokerInv, SellerDelivers
    PROVE  BrokerInv'
<1>1. UNCHANGED <<payVars, broker, said>>
  BY DEF SellerDelivers
<1>2. PICK m \in said :
        LET d == [kind |-> "DELIVERED", thread |-> m.thread, body |-> m.thread]
        IN  heard' = heard \cup {d} /\ Mention(d)
  BY DEF SellerDelivers
<1> DEFINE d == [kind |-> "DELIVERED", thread |-> m.thread, body |-> m.thread]
<1>3. heard' = heard \cup {d} /\ Mention(d)
  BY <1>2
<1>4. d \in Deliveries /\ d.kind = "DELIVERED" /\ d.body = d.thread
  BY DEF BrokerInv, SaidOK, Sayings, Deliveries
<1> HIDE DEF d
<1>5. \A x \in heard' : x \in heard \/ x = d
  BY <1>3
<1>6. MailOK'
  <2>1. MailOK /\ heard \subseteq heard' /\ d \in heard' /\ d \in Mentions
    BY <1>3, <1>4 DEF BrokerInv, Mentions
  <2> QED
    BY <1>3, <1>4, <2>1, MailGrows
<1>7. HeardOK'
  BY <1>1, <1>4, <1>5 DEF BrokerInv, HeardOK, payVars
<1>8. ChainGrows /\ (\A i \in 1..Len(chain') : i \in 1..Len(chain))
  BY <1>1 DEF ChainGrows, ChainOK, payVars
<1>9. refs' \in refs..MaxRefs
  BY <1>1 DEF ChainOK, payVars
<1>10. heard \subseteq heard' /\ \A x \in heard' : x \in heard \/ x.kind # "quote"
  BY <1>3, <1>4, <1>5
<1> QED
  BY <1>1, <1>6, <1>7, <1>8, <1>9, <1>10, OthersKeep DEF payVars

LEMMA BrokerKeeps ==
    ASSUME ChainOK, BrokerInv, BrokerStep \/ BrokerEvent
    PROVE  /\ BrokerInv' /\ UNCHANGED demo
           /\ ChainStep(Customers \cup {Me})
           /\ refs' \in refs..MaxRefs /\ faults' \in Nat
<1>1. refs \in refs..MaxRefs /\ faults \in Nat
  BY Counts
<1>2. CASE \/ NoSellers \/ UpstreamFailed \/ NotVerified
           \/ AskSeller \/ Tell \/ Resold
  <2>1. BrokerInv'
    BY <1>2, EndsKeep, AskSellerKeeps, TellKeeps, ResoldKeeps
  <2>2. /\ UNCHANGED <<demo, chain, debited, refs>>
        /\ UNCHANGED faults \/ Fault
    BY <1>2 DEF NoSellers, UpstreamFailed, NotVerified, AskSeller, Tell, Resold, Send
  <2>3. faults' \in Nat
    BY <1>1, <2>2 DEF Fault
  <2> QED
    BY <1>1, <2>1, <2>2, <2>3 DEF ChainStep
<1>3. CASE \/ TakeRequest \/ HearQuote \/ HearDelivery \/ HearProof \/ Backoff
           \/ CustomerAsks \/ SellerDelivers
  <2>1. BrokerInv'
    BY <1>3, TakeRequestKeeps, HearQuoteKeeps, HearDeliveryKeeps, HearProofKeeps,
       BackoffKeeps, CustomerAsksKeeps, SellerDeliversKeeps
  <2>2. UNCHANGED payVars
    BY <1>3 DEF TakeRequest, HearQuote, HearDelivery, HearProof, Backoff, CustomerAsks,
       SellerDelivers
  <2> QED
    BY <1>1, <2>1, <2>2 DEF ChainStep, payVars
<1>4. CASE Buy
  <2>1. UNCHANGED <<demo, refs>>
    BY <1>4 DEF Buy
  <2> QED
    BY <1>1, <1>4, <2>1, BuyKeeps DEF ChainStep
<1>5. CASE Charge
  <2>1. /\ UNCHANGED <<demo, chain, debited>>
        /\ UNCHANGED faults \/ Fault
    BY <1>5 DEF Charge, Send
  <2>2. faults' \in Nat
    BY <1>1, <2>1 DEF Fault
  <2> QED
    BY <1>5, <2>1, <2>2, ChargeKeeps DEF ChainStep
<1>6. CASE CustomerClaims
  <2>1. UNCHANGED <<demo, refs, faults>>
    BY <1>6 DEF CustomerClaims, Landed
  <2> QED
    BY <1>1, <1>6, <2>1, CustomerClaimsKeeps DEF ChainStep
<1>7. CASE SellerQuotes
  <2>1. UNCHANGED <<demo, chain, debited, faults>>
    BY <1>7 DEF SellerQuotes
  <2> QED
    BY <1>1, <1>7, <2>1, SellerQuotesKeeps DEF ChainStep
<1> QED
  BY <1>2, <1>3, <1>4, <1>5, <1>6, <1>7 DEF BrokerStep, BrokerEvent
-----------------------------------------------------------------------------
(* The proxy: what a settlement has locked and paid at each place, and why *)
(* a board that was shown of late is still at hand.                        *)
Settling == {"deposit", "config", "init", "fund", "topup", "open", "release"}
Handling ==
    {r \in [pc : {"rest", "subscribe", "activate", "get", "scan", "join"} \cup Settling,
            kind : {"get", "board", "settle", "edge"}, direct : BOOLEAN,
            with : Handlers \cup {None}, locked : Nat, paid : Nat, ok : BOOLEAN,
            dark : {FALSE}] : r.direct => r.kind = "settle"}

SettledSoFar(r, n) ==
    IF r.pc = "rest" THEN r.ok => r.paid >= 1 /\ (n = 0 => r.paid = 1 /\ r.locked = 0)
    ELSE n = 0 => r.paid = 0 /\ r.locked = IF r.pc = "release" THEN 1 ELSE 0

IsHandler(r, n) ==
    /\ r \in Handling
    /\ r.pc = "release" => r.locked > 0
    /\ r.pc = "join" => r.with # None
    /\ r.kind = "settle" => r.with = None /\ SettledSoFar(r, n)

HandlersOK ==
    /\ DOMAIN handlers = Handlers
    /\ \A h \in Handlers : IsHandler(handlers[h], faults)

BoardOK ==
    /\ board \in [has : BOOLEAN, age : Fresh..Old] /\ shown \in Fresh..Old
    /\ shown # Old => board.has /\ board.age = shown

OracleInv == HandlersOK /\ BoardOK

(* The bridge: a thread opens with the request of one order, and the       *)
(* orders and the calls about them name threads of answered orders.        *)
Messages == [kind : {"request", "PAYMENT_REQUIRED", "DELIVERED", "paid"},
             ref : Offers \cup {None}, has : Prompts \cup {None}]

ThreadOK(s) == s \in Seq(Messages) /\ s # <<>> /\ \A i \in 2..Len(s) : s[i].has = None

Marked(m, marker) == marker \in {m.kind, m.has}

FoundAt(t, marker, i) ==
    /\ t \in 1..Len(threads) /\ i \in 1..Len(threads[t]) /\ Marked(threads[t][i], marker)
    /\ \A j \in 1..(i - 1) : ~Marked(threads[t][j], marker)

SessionOK ==
    /\ sessions \in Nat /\ creating \in Nat
    /\ \/ session \in {"none", "rejected"} /\ creating = 0 /\ sessions <= faults
       \/ session = "made" /\ creating = 1 /\ sessions <= faults
       \/ session = "ready" /\ creating = 0 /\ sessions <= 1 + faults

ThreadsOK ==
    /\ threads \in Seq(Seq(Messages))
    /\ \A t \in 1..Len(threads) : ThreadOK(threads[t])

IsPlaced(ref, t) == \E o \in Posts : Placed(o, ref, t)

OrdersOK ==
    /\ orders \in [Offers -> Nat]
    /\ \A ref \in Offers : orders[ref] # 0 => IsPlaced(ref, orders[ref])

Places == {"session", "poll", "ok", "502"}
OrderPosts == [pc : Places, op : {"order"}, prompt : Prompts, thread : Nat,
               ref : Offers \cup {None}]
PaidPosts == [pc : Places, op : {"paid"}, thread : Nat, ref : Offers,
              data : (Nat \X Nat) \cup {None}]
LostPosts == [pc : {"404", "400"}, op : {"paid"}, thread : Nat, ref : Offers, data : {None}]
DoorNames == {"autonomous", "swarm"}
DoorPosts == [pc : {"400", "launch", "feed", "ok", "502"}, op : {"start", "feed"},
              door : DoorNames, sid : Nat]

OrderOK(p) ==
    /\ p \in OrderPosts /\ p.thread \in 0..Len(threads)
    /\ p.pc = "session" => p.thread = 0
    /\ p.pc \in {"poll", "ok"} => p.thread # 0

PaidOK(p) ==
    /\ p \in PaidPosts /\ p.thread \in 1..Len(threads) /\ IsPlaced(p.ref, p.thread)
    /\ p.pc = "ok" => \E i \in Nat : p.data = <<p.thread, i>> /\ FoundAt(p.thread, "DELIVERED", i)

(* Without a race a door has one start under way, none once it has a       *)
(* session, and what it answered names that session.                       *)
DoorOK(p) ==
    /\ p \in DoorPosts
    /\ p.pc = "feed" => p.op = "feed"
    /\ ~doors[p.door].raced =>
          /\ p.pc = "launch" => doors[p.door].sid = 0
          /\ p.op = "start" /\ p.pc = "ok" => p.sid = doors[p.door].sid /\ p.sid # 0
          /\ p.op = "feed" => p.sid \in {0, doors[p.door].sid}

PostOK(p) == p = Unposted \/ OrderOK(p) \/ PaidOK(p) \/ p \in LostPosts \/ DoorOK(p)

(* No two orders share a thread.                                           *)
ThreadOfOne ==
    \A a, b \in Posts :
       /\ post[a] \in OrderPosts /\ post[b] \in OrderPosts
       /\ post[a].thread # 0 /\ post[a].thread = post[b].thread
       => a = b

PostsOK ==
    /\ DOMAIN post = Posts
    /\ \A c \in Posts : PostOK(post[c])
    /\ ThreadOfOne

DoorsOK ==
    /\ doors \in [DoorNames -> [sid : Nat, opened : Nat, raced : BOOLEAN]]
    /\ \A d \in DoorNames : ~doors[d].raced =>
          /\ \A b, c \in Starting(d) : b = c
          /\ doors[d].opened <= faults + (IF doors[d].sid = 0 THEN 0 ELSE 1)

BridgeInv == SessionOK /\ ThreadsOK /\ OrdersOK /\ PostsOK /\ DoorsOK

BridgeRests ==
    /\ sessions = 0
    /\ post = [c \in Posts |-> Unposted]
    /\ doors = [d \in DoorNames |-> [sid |-> 0, opened |-> 0, raced |-> FALSE]]
OracleRests == handlers = [h \in Handlers |-> New("get")]

PayInv ==
    /\ ChainOK
    /\ IF demo = "quickstart" THEN PurchaseInv ELSE PurchaseRests
    /\ IF demo = "swarm" THEN BrokerInv ELSE BrokerRests
    /\ IF demo = "web" THEN BridgeInv ELSE BridgeRests
    /\ IF demo = "oracle" THEN OracleInv ELSE OracleRests
-----------------------------------------------------------------------------
(* The proxy.                                                              *)

Begun(r, n) ==
    /\ r \in Handling
    /\ r.kind = "settle" => r.with = None /\ (n = 0 => r.paid = 0 /\ r.locked = 0)

LEMMA AnsweredIs ==
    ASSUME NEW r \in Handling, NEW n, NEW ok \in BOOLEAN,
           r.kind = "settle" => r.with = None /\ ~ok
    PROVE  IsHandler(Answered(r, ok), n)
<1>1. /\ Answered(r, ok) \in Handling /\ Answered(r, ok).pc = "rest"
      /\ Answered(r, ok).ok = ok /\ Answered(r, ok).kind = r.kind
      /\ Answered(r, ok).with = r.with
  BY DEF Answered, Handling
<1> QED
  BY <1>1 DEF IsHandler, SettledSoFar

LEMMA GoesTo ==
    ASSUME NEW n, NEW r, Begun(r, n),
           NEW pc \in {"subscribe", "activate", "get", "scan", "join"} \cup (Settling \ {"release"}),
           pc = "join" => r.with # None
    PROVE  IsHandler([r EXCEPT !.pc = pc], n)
<1> DEFINE to == [r EXCEPT !.pc = pc]
<1>1. /\ to \in Handling /\ to.pc = pc /\ to.with = r.with /\ to.kind = r.kind
      /\ to.locked = r.locked /\ to.paid = r.paid
  BY DEF Handling, Begun
<1> HIDE DEF to
<1>2. IsHandler(to, n)
  BY <1>1 DEF IsHandler, SettledSoFar, Begun, Settling
<1> QED
  BY <1>2 DEF to

LEMMA WithBoardIs ==
    ASSUME NEW n, NEW r, Begun(r, n)
    PROVE  IsHandler(WithBoard(r, FALSE), n)
<1>1. CASE r.kind # "settle"
  <2>1. WithBoard(r, FALSE) = Answered([r EXCEPT !.dark = FALSE], TRUE)
    BY <1>1 DEF WithBoard, Begun, Handling
  <2>2. [r EXCEPT !.dark = FALSE] \in Handling /\ [r EXCEPT !.dark = FALSE].kind = r.kind
    BY DEF Begun, Handling
  <2> QED
    BY <1>1, <2>1, <2>2, AnsweredIs
<1>2. CASE r.kind = "settle"
  <2>1. WithBoard(r, FALSE) \in {[r EXCEPT !.pc = "deposit"], [r EXCEPT !.pc = "config"]}
    BY <1>2 DEF WithBoard
  <2>2. IsHandler([r EXCEPT !.pc = "deposit"], n) /\ IsHandler([r EXCEPT !.pc = "config"], n)
    BY GoesTo DEF Settling
  <2> QED
    BY <2>1, <2>2
<1> QED
  BY <1>1, <1>2

LEMMA TxGetIs ==
    ASSUME NEW n, NEW r, Begun(r, n)
    PROVE  IsHandler(TxGet(r), n)
  BY GoesTo DEF TxGet

LEMMA BoardIs ==
    ASSUME NEW n, NEW r, Begun(r, n)
    PROVE  IsHandler(Board(r), n)
  BY WithBoardIs, TxGetIs DEF Board

LEMMA FailedIs ==
    ASSUME NEW n, NEW r, Begun(r, n)
    PROVE  IsHandler(Failed(r), n)
<1>1. CASE r.kind = "settle" /\ ~r.direct
  <2>1. Failed(r) = Board([r EXCEPT !.direct = TRUE])
    BY <1>1 DEF Failed, Begun
  <2>2. Begun([r EXCEPT !.direct = TRUE], n)
    BY <1>1 DEF Begun, Handling
  <2> QED
    BY <2>1, <2>2, BoardIs
<1>2. CASE ~(r.kind = "settle" /\ ~r.direct) /\ r.with # None
  <2>1. Failed(r) = [r EXCEPT !.pc = "join"]
    BY <1>2 DEF Failed
  <2> QED
    BY <1>2, <2>1, GoesTo
<1>3. CASE ~(r.kind = "settle" /\ ~r.direct) /\ r.with = None
  <2>1. Failed(r) = Answered(r, FALSE)
    BY <1>3 DEF Failed
  <2> QED
    BY <2>1, AnsweredIs DEF Begun
<1> QED
  BY <1>1, <1>2, <1>3

LEMMA NewIs ==
    ASSUME NEW n, NEW kind \in {"get", "board", "settle", "edge"}
    PROVE  Begun(New(kind), n) /\ New(kind).kind = kind /\ New(kind).pc = "rest"
  BY DEF New, Begun, Handling

LEMMA IsBegun ==
    ASSUME NEW n, NEW r, IsHandler(r, n), r.pc \notin {"rest", "release"}
    PROVE  Begun(r, n)
  BY DEF IsHandler, Begun, SettledSoFar

LEMMA LaterHandler ==
    ASSUME NEW n \in Nat, NEW k \in {n, n + 1}, NEW r, IsHandler(r, n)
    PROVE  IsHandler(r, k)
  BY DEF IsHandler, SettledSoFar

(* One handler moves.                                                      *)
LEMMA HandlerMoves ==
    ASSUME ChainOK, HandlersOK, faults' \in {faults, faults + 1}, NEW h \in Handlers,
           NEW r, Set(h, r), IsHandler(r, faults')
    PROVE  HandlersOK'
<1>1. faults \in Nat
  BY Counts
<1>2. \A g \in Handlers : IsHandler(handlers[g], faults')
  BY <1>1, LaterHandler DEF HandlersOK
<1>3. /\ DOMAIN handlers' = Handlers /\ handlers'[h] = r
      /\ \A g \in Handlers : g # h => handlers'[g] = handlers[g]
  BY DEF HandlersOK, Set
<1> QED
  BY <1>2, <1>3 DEF HandlersOK

LEMMA RequestKeeps ==
    ASSUME ChainOK, HandlersOK, NEW h \in Handlers, Request(h)
    PROVE  HandlersOK'
<1>1. faults' \in {faults, faults + 1}
  BY DEF Request, payVars
<1>2. PICK r : Set(h, r) /\ r \in {TxGet(New("get")), Board(New("board")),
                                 Board([New("settle") EXCEPT !.direct = ~arbiter.key])}
  BY DEF Request
<1>3. IsHandler(TxGet(New("get")), faults') /\ IsHandler(Board(New("board")), faults')
  BY NewIs, TxGetIs, BoardIs
<1>4. Begun([New("settle") EXCEPT !.direct = ~arbiter.key], faults')
  BY NewIs DEF Begun, Handling
<1>5. IsHandler(r, faults')
  BY <1>2, <1>3, <1>4, BoardIs
<1> QED
  BY <1>1, <1>2, <1>5, HandlerMoves

LEMMA EdgeKeeps ==
    ASSUME ChainOK, HandlersOK, NEW h \in Handlers, NEW g \in Handlers, Edge(h, g)
    PROVE  HandlersOK'
<1>1. faults' = faults
  BY DEF Edge, payVars
<1> DEFINE both == [handlers EXCEPT
              ![h] = TxGet([New("edge") EXCEPT !.with = g]), ![g] = TxGet(New("get"))]
<1>2. handlers' = both
  BY DEF Edge
<1>3. Begun([New("edge") EXCEPT !.with = g], faults)
  BY NewIs DEF Begun, Handling
<1>4. IsHandler(TxGet([New("edge") EXCEPT !.with = g]), faults)
  BY <1>3, TxGetIs
<1>5. IsHandler(TxGet(New("get")), faults)
  BY NewIs, TxGetIs
<1> QED
  BY <1>1, <1>2, <1>4, <1>5 DEF HandlersOK

LEMMA JoinKeeps ==
    ASSUME ChainOK, HandlersOK, NEW h \in Handlers, Join(h)
    PROVE  HandlersOK'
<1>1. faults' \in {faults, faults + 1}
  BY DEF Join, payVars
<1> DEFINE r == [handlers[h] EXCEPT !.with = None]
<1>2. PICK ok, s : /\ ok = handlers[handlers[h].with].ok /\ Set(h, s)
                   /\ s = Answered(r, ok) \/ s = Board(r)
  BY DEF Join
<1>3. handlers[h] \in Handling /\ handlers[h].kind # "settle" /\ handlers[h].with \in Handlers
  BY DEF Join, At, HandlersOK, IsHandler, Handling
<1>4. ok \in BOOLEAN
  BY <1>2, <1>3 DEF HandlersOK, IsHandler, Handling
<1>5. r \in Handling /\ r.kind # "settle"
  BY <1>3 DEF Handling
<1>6. Begun(r, faults')
  BY <1>5 DEF Begun
<1> HIDE DEF r
<1>7. IsHandler(s, faults')
  BY <1>2, <1>4, <1>5, <1>6, AnsweredIs, BoardIs
<1> QED
  BY <1>1, <1>2, <1>7, HandlerMoves

(* A handler that has not settled goes on, or fails.                       *)
LEMMA GoesOn ==
    ASSUME ChainOK, HandlersOK, NEW h \in Handlers, faults' \in {faults, faults + 1},
           handlers[h].pc \notin {"rest", "release"},
           \/ Set(h, Failed(handlers[h]))
           \/ \E pc \in {"subscribe", "activate", "get", "scan", "join"} \cup (Settling \ {"release"}) :
                 To(h, pc) /\ (pc = "join" => handlers[h].with # None)
    PROVE  HandlersOK'
<1>1. faults \in Nat
  BY Counts
<1>2. Begun(handlers[h], faults')
  BY <1>1, IsBegun, LaterHandler DEF HandlersOK
<1>3. CASE Set(h, Failed(handlers[h]))
  BY <1>2, <1>3, FailedIs, HandlerMoves
<1>4. CASE \E pc \in {"subscribe", "activate", "get", "scan", "join"} \cup (Settling \ {"release"}) :
             To(h, pc) /\ (pc = "join" => handlers[h].with # None)
  BY <1>2, <1>4, GoesTo, HandlerMoves DEF To
<1> QED
  BY <1>3, <1>4

LEMMA CallsKeep ==
    ASSUME ChainOK, HandlersOK, NEW h \in Handlers,
           \/ Subscribe(h) \/ Activate(h) \/ Configure(h) \/ InitConfig(h)
           \/ Funded(h) \/ TopUp(h)
    PROVE  HandlersOK'
<1> DEFINE Goes(pc) ==
      /\ faults' \in {faults, faults + 1}
      /\ handlers[h].pc \notin {"rest", "release"}
      /\ \/ Set(h, Failed(handlers[h]))
         \/ To(h, pc)
<1>1. CASE Subscribe(h)
  <2>1. Goes("activate")
    BY <1>1 DEF Subscribe, At, Fault
  <2> QED
    BY <2>1, GoesOn
<1>2. CASE Activate(h)
  <2>1. Goes("get")
    BY <1>2 DEF Activate, At, Fault
  <2> QED
    BY <2>1, GoesOn
<1>3. CASE Configure(h)
  <2>1. Goes("fund") \/ Goes("init")
    BY <1>3 DEF Configure, At, Fault
  <2> QED
    BY <2>1, GoesOn DEF Settling
<1>4. CASE InitConfig(h)
  <2>1. Goes("fund")
    BY <1>4 DEF InitConfig, At, Fault
  <2> QED
    BY <2>1, GoesOn DEF Settling
<1>5. CASE Funded(h)
  <2>1. Goes("open") \/ Goes("topup")
    BY <1>5 DEF Funded, At, Fault
  <2> QED
    BY <2>1, GoesOn DEF Settling
<1>6. CASE TopUp(h)
  <2>1. Goes("open")
    BY <1>6 DEF TopUp, At, Fault
  <2> QED
    BY <2>1, GoesOn DEF Settling
<1> QED
  BY <1>1, <1>2, <1>3, <1>4, <1>5, <1>6

LEMMA GotKeeps ==
    ASSUME ChainOK, HandlersOK, NEW h \in Handlers, Got(h)
    PROVE  HandlersOK'
<1>1. handlers[h].pc = "get" /\ faults' \in {faults, faults + 1}
  BY DEF Got, At, Fault
<1>2. \/ handlers[h].kind = "get" /\ Set(h, Answered(handlers[h], TRUE))
      \/ handlers[h].with # None /\ To(h, "join")
      \/ To(h, "scan")
      \/ Set(h, Failed(handlers[h]))
  BY DEF Got
<1>3. CASE handlers[h].kind = "get" /\ Set(h, Answered(handlers[h], TRUE))
  <2>1. handlers[h] \in Handling
    BY DEF HandlersOK, IsHandler
  <2>2. IsHandler(Answered(handlers[h], TRUE), faults')
    BY <1>3, <2>1, AnsweredIs
  <2> QED
    BY <1>1, <1>3, <2>2, HandlerMoves
<1>4. CASE handlers[h].with # None /\ To(h, "join")
  BY <1>1, <1>4, GoesOn
<1>5. CASE To(h, "scan")
  BY <1>1, <1>5, GoesOn
<1>6. CASE Set(h, Failed(handlers[h]))
  BY <1>1, <1>6, GoesOn
<1> QED
  BY <1>2, <1>3, <1>4, <1>5, <1>6

(* The board.                                                              *)
LEMMA ScannedKeeps ==
    ASSUME ChainOK, OracleInv, NEW h \in Handlers, Scanned(h)
    PROVE  OracleInv'
<1>1. PICK found \in BOOLEAN :
        LET live == found \/ (board.has /\ board.age # Old) IN
        /\ board' = Cached(found)
        /\ shown' = IF found THEN Fresh ELSE shown
        /\ Set(h, WithBoard(handlers[h], ~live /\ shown # Old))
  BY DEF Scanned
<1>2. handlers[h].pc = "scan" /\ UNCHANGED faults
  BY DEF Scanned, At, payVars
<1>3. BoardOK'
  BY <1>1 DEF OracleInv, BoardOK, Cached, Fresh, Old
<1>4. (~(found \/ (board.has /\ board.age # Old)) /\ shown # Old) = FALSE
  BY DEF OracleInv, BoardOK
<1>5. Set(h, WithBoard(handlers[h], FALSE))
  BY <1>1, <1>4
<1>6. IsHandler(WithBoard(handlers[h], FALSE), faults')
  BY <1>2, IsBegun, WithBoardIs DEF OracleInv, HandlersOK
<1> QED
  BY <1>2, <1>3, <1>5, <1>6, HandlerMoves DEF OracleInv

LEMMA TickKeeps ==
    ASSUME OracleInv, Tick
    PROVE  OracleInv'
<1>1. HandlersOK'
  BY DEF OracleInv, Tick, HandlersOK, payVars
<1>2. board' = [board EXCEPT !.age = Later(@)] /\ shown' = Later(shown)
  BY DEF Tick
<1>3. board'.has = board.has /\ board'.age = Later(board.age) /\ board' \in [has : BOOLEAN, age : Fresh..Old]
  BY <1>2 DEF OracleInv, BoardOK, Later, Fresh, Old
<1>4. BoardOK'
  BY <1>2, <1>3 DEF OracleInv, BoardOK, Later, Fresh, Old
<1> QED
  BY <1>1, <1>4 DEF OracleInv

LEMMA RestartProxyKeeps ==
    ASSUME ChainOK, OracleInv, RestartProxy
    PROVE  OracleInv'
<1>1. faults \in Nat /\ faults' = faults + 1
  BY Counts DEF RestartProxy, Fault
<1>2. BoardOK'
  BY DEF RestartProxy, BoardOK, Fresh, Old
<1>3. handlers' = [h \in Handlers |->
         IF At(h, "rest") THEN handlers[h]
         ELSE [Answered(handlers[h], FALSE) EXCEPT !.with = None]]
  BY DEF RestartProxy
<1>4. ASSUME NEW h \in Handlers
      PROVE  IsHandler(handlers'[h], faults')
  <2>1. IsHandler(handlers[h], faults') /\ handlers[h] \in Handling
    BY <1>1, LaterHandler DEF OracleInv, HandlersOK, IsHandler
  <2> DEFINE r == Answered(handlers[h], FALSE)
             s == [r EXCEPT !.with = None]
  <2>2. r \in Handling /\ r.pc = "rest" /\ ~r.ok
    BY <2>1 DEF Answered, Handling
  <2> HIDE DEF r
  <2>3. s \in Handling /\ s.pc = "rest" /\ ~s.ok /\ s.with = None
    BY <2>2 DEF Handling
  <2>4. IsHandler(s, faults')
    <3> HIDE DEF s
    <3> QED
      BY <2>3 DEF IsHandler, SettledSoFar
  <2>5. handlers'[h] \in {handlers[h], s}
    BY <1>3 DEF r
  <2> QED
    BY <2>1, <2>4, <2>5
<1> QED
  BY <1>2, <1>3, <1>4 DEF OracleInv, HandlersOK

(* Locking and paying.                                                     *)
LEMMA Locks ==
    ASSUME NEW r \in Handling, NEW s, s = [r EXCEPT !.locked = @ + 1]
    PROVE  /\ s \in Handling /\ s.locked = r.locked + 1 /\ s.paid = r.paid
           /\ s.kind = r.kind /\ s.with = r.with
<1>1. r.locked \in Nat /\ r.locked + 1 \in Nat
  BY DEF Handling
<1> QED
  BY <1>1 DEF Handling

LEMMA Pays ==
    ASSUME NEW r \in Handling, r.locked > 0, NEW s, s = [r EXCEPT !.locked = @ - 1, !.paid = @ + 1]
    PROVE  /\ s \in Handling /\ s.locked = r.locked - 1 /\ s.paid = r.paid + 1
           /\ s.kind = r.kind /\ s.with = r.with
<1>1. r.locked - 1 \in Nat /\ r.paid + 1 \in Nat
  BY DEF Handling
<1> QED
  BY <1>1 DEF Handling

LEMMA OpenKeeps ==
    ASSUME ChainOK, HandlersOK, NEW h \in Handlers, Open(h)
    PROVE  HandlersOK'
<1>1. PICK r, done, next :
        /\ r = handlers[h] /\ done = [r EXCEPT !.locked = @ + 1]
        /\ next = [done EXCEPT !.pc = "release"]
  OBVIOUS
<1>2. \/ Set(h, next) /\ faults' = faults
      \/ Set(h, Failed(done)) /\ faults' = faults + 1
      \/ Set(h, Failed(r)) /\ faults' = faults + 1
  BY <1>1 DEF Open, Transact, Fault
<1>3. faults \in Nat /\ Begun(r, faults) /\ r \in Handling /\ r.locked \in Nat /\ r.locked + 1 > 0
  <2>1. faults \in Nat /\ IsHandler(r, faults) /\ r.pc \in {"open", "deposit"}
    BY <1>1, Counts DEF Open, At, HandlersOK
  <2>2. Begun(r, faults)
    BY <2>1, IsBegun
  <2>3. r \in Handling /\ r.locked \in Nat
    BY <2>1 DEF IsHandler, Handling
  <2> QED
    BY <2>1, <2>2, <2>3
<1>4. done \in Handling /\ next \in Handling /\ next.pc = "release"
      /\ done.locked = r.locked + 1 /\ next.locked = r.locked + 1
      /\ done.kind = r.kind /\ next.kind = r.kind /\ done.with = r.with /\ next.with = r.with
      /\ next.paid = r.paid
  <2>1. /\ done \in Handling /\ done.locked = r.locked + 1 /\ done.paid = r.paid
        /\ done.kind = r.kind /\ done.with = r.with
    BY <1>1, <1>3, Locks
  <2>2. /\ next \in Handling /\ next.pc = "release" /\ next.locked = done.locked
        /\ next.paid = done.paid /\ next.kind = done.kind /\ next.with = done.with
    <3>1. done \in Handling
      BY <2>1
    <3>2. next = [done EXCEPT !.pc = "release"]
      BY <1>1
    <3> QED
      BY <3>1, <3>2 DEF Handling, Settling
  <2> QED
    BY <2>1, <2>2
<1>5. IsHandler(next, faults)
  BY <1>3, <1>4 DEF IsHandler, SettledSoFar, Begun
<1>6. Begun(done, faults + 1) /\ Begun(r, faults + 1)
  BY <1>3, <1>4 DEF Begun
<1>7. IsHandler(Failed(done), faults + 1) /\ IsHandler(Failed(r), faults + 1)
  BY <1>6, FailedIs
<1> QED
  BY <1>2, <1>5, <1>7, HandlerMoves

LEMMA ReleaseKeeps ==
    ASSUME ChainOK, HandlersOK, NEW h \in Handlers, Release(h)
    PROVE  HandlersOK'
<1>1. PICK r, done, next :
        /\ r = handlers[h] /\ done = [r EXCEPT !.locked = @ - 1, !.paid = @ + 1]
        /\ next = [done EXCEPT !.pc = "rest"]
  OBVIOUS
<1>2. \/ Set(h, next) /\ faults' = faults
      \/ Set(h, Failed(done)) /\ faults' = faults + 1
      \/ Set(h, Failed(r)) /\ faults' = faults + 1
  BY <1>1 DEF Release, Transact, Fault
<1>3. /\ faults \in Nat /\ r.pc = "release" /\ IsHandler(r, faults) /\ r \in Handling
      /\ r.locked \in Nat /\ r.locked > 0 /\ r.paid \in Nat
  BY <1>1, Counts DEF Release, At, HandlersOK, IsHandler, Handling
<1>4. done \in Handling /\ next \in Handling /\ next.pc = "rest"
      /\ next.locked = r.locked - 1 /\ next.paid = r.paid + 1
      /\ done.kind = r.kind /\ next.kind = r.kind /\ done.with = r.with /\ next.with = r.with
  <2>1. /\ done \in Handling /\ done.locked = r.locked - 1 /\ done.paid = r.paid + 1
        /\ done.kind = r.kind /\ done.with = r.with
    BY <1>1, <1>3, Pays
  <2>2. /\ next \in Handling /\ next.pc = "rest" /\ next.locked = done.locked
        /\ next.paid = done.paid /\ next.kind = done.kind /\ next.with = done.with
    <3>1. done \in Handling
      BY <2>1
    <3>2. next = [done EXCEPT !.pc = "rest"]
      BY <1>1
    <3> QED
      BY <3>1, <3>2 DEF Handling, Settling
  <2> QED
    BY <2>1, <2>2
<1>5. IsHandler(next, faults)
  BY <1>3, <1>4 DEF IsHandler, SettledSoFar
<1>6. Begun(done, faults + 1) /\ Begun(r, faults + 1)
  BY <1>3, <1>4 DEF Begun, IsHandler
<1>7. IsHandler(Failed(done), faults + 1) /\ IsHandler(Failed(r), faults + 1)
  BY <1>6, FailedIs
<1> QED
  BY <1>2, <1>5, <1>7, HandlerMoves

LEMMA OracleKeeps ==
    ASSUME ChainOK, OracleInv, OracleStep \/ OracleEvent
    PROVE  /\ OracleInv' /\ UNCHANGED <<demo, chain, debited, refs>> /\ faults' \in Nat
<1>1. faults \in Nat
  BY Counts
<1>2. CASE OracleEvent
  <2>1. CASE Tick
    BY <1>1, <2>1, TickKeeps DEF Tick, payVars
  <2>2. CASE RestartProxy
    BY <1>1, <2>2, RestartProxyKeeps DEF RestartProxy, Fault
  <2> QED
    BY <1>2, <2>1, <2>2 DEF OracleEvent
<1>3. ASSUME NEW h \in Handlers, Scanned(h)
      PROVE  OracleInv' /\ UNCHANGED payVars
  BY <1>3, ScannedKeeps DEF Scanned
<1>4. ASSUME NEW h \in Handlers, Request(h) \/ (\E g \in Handlers : Edge(h, g)) \/ Join(h)
      PROVE  OracleInv' /\ UNCHANGED payVars
  <2>1. UNCHANGED <<payVars, board, shown>>
    BY <1>4 DEF Request, Edge, Join
  <2>2. HandlersOK'
    BY <1>4, RequestKeeps, EdgeKeeps, JoinKeeps DEF OracleInv
  <2> QED
    BY <2>1, <2>2 DEF OracleInv, BoardOK
<1>5. ASSUME NEW h \in Handlers,
             \/ Subscribe(h) \/ Activate(h) \/ Configure(h) \/ InitConfig(h)
             \/ Funded(h) \/ TopUp(h) \/ Got(h) \/ Open(h) \/ Release(h)
      PROVE  /\ OracleInv' /\ UNCHANGED <<demo, chain, debited, refs>>
             /\ UNCHANGED faults \/ Fault
  <2>1. UNCHANGED <<demo, chain, debited, refs, board, shown>>
    BY <1>5 DEF Subscribe, Activate, Configure, InitConfig, Funded, TopUp, Got, Open, Release,
       Transact
  <2>2. UNCHANGED faults \/ Fault
    BY <1>5 DEF Subscribe, Activate, Configure, InitConfig, Funded, TopUp, Got, Open, Release,
       Transact
  <2>3. HandlersOK'
    BY <1>5, CallsKeep, GotKeeps, OpenKeeps, ReleaseKeeps DEF OracleInv
  <2> QED
    BY <2>1, <2>2, <2>3 DEF OracleInv, BoardOK
<1>6. faults' \in Nat \/ ~(UNCHANGED faults \/ Fault)
  BY <1>1 DEF Fault
<1>7. CASE OracleStep
  <2>1. PICK h \in Handlers :
           \/ Request(h) \/ (\E g \in Handlers : Edge(h, g)) \/ Join(h)
           \/ Subscribe(h) \/ Activate(h) \/ Got(h) \/ Scanned(h)
           \/ Configure(h) \/ InitConfig(h) \/ Funded(h) \/ TopUp(h)
           \/ Open(h) \/ Release(h)
    BY <1>7 DEF OracleStep
  <2> QED
    BY <1>1, <1>3, <1>4, <1>5, <1>6, <2>1 DEF payVars
<1> QED
  BY <1>2, <1>7
-----------------------------------------------------------------------------
(* The bridge: its threads only grow, and an answered order stays.         *)

ThreadsGrow ==
    /\ 1..Len(threads) \subseteq 1..Len(threads')
    /\ \A t \in 1..Len(threads) : \A i \in 1..Len(threads[t]) :
          i \in 1..Len(threads'[t]) /\ threads'[t][i] = threads[t][i]

BridgeGrows ==
    /\ ThreadsGrow
    /\ \A o \in Posts : \A ref, t : Placed(o, ref, t) => Placed(o, ref, t)'

LEMMA ThreadsStill ==
    ASSUME ThreadsOK, UNCHANGED threads
    PROVE  ThreadsOK' /\ ThreadsGrow
  BY DEF ThreadsOK, ThreadsGrow

LEMMA SayKeeps ==
    ASSUME ThreadsOK, NEW t \in 1..Len(threads), NEW m \in Messages, m.has = None, Say(t, m)
    PROVE  ThreadsOK' /\ ThreadsGrow
<1>1. threads \in Seq(Seq(Messages)) /\ threads' = [threads EXCEPT ![t] = Append(@, m)]
  BY DEF ThreadsOK, Say
<1>2. PICK s, n : s = threads[t] /\ n = Append(s, m)
  OBVIOUS
<1>3. ThreadOK(s) /\ s \in Seq(Messages) /\ s # <<>>
  BY <1>2 DEF ThreadsOK, ThreadOK
<1>4. /\ n \in Seq(Messages) /\ Len(n) = Len(s) + 1 /\ Len(s) \in Nat \ {0}
      /\ \A i \in 1..Len(s) : n[i] = s[i]
      /\ n[Len(s) + 1] = m
  BY <1>2, <1>3, Appended
<1>5. /\ threads' \in Seq(Seq(Messages)) /\ Len(threads') = Len(threads) /\ threads'[t] = n
      /\ \A u \in 1..Len(threads) : u # t => threads'[u] = threads[u]
  BY <1>1, <1>2, <1>4
<1>6. ThreadOK(n)
  <2>1. ASSUME NEW i \in 2..Len(n)
        PROVE  n[i].has = None
    <3>1. i \in 2..Len(s) \/ i = Len(s) + 1
      BY <1>4
    <3>2. CASE i \in 2..Len(s)
      BY <1>3, <1>4, <3>2 DEF ThreadOK
    <3> QED
      BY <1>4, <3>1, <3>2
  <2>2. n # <<>>
    BY <1>4
  <2> QED
    BY <1>4, <2>1, <2>2 DEF ThreadOK
<1>7. \A u \in 1..Len(threads) : ThreadOK(threads'[u])
  BY <1>5, <1>6 DEF ThreadsOK
<1>8. ASSUME NEW u \in 1..Len(threads), NEW i \in 1..Len(threads[u])
      PROVE  i \in 1..Len(threads'[u]) /\ threads'[u][i] = threads[u][i]
  <2>1. CASE u = t
    BY <1>2, <1>4, <1>5, <1>8, <2>1
  <2>2. CASE u # t
    BY <1>5, <1>8, <2>2
  <2> QED
    BY <2>1, <2>2
<1>9. ThreadsGrow
  BY <1>5, <1>8 DEF ThreadsGrow
<1> QED
  BY <1>5, <1>7, <1>9 DEF ThreadsOK

LEMMA ThreadOpens ==
    ASSUME ThreadsOK, NEW m \in Messages, threads' = Append(threads, <<m>>)
    PROVE  /\ ThreadsOK' /\ ThreadsGrow
           /\ Len(threads) \in Nat /\ Len(threads') = Len(threads) + 1
<1>1. threads \in Seq(Seq(Messages)) /\ <<m>> \in Seq(Messages)
  BY DEF ThreadsOK
<1>2. /\ threads' \in Seq(Seq(Messages)) /\ Len(threads') = Len(threads) + 1 /\ Len(threads) \in Nat
      /\ \A t \in 1..Len(threads) : threads'[t] = threads[t]
      /\ threads'[Len(threads) + 1] = <<m>>
  BY <1>1, Appended
<1>3. ThreadOK(<<m>>)
  BY <1>1 DEF ThreadOK
<1>4. \A t \in 1..Len(threads') : t \in 1..Len(threads) \/ t = Len(threads) + 1
  BY <1>2
<1>5. \A t \in 1..Len(threads') : ThreadOK(threads'[t])
  BY <1>2, <1>3, <1>4 DEF ThreadsOK
<1>6. ThreadsGrow
  BY <1>2 DEF ThreadsGrow
<1> QED
  BY <1>2, <1>5, <1>6 DEF ThreadsOK

(* What a poll finds, and that it goes on to find it.                      *)
LEMMA Finds ==
    ASSUME ThreadsOK, NEW t \in 1..Len(threads), NEW marker, Hits(t, marker) # {}
    PROVE  \E i \in Nat : First(Hits(t, marker)) = <<t, i>> /\ FoundAt(t, marker, i)
<1> DEFINE s == threads[t]
           S == {i \in 1..Len(s) : Marked(s[i], marker)}
<1>1. s \in Seq(Messages) /\ DOMAIN s = 1..Len(s) /\ Len(s) \in Nat
  BY DEF ThreadsOK
<1>2. Hits(t, marker) = {<<t, i>> : i \in S}
  BY <1>1 DEF Hits, Marked
<1>3. S # {} /\ S \subseteq Nat
  BY <1>1, <1>2
<1> HIDE DEF S
<1>4. PICK i \in S : \A j \in S : i <= j
  BY <1>3, Least
<1>5. \A g \in Hits(t, marker) : <<t, i>>[1] < g[1] \/ (<<t, i>>[1] = g[1] /\ <<t, i>>[2] <= g[2])
  BY <1>2, <1>4
<1>6. <<t, i>> \in Hits(t, marker)
  BY <1>2
<1>7. PICK h : h = First(Hits(t, marker))
  OBVIOUS
<1>8. h \in Hits(t, marker) /\ \A g \in Hits(t, marker) : h[1] < g[1] \/ (h[1] = g[1] /\ h[2] <= g[2])
  BY <1>5, <1>6, <1>7 DEF First
<1>9. PICK k \in S : h = <<t, k>>
  BY <1>2, <1>8
<1>10. k = i
  <2>1. k <= i \/ t < t
    BY <1>6, <1>8, <1>9
  <2>2. i <= k /\ i \in Nat /\ k \in Nat /\ t \in Nat
    BY <1>3, <1>4, <1>9
  <2> QED
    BY <2>1, <2>2
<1>11. FoundAt(t, marker, i)
  <2>1. i \in 1..Len(s) /\ Marked(s[i], marker)
    BY <1>4 DEF S
  <2>2. ASSUME NEW j \in 1..(i - 1)
        PROVE  ~Marked(s[j], marker)
    <3>1. j \in 1..Len(s) /\ ~ (i <= j)
      BY <1>1, <2>1
    <3> QED
      BY <1>4, <3>1 DEF S
  <2> QED
    BY <2>1, <2>2 DEF FoundAt
<1> QED
  BY <1>3, <1>7, <1>9, <1>10, <1>11

LEMMA FoundStays ==
    ASSUME ThreadsOK, ThreadsGrow, NEW t, NEW marker, NEW i, FoundAt(t, marker, i)
    PROVE  FoundAt(t, marker, i)'
<1>1. t \in 1..Len(threads) /\ i \in 1..Len(threads[t]) /\ Len(threads[t]) \in Nat
  BY DEF FoundAt, ThreadsOK
<1>2. \A j \in 1..(i - 1) : j \in 1..Len(threads[t])
  BY <1>1
<1> QED
  BY <1>1, <1>2 DEF FoundAt, ThreadsGrow

LEMMA PlacedStays ==
    ASSUME BridgeGrows, NEW ref, NEW t, IsPlaced(ref, t)
    PROVE  IsPlaced(ref, t)'
  BY DEF BridgeGrows, IsPlaced

LEMMA OrdersStay ==
    ASSUME BridgeGrows, OrdersOK, UNCHANGED orders
    PROVE  OrdersOK'
<1>1. ASSUME NEW ref \in Offers, orders[ref] # 0
      PROVE  IsPlaced(ref, orders[ref])'
  <2>1. PICK t : t = orders[ref]
    OBVIOUS
  <2>2. IsPlaced(ref, t)'
    BY <1>1, <2>1, PlacedStays DEF OrdersOK
  <2> QED
    BY <2>1, <2>2
<1> QED
  BY <1>1 DEF OrdersOK

LEMMA SessionStays ==
    ASSUME SessionOK, UNCHANGED <<session, creating, sessions>>, faults \in Nat,
           faults' \in {faults, faults + 1}
    PROVE  SessionOK'
<1>1. sessions \in Nat
  BY DEF SessionOK
<1>2. CASE UNCHANGED faults
  BY <1>2 DEF SessionOK
<1>3. CASE faults' = faults + 1
  <2>1. sessions <= faults => sessions <= faults'
    BY <1>1, <1>3
  <2>2. sessions <= 1 + faults => sessions <= 1 + faults'
    BY <1>1, <1>3
  <2> QED
    BY <1>1, <2>1, <2>2 DEF SessionOK
<1> QED
  BY <1>2, <1>3

(* Whoever asks for a session may be the first to.                         *)
LEMMA Ensures ==
    ASSUME SessionOK, EnsureSession \/ UNCHANGED <<session, creating>>,
           UNCHANGED <<sessions, faults>>
    PROVE  SessionOK'
  BY DEF SessionOK, EnsureSession

(* The calls: what was true of one stays true of it.                       *)
LEMMA PostStays ==
    ASSUME BridgeGrows, ThreadsOK, UNCHANGED doors, NEW p, PostOK(p)
    PROVE  PostOK(p)'
<1>1. OrderOK(p) => OrderOK(p)'
  <2>1. Len(threads) \in Nat /\ 1..Len(threads) \subseteq 1..Len(threads')
    BY DEF BridgeGrows, ThreadsGrow, ThreadsOK
  <2>2. p.thread \in 0..Len(threads) => p.thread = 0 \/ p.thread \in 1..Len(threads)
    BY <2>1
  <2>3. p.thread \in 0..Len(threads) => p.thread \in 0..Len(threads')
    BY <2>1, <2>2
  <2> QED
    BY <2>3 DEF OrderOK
<1>2. PaidOK(p) => PaidOK(p)'
  BY PlacedStays, FoundStays DEF PaidOK, BridgeGrows, ThreadsGrow
<1>3. DoorOK(p) => DoorOK(p)'
  BY DEF DoorOK
<1> QED
  BY <1>1, <1>2, <1>3 DEF PostOK

(* An order that is not answered yet is placed under no reference.         *)
LEMMA Grows ==
    ASSUME ThreadsGrow, PostsOK, NEW c \in Posts, post[c].pc # "ok", NEW p,
           post' = [post EXCEPT ![c] = p]
    PROVE  BridgeGrows
  BY DEF BridgeGrows, PostsOK, Placed

LEMMA OrderIs ==
    ASSUME NEW p, PostOK(p)
    PROVE  /\ p \in OrderPosts => OrderOK(p)
           /\ p.op = "order" /\ p # Unposted => OrderOK(p)
           /\ p.op = "paid" /\ p # Unposted => PaidOK(p) \/ p \in LostPosts
           /\ p.op \in {"start", "feed"} /\ p # Unposted => DoorOK(p)
<1>1. (OrderOK(p) => p.op = "order") /\ (PaidOK(p) => p.op = "paid")
      /\ (p \in LostPosts => p.op = "paid") /\ (DoorOK(p) => p.op \in {"start", "feed"})
  BY DEF OrderOK, OrderPosts, PaidOK, PaidPosts, LostPosts, DoorOK, DoorPosts
<1>2. p \in OrderPosts => p.op = "order" /\ p # Unposted
  BY DEF OrderPosts, Unposted, Places
<1> QED
  BY <1>1, <1>2 DEF PostOK

(* One call moves; an order gets a thread when it opens it.                *)
IsNew(c, p) ==
    p \in OrderPosts =>
       \/ p.thread \notin 1..Len(threads)
       \/ post[c] \in OrderPosts /\ post[c].thread = p.thread

LEMMA PostsMove ==
    ASSUME ThreadsOK, PostsOK, NEW c \in Posts, NEW p, post' = [post EXCEPT ![c] = p],
           PostOK(p)', IsNew(c, p),
           \A b \in Posts \ {c} : \A q : q = post[b] => PostOK(q)'
    PROVE  PostsOK'
<1>1. /\ DOMAIN post' = Posts /\ post'[c] = p
      /\ \A b \in Posts : b # c => post'[b] = post[b]
  BY DEF PostsOK
<1>2. ASSUME NEW b \in Posts
      PROVE  PostOK(post[b])'
  <2>1. PICK q : q = post'[b]
    OBVIOUS
  <2>2. PostOK(q)'
    BY <1>1, <2>1
  <2> QED
    BY <2>1, <2>2
<1>3. ASSUME NEW b \in Posts, b # c, post[b] \in OrderPosts, p \in OrderPosts, p.thread # 0
      PROVE  post[b].thread # p.thread
  <2>1. Len(threads) \in Nat
    BY DEF ThreadsOK
  <2>2. OrderOK(post[b])
    BY <1>3, OrderIs DEF PostsOK
  <2>3. post[b].thread = p.thread => p.thread \in 1..Len(threads)
    BY <1>3, <2>1, <2>2 DEF OrderOK
  <2>4. post[c] \in OrderPosts /\ post[c].thread = p.thread => post[b].thread # p.thread
    BY <1>3 DEF PostsOK, ThreadOfOne
  <2> QED
    BY <1>3, <2>3, <2>4 DEF IsNew
<1>4. ThreadOfOne'
  <2>1. SUFFICES ASSUME NEW a \in Posts, NEW b \in Posts, post'[a] \in OrderPosts,
                        post'[b] \in OrderPosts, post'[a].thread # 0,
                        post'[a].thread = post'[b].thread
                 PROVE  a = b
    BY DEF ThreadOfOne
  <2>2. CASE a # c /\ b # c
    BY <1>1, <2>1, <2>2 DEF PostsOK, ThreadOfOne
  <2>3. CASE a = c /\ b # c
    BY <1>1, <1>3, <2>1, <2>3
  <2>4. CASE a # c /\ b = c
    BY <1>1, <1>3, <2>1, <2>4
  <2> QED
    BY <2>2, <2>3, <2>4
<1> QED
  BY <1>1, <1>2, <1>4 DEF PostsOK

LEMMA CallMoves ==
    ASSUME BridgeInv, faults \in Nat, BridgeGrows, SessionOK', ThreadsOK', OrdersOK',
           UNCHANGED doors, faults' \in {faults, faults + 1},
           NEW c \in Posts, NEW p, post' = [post EXCEPT ![c] = p], PostOK(p)', IsNew(c, p),
           p.pc # "launch"
    PROVE  BridgeInv'
<1>1. \A b \in Posts \ {c} : \A q : q = post[b] => PostOK(q)'
  BY PostStays DEF BridgeInv, PostsOK
<1>2. PostsOK'
  BY <1>1, PostsMove DEF BridgeInv
<1>3. DoorsOK'
  <2>1. \A d \in DoorNames : Starting(d)' \subseteq Starting(d)
    BY DEF Starting, BridgeInv, PostsOK
  <2>2. \A d \in DoorNames : doors[d].opened \in Nat
    BY DEF BridgeInv, DoorsOK
  <2> QED
    BY <2>1, <2>2 DEF BridgeInv, DoorsOK
<1> QED
  BY <1>2, <1>3 DEF BridgeInv

(* No call moves.                                                          *)
LEMMA CallsStay ==
    ASSUME BridgeInv, SessionOK', ThreadsOK', ThreadsGrow,
           UNCHANGED <<orders, doors, post, faults>>
    PROVE  BridgeInv'
<1>1. BridgeGrows
  BY DEF BridgeGrows, Placed
<1>2. PostsOK'
  <2>1. ASSUME NEW b \in Posts
        PROVE  PostOK(post[b])'
    <3>1. PICK q : q = post[b]
      OBVIOUS
    <3>2. PostOK(q)'
      BY <1>1, <3>1, PostStays DEF BridgeInv, PostsOK
    <3> QED
      BY <3>1, <3>2
  <2> QED
    BY <2>1 DEF BridgeInv, PostsOK, ThreadOfOne
<1>3. DoorsOK'
  BY DEF BridgeInv, DoorsOK, Starting
<1> QED
  BY <1>1, <1>2, <1>3, OrdersStay DEF BridgeInv

(* A call of the orders' API that is neither refused nor done.             *)
LEMMA CallIs ==
    ASSUME BridgeInv, NEW c \in Posts, NEW p, p = post[c], p.pc \in {"session", "poll"}
    PROVE  /\ OrderOK(p) \/ PaidOK(p)
           /\ p.op = "order" => OrderOK(p)
           /\ p.op = "paid" => PaidOK(p)
<1>1. PostOK(p)
  BY DEF BridgeInv, PostsOK
<1>2. p # Unposted /\ p \notin LostPosts /\ p \notin DoorPosts
  BY DEF Unposted, LostPosts, DoorPosts
<1>3. OrderOK(p) \/ PaidOK(p)
  BY <1>1, <1>2 DEF PostOK, DoorOK
<1> QED
  BY <1>1, <1>2, <1>3, OrderIs

LEMMA Refuses ==
    ASSUME NEW p, OrderOK(p) \/ PaidOK(p), NEW q, q = [p EXCEPT !.pc = "502"]
    PROVE  /\ PostOK(q) /\ q.pc = "502"
           /\ q \in OrderPosts => p \in OrderPosts /\ p.thread = q.thread
<1>1. CASE OrderOK(p)
  <2>1. q \in OrderPosts /\ q.pc = "502" /\ q.thread = p.thread /\ p \in OrderPosts
    BY <1>1 DEF OrderOK, OrderPosts, Places
  <2> QED
    BY <1>1, <2>1 DEF OrderOK, PostOK
<1>2. CASE PaidOK(p)
  <2>1. q \in PaidPosts /\ q.pc = "502" /\ q.thread = p.thread /\ q.ref = p.ref /\ q.op = "paid"
    BY <1>2 DEF PaidOK, PaidPosts, Places
  <2>2. q \notin OrderPosts
    BY <2>1 DEF OrderPosts
  <2> QED
    BY <1>2, <2>1, <2>2 DEF PaidOK, PostOK
<1> QED
  BY <1>1, <1>2

LEMMA RefusedCall ==
    ASSUME BridgeInv, faults \in Nat, UNCHANGED <<session, creating, sessions, orders, doors>>,
           ThreadsOK', ThreadsGrow, faults' \in {faults, faults + 1},
           NEW c \in Posts, post[c].pc \in {"session", "poll"}, Now(c, "502")
    PROVE  BridgeInv'
<1>1. PICK p, q : p = post[c] /\ q = [p EXCEPT !.pc = "502"]
  OBVIOUS
<1>2. post' = [post EXCEPT ![c] = q]
  BY <1>1 DEF Now
<1>3. OrderOK(p) \/ PaidOK(p)
  BY <1>1, CallIs
<1>4. PostOK(q) /\ q.pc = "502" /\ IsNew(c, q)
  BY <1>1, <1>3, Refuses DEF IsNew
<1>5. BridgeGrows
  BY <1>2, Grows DEF BridgeInv
<1>6. PostOK(q)'
  BY <1>4, <1>5, PostStays DEF BridgeInv
<1>7. SessionOK' /\ OrdersOK'
  BY <1>5, SessionStays, OrdersStay DEF BridgeInv
<1> QED
  BY <1>2, <1>4, <1>5, <1>6, <1>7, CallMoves

LEMMA SessionFailsKeeps ==
    ASSUME faults \in Nat, BridgeInv, SessionFails
    PROVE  BridgeInv'
<1>1. /\ UNCHANGED <<threads, orders, doors>> /\ faults' = faults + 1
      /\ creating > 0 /\ creating' = creating - 1 /\ session' \in {"none", "rejected"}
      /\ sessions' \in {sessions, sessions + 1}
      /\ post' = [c \in Posts |->
                   IF c \in AwaitSession THEN [post[c] EXCEPT !.pc = "502"] ELSE post[c]]
  BY DEF SessionFails, Fault
<1>2. SessionOK' /\ ThreadsOK' /\ ThreadsGrow
  BY <1>1, ThreadsStill DEF BridgeInv, SessionOK
<1>3. BridgeGrows
  BY <1>1, <1>2 DEF BridgeGrows, Placed, AwaitSession
<1>4. ASSUME NEW c \in Posts
      PROVE  /\ PostOK(post'[c]) /\ (post'[c].pc = "launch" => post'[c] = post[c])
             /\ post'[c] \in OrderPosts => post[c] \in OrderPosts /\ post[c].thread = post'[c].thread
  <2>1. CASE c \in AwaitSession
    <3>1. PICK p, q : p = post[c] /\ q = [p EXCEPT !.pc = "502"]
      OBVIOUS
    <3>2. OrderOK(p) \/ PaidOK(p)
      BY <2>1, <3>1, CallIs DEF AwaitSession
    <3>3. /\ PostOK(q) /\ q.pc = "502"
          /\ q \in OrderPosts => p \in OrderPosts /\ p.thread = q.thread
      BY <3>1, <3>2, Refuses
    <3>4. post'[c] = q
      BY <1>1, <2>1, <3>1
    <3> QED
      BY <3>1, <3>3, <3>4
  <2>2. CASE c \notin AwaitSession
    BY <1>1, <2>2 DEF BridgeInv, PostsOK
  <2> QED
    BY <2>1, <2>2
<1>5. PostsOK'
  <2>1. ASSUME NEW c \in Posts
        PROVE  PostOK(post[c])'
    <3>1. PICK q : q = post'[c]
      OBVIOUS
    <3>2. PostOK(q)'
      BY <1>1, <1>3, <1>4, <3>1, PostStays DEF BridgeInv
    <3> QED
      BY <3>1, <3>2
  <2>2. ThreadOfOne'
    BY <1>4 DEF BridgeInv, PostsOK, ThreadOfOne
  <2> QED
    BY <1>1, <2>1, <2>2 DEF PostsOK
<1>6. DoorsOK'
  <2>1. \A d \in DoorNames : Starting(d)' \subseteq Starting(d)
    BY <1>1, <1>4 DEF Starting
  <2>2. \A d \in DoorNames : doors[d].opened \in Nat
    BY DEF BridgeInv, DoorsOK
  <2> QED
    BY <1>1, <2>1, <2>2 DEF BridgeInv, DoorsOK
<1> QED
  BY <1>1, <1>2, <1>3, <1>5, <1>6, OrdersStay DEF BridgeInv

LEMMA PostOrderKeeps ==
    ASSUME faults \in Nat, BridgeInv, NEW c \in Posts, NEW prompt \in Prompts, PostOrder(c, prompt)
    PROVE  BridgeInv'
<1>1. PICK p : p = [pc |-> "session", op |-> "order", prompt |-> prompt, thread |-> 0, ref |-> None]
  OBVIOUS
<1>2. /\ post' = [post EXCEPT ![c] = p] /\ EnsureSession /\ post[c].pc = "idle"
      /\ UNCHANGED <<sessions, faults, threads, orders, doors>>
  BY <1>1 DEF PostOrder, payVars
<1>3. p \in OrderPosts /\ p.pc = "session" /\ p.thread = 0
  BY <1>1 DEF OrderPosts, Places
<1>4. ThreadsOK' /\ ThreadsGrow /\ Len(threads) \in Nat /\ SessionOK'
  BY <1>2, ThreadsStill, Ensures DEF BridgeInv, ThreadsOK
<1>5. PostOK(p) /\ IsNew(c, p)
  BY <1>3, <1>4 DEF OrderOK, PostOK, IsNew
<1>6. BridgeGrows
  BY <1>2, <1>4, Grows DEF BridgeInv
<1>7. PostOK(p)' /\ OrdersOK'
  BY <1>2, <1>5, <1>6, PostStays, OrdersStay DEF BridgeInv
<1> QED
  BY <1>2, <1>3, <1>4, <1>5, <1>6, <1>7, CallMoves

LEMMA AskForPriceKeeps ==
    ASSUME faults \in Nat, BridgeInv, NEW c \in Posts, AskForPrice(c)
    PROVE  BridgeInv' /\ faults' \in {faults, faults + 1}
<1>1. /\ post[c].pc = "session" /\ post[c].op = "order"
      /\ UNCHANGED <<session, creating, sessions, orders, doors>>
  BY DEF AskForPrice
<1>2. PICK p : p = post[c]
  OBVIOUS
<1>3. OrderOK(p) /\ p \in OrderPosts
  BY <1>1, <1>2, CallIs DEF OrderOK
<1>4. CASE /\ threads' = Append(threads, <<Message("request", None, p.prompt)>>)
           /\ post' = [post EXCEPT ![c].pc = "poll", ![c].thread = Len(threads) + 1]
           /\ UNCHANGED faults
  <2>1. PICK m, q : /\ m = Message("request", None, p.prompt)
                    /\ q = [p EXCEPT !.pc = "poll", !.thread = Len(threads) + 1]
    OBVIOUS
  <2>2. m \in Messages
    BY <1>3, <2>1 DEF Message, Messages, OrderPosts
  <2>3. /\ ThreadsOK' /\ ThreadsGrow
        /\ Len(threads) \in Nat /\ Len(threads') = Len(threads) + 1
    BY <1>4, <2>1, <2>2, ThreadOpens DEF BridgeInv
  <2>4. q \in OrderPosts /\ q.pc = "poll" /\ q.thread = Len(threads) + 1
    <3>1. PICK n \in Nat : n = Len(threads) + 1
      BY <2>3
    <3>2. q = [p EXCEPT !.pc = "poll", !.thread = n]
      BY <2>1, <3>1
    <3> QED
      BY <1>3, <3>1, <3>2 DEF OrderPosts, Places
  <2>5. post' = [post EXCEPT ![c] = q]
    BY <1>2, <1>4, <2>1
  <2>6. BridgeGrows
    BY <1>1, <2>3, <2>5, Grows DEF BridgeInv
  <2>7. PostOK(q)' /\ IsNew(c, q)
    BY <2>3, <2>4 DEF PostOK, OrderOK, IsNew
  <2>8. SessionOK' /\ OrdersOK'
    BY <1>1, <1>4, <2>6, SessionStays, OrdersStay DEF BridgeInv
  <2> QED
    BY <1>1, <1>4, <2>3, <2>4, <2>5, <2>6, <2>7, <2>8, CallMoves
<1>5. CASE BadGateway(c) /\ UNCHANGED threads
  <2>1. Now(c, "502") /\ faults' = faults + 1 /\ ThreadsOK' /\ ThreadsGrow
    BY <1>5, ThreadsStill DEF BadGateway, Fault, BridgeInv
  <2> QED
    BY <1>1, <2>1, RefusedCall
<1> QED
  BY <1>2, <1>4, <1>5 DEF AskForPrice

(* A poll looks at the call's own thread.                                  *)
LEMMA Polls ==
    ASSUME BridgeInv, NEW c \in Posts, NEW p, p = post[c], CanPoll(c)
    PROVE  /\ p.pc = "poll" /\ p.thread \in 1..Len(threads)
           /\ \E i \in Nat : /\ First(Polled(p.thread, Marker(c))) = <<p.thread, i>>
                             /\ FoundAt(p.thread, Marker(c), i)
<1>1. p.pc = "poll" /\ Hits(p.thread, Marker(c)) # {}
  BY DEF CanPoll, Polled
<1>2. Len(threads) \in Nat
  BY DEF BridgeInv, ThreadsOK
<1>3. p.thread \in 1..Len(threads)
  BY <1>1, <1>2, CallIs DEF OrderOK, PaidOK
<1> QED
  BY <1>1, <1>3, Finds DEF BridgeInv, Polled

LEMMA OrderPlacedKeeps ==
    ASSUME faults \in Nat, BridgeInv, NEW c \in Posts, OrderPlaced(c)
    PROVE  BridgeInv'
<1>1. PICK p : p = post[c]
  OBVIOUS
<1>2. /\ CanPoll(c) /\ p.op = "order"
      /\ UNCHANGED <<faults, session, creating, sessions, threads, doors>>
  BY <1>1 DEF OrderPlaced, payVars
<1>3. PICK i \in Nat : /\ First(Polled(p.thread, Marker(c))) = <<p.thread, i>>
                       /\ FoundAt(p.thread, Marker(c), i)
  BY <1>1, <1>2, Polls
<1>4. p.pc = "poll" /\ OrderOK(p) /\ p \in OrderPosts
  BY <1>1, <1>2, CallIs, Polls DEF OrderOK
<1>5. ThreadsOK' /\ ThreadsGrow /\ SessionOK'
  BY <1>2, ThreadsStill, SessionStays DEF BridgeInv
<1>6. PICK m : m = Poll(c, Marker(c))
  OBVIOUS
<1>7. m.ref \in Offers \cup {None}
  <2>1. m = threads[p.thread][i]
    BY <1>1, <1>3, <1>6 DEF Poll
  <2>2. m \in Messages
    BY <1>3, <2>1 DEF FoundAt, BridgeInv, ThreadsOK
  <2> QED
    BY <2>2 DEF Messages
<1>8. CASE m.ref # None
  <2>1. PICK q : q = [p EXCEPT !.pc = "ok", !.ref = m.ref]
    OBVIOUS
  <2>2. post' = [post EXCEPT ![c] = q] /\ orders' = [orders EXCEPT ![m.ref] = p.thread]
    BY <1>1, <1>6, <1>8, <2>1 DEF OrderPlaced
  <2>3. /\ q \in OrderPosts /\ q.pc = "ok" /\ q.thread = p.thread /\ q.ref = m.ref
        /\ q.op = "order"
    BY <1>4, <1>7, <2>1 DEF OrderPosts, Places
  <2>4. PostOK(q) /\ IsNew(c, q)
    BY <1>1, <1>4, <2>3 DEF OrderOK, PostOK, IsNew
  <2>5. BridgeGrows
    BY <1>1, <1>4, <1>5, <2>2, Grows DEF BridgeInv
  <2>6. PostOK(q)'
    BY <1>2, <2>4, <2>5, PostStays DEF BridgeInv
  <2>7. OrdersOK'
    <3>1. /\ orders' \in [Offers -> Nat] /\ orders'[m.ref] = p.thread
          /\ \A ref \in Offers : ref # m.ref => orders'[ref] = orders[ref]
      BY <1>4, <1>7, <1>8, <2>2 DEF BridgeInv, OrdersOK, OrderPosts
    <3>2. IsPlaced(m.ref, p.thread)'
      <4>1. post'[c] = q
        BY <2>2 DEF BridgeInv, PostsOK
      <4>2. Placed(c, m.ref, p.thread)'
        BY <2>3, <4>1 DEF Placed
      <4> QED
        BY <4>2 DEF IsPlaced
    <3>3. ASSUME NEW ref \in Offers, orders'[ref] # 0
          PROVE  IsPlaced(ref, orders[ref])'
      <4>1. PICK t : t = orders'[ref]
        OBVIOUS
      <4>2. IsPlaced(ref, t)'
        <5>1. CASE ref = m.ref
          BY <3>1, <3>2, <4>1, <5>1
        <5>2. CASE ref # m.ref
          <6>1. IsPlaced(ref, t)
            BY <3>1, <3>3, <4>1, <5>2 DEF BridgeInv, OrdersOK
          <6> QED
            BY <2>5, <6>1, PlacedStays
        <5> QED
          BY <5>1, <5>2
      <4> QED
        BY <4>1, <4>2
    <3> QED
      BY <3>1, <3>3 DEF OrdersOK
  <2> QED
    BY <1>2, <1>5, <2>2, <2>3, <2>4, <2>5, <2>6, <2>7, CallMoves
<1>9. CASE m.ref = None
  <2>1. Now(c, "502") /\ UNCHANGED orders
    BY <1>6, <1>9 DEF OrderPlaced
  <2> QED
    BY <1>1, <1>2, <1>4, <1>5, <2>1, RefusedCall
<1> QED
  BY <1>8, <1>9

LEMMA PostPaidKeeps ==
    ASSUME faults \in Nat, BridgeInv, NEW c \in Posts, NEW ref \in Offers, NEW sig \in BOOLEAN,
           PostPaid(c, ref, sig)
    PROVE  BridgeInv'
<1>1. PICK pc, p :
        /\ pc = IF orders[ref] = 0 THEN "404" ELSE IF ~sig THEN "400" ELSE "session"
        /\ p = [pc |-> pc, op |-> "paid", thread |-> orders[ref], ref |-> ref, data |-> None]
  OBVIOUS
<1>2. /\ post' = [post EXCEPT ![c] = p] /\ post[c].pc = "idle"
      /\ EnsureSession \/ UNCHANGED <<session, creating>>
      /\ UNCHANGED <<faults, sessions, threads, orders, doors>>
  BY <1>1 DEF PostPaid, payVars
<1>3. ThreadsOK' /\ ThreadsGrow /\ SessionOK'
  BY <1>2, ThreadsStill, Ensures DEF BridgeInv
<1>4. BridgeGrows
  BY <1>2, <1>3, Grows DEF BridgeInv
<1>5. orders[ref] \in Nat /\ (orders[ref] # 0 => IsPlaced(ref, orders[ref]))
  BY DEF BridgeInv, OrdersOK
<1>6. p.pc = pc /\ p.op = "paid" /\ p.thread = orders[ref] /\ p.ref = ref /\ p.data = None
  BY <1>1
<1>7. PostOK(p)
  <2>1. CASE pc \in {"404", "400"}
    BY <1>1, <1>5, <2>1 DEF LostPosts, PostOK
  <2>2. CASE pc \notin {"404", "400"}
    <3>1. pc = "session" /\ IsPlaced(ref, orders[ref]) /\ orders[ref] # 0
      BY <1>1, <1>5, <2>2
    <3>2. p \in PaidPosts
      BY <1>1, <1>5, <3>1 DEF PaidPosts, Places
    <3>3. PICK o \in Posts : Placed(o, ref, orders[ref])
      BY <3>1 DEF IsPlaced
    <3>4. post[o].op = "order" /\ post[o] # Unposted /\ post[o].thread = orders[ref]
      BY <3>3 DEF Placed, Unposted
    <3>5. OrderOK(post[o])
      BY <3>4, OrderIs DEF BridgeInv, PostsOK
    <3>6. Len(threads) \in Nat
      BY DEF BridgeInv, ThreadsOK
    <3>7. orders[ref] \in 1..Len(threads)
      BY <1>5, <3>1, <3>4, <3>5, <3>6 DEF OrderOK
    <3> QED
      BY <1>6, <3>1, <3>2, <3>7 DEF PaidOK, PostOK
  <2> QED
    BY <2>1, <2>2
<1>8. IsNew(c, p) /\ p.pc # "launch"
  BY <1>1, <1>6 DEF IsNew, OrderPosts
<1>9. PostOK(p)' /\ OrdersOK'
  BY <1>2, <1>4, <1>7, PostStays, OrdersStay DEF BridgeInv
<1> QED
  BY <1>2, <1>3, <1>4, <1>8, <1>9, CallMoves

LEMMA TellSellerKeeps ==
    ASSUME faults \in Nat, BridgeInv, NEW c \in Posts, TellSeller(c)
    PROVE  BridgeInv' /\ faults' \in {faults, faults + 1}
<1>1. PICK p, m : p = post[c] /\ m = Message("paid", p.ref, None)
  OBVIOUS
<1>2. /\ p.pc = "session" /\ p.op = "paid" /\ Say(p.thread, m)
      /\ UNCHANGED <<session, creating, sessions, orders, doors>>
  BY <1>1 DEF TellSeller
<1>3. PaidOK(p) /\ p \in PaidPosts /\ p.thread \in 1..Len(threads) /\ p.ref \in Offers
  BY <1>1, <1>2, CallIs DEF PaidOK, PaidPosts
<1>4. m \in Messages /\ m.has = None
  BY <1>1, <1>3 DEF Message, Messages
<1>5. ThreadsOK' /\ ThreadsGrow
  BY <1>2, <1>3, <1>4, SayKeeps DEF BridgeInv
<1>6. CASE BadGateway(c)
  <2>1. Now(c, "502") /\ faults' = faults + 1
    BY <1>6 DEF BadGateway, Fault
  <2> QED
    BY <1>1, <1>2, <1>5, <2>1, RefusedCall
<1>7. CASE Now(c, "poll") /\ UNCHANGED faults
  <2>1. PICK q : q = [p EXCEPT !.pc = "poll"]
    OBVIOUS
  <2>2. post' = [post EXCEPT ![c] = q]
    BY <1>1, <1>7, <2>1 DEF Now
  <2>3. q \in PaidPosts /\ q.pc = "poll" /\ q.thread = p.thread /\ q.ref = p.ref /\ q.op = "paid"
    BY <1>3, <2>1 DEF PaidPosts, Places
  <2>4. PostOK(q) /\ IsNew(c, q)
    BY <1>3, <2>3 DEF PaidOK, PostOK, IsNew, OrderPosts
  <2>5. BridgeGrows
    BY <1>1, <1>2, <1>5, <2>2, Grows DEF BridgeInv
  <2>6. PostOK(q)' /\ SessionOK' /\ OrdersOK'
    BY <1>2, <1>7, <2>4, <2>5, PostStays, SessionStays, OrdersStay DEF BridgeInv
  <2> QED
    BY <1>2, <1>5, <1>7, <2>2, <2>3, <2>4, <2>5, <2>6, CallMoves
<1> QED
  BY <1>6, <1>7 DEF TellSeller

LEMMA DeliveredKeeps ==
    ASSUME faults \in Nat, BridgeInv, NEW c \in Posts, Delivered(c)
    PROVE  BridgeInv'
<1>1. PICK p, q : /\ p = post[c]
                  /\ q = [p EXCEPT !.pc = "ok", !.data = First(Polled(p.thread, Marker(c)))]
  OBVIOUS
<1>2. /\ CanPoll(c) /\ p.op = "paid" /\ post' = [post EXCEPT ![c] = q]
      /\ orders' = [orders EXCEPT ![p.ref] = 0]
      /\ UNCHANGED <<faults, session, creating, sessions, threads, doors>>
  BY <1>1 DEF Delivered, payVars
<1>3. PICK i \in Nat : /\ First(Polled(p.thread, Marker(c))) = <<p.thread, i>>
                       /\ FoundAt(p.thread, Marker(c), i)
  BY <1>1, <1>2, Polls
<1>4. p.pc = "poll" /\ PaidOK(p) /\ p \in PaidPosts /\ Marker(c) = "DELIVERED"
  BY <1>1, <1>2, CallIs, Polls DEF PaidOK, Marker
<1>5. /\ q \in PaidPosts /\ q.pc = "ok" /\ q.thread = p.thread /\ q.ref = p.ref
      /\ q.data = <<p.thread, i>> /\ q.op = "paid"
  <2>1. PICK d \in Nat \X Nat : d = <<p.thread, i>>
    BY <1>4 DEF PaidPosts
  <2>2. q = [p EXCEPT !.pc = "ok", !.data = d]
    BY <1>1, <1>3, <2>1
  <2> QED
    BY <1>4, <2>1, <2>2 DEF PaidPosts, Places
<1>6. PostOK(q) /\ IsNew(c, q)
  BY <1>3, <1>4, <1>5 DEF PaidOK, PostOK, IsNew, OrderPosts
<1>7. ThreadsOK' /\ ThreadsGrow /\ SessionOK'
  BY <1>2, ThreadsStill, SessionStays DEF BridgeInv
<1>8. BridgeGrows
  BY <1>1, <1>2, <1>4, <1>7, Grows DEF BridgeInv
<1>9. PostOK(q)'
  BY <1>2, <1>6, <1>8, PostStays DEF BridgeInv
<1>10. OrdersOK'
  <2>1. /\ orders' \in [Offers -> Nat]
        /\ \A ref \in Offers : orders'[ref] # 0 => orders'[ref] = orders[ref]
    BY <1>2, <1>4 DEF BridgeInv, OrdersOK, PaidPosts
  <2>2. ASSUME NEW ref \in Offers, orders'[ref] # 0
        PROVE  IsPlaced(ref, orders[ref])'
    <3>1. PICK t : t = orders'[ref]
      OBVIOUS
    <3>2. IsPlaced(ref, t)
      BY <2>1, <2>2, <3>1 DEF BridgeInv, OrdersOK
    <3>3. IsPlaced(ref, t)'
      BY <1>8, <3>2, PlacedStays
    <3> QED
      BY <3>1, <3>3
  <2> QED
    BY <2>1, <2>2 DEF OrdersOK
<1> QED
  BY <1>2, <1>5, <1>6, <1>7, <1>8, <1>9, <1>10, CallMoves

LEMMA SellerSaysKeeps ==
    ASSUME BridgeInv, SellerSays
    PROVE  BridgeInv'
<1>1. PICK t \in DOMAIN threads :
        \/ \E ref \in Offers \cup {None} : Say(t, Message("PAYMENT_REQUIRED", ref, None))
        \/ Say(t, Message("DELIVERED", None, None))
  BY DEF SellerSays
<1>2. UNCHANGED <<faults, session, creating, sessions, orders, doors, post>>
  BY DEF SellerSays, payVars
<1>3. t \in 1..Len(threads)
  BY DEF BridgeInv, ThreadsOK
<1>4. PICK m \in Messages : m.has = None /\ Say(t, m)
  <2>1. \A ref \in Offers \cup {None} :
           /\ Message("PAYMENT_REQUIRED", ref, None) \in Messages
           /\ Message("PAYMENT_REQUIRED", ref, None).has = None
    BY DEF Message, Messages
  <2>2. /\ Message("DELIVERED", None, None) \in Messages
        /\ Message("DELIVERED", None, None).has = None
    BY DEF Message, Messages
  <2> QED
    BY <1>1, <2>1, <2>2
<1>5. ThreadsOK' /\ ThreadsGrow
  BY <1>3, <1>4, SayKeeps DEF BridgeInv
<1>6. SessionOK'
  BY <1>2 DEF BridgeInv, SessionOK
<1> QED
  BY <1>2, <1>5, <1>6, CallsStay

LEMMA DoorMoves ==
    ASSUME faults \in Nat, BridgeInv, UNCHANGED orderVars,
           faults' \in {faults, faults + 1}, NEW c \in Posts, post[c].pc # "ok", NEW p,
           post' = [post EXCEPT ![c] = p], DoorOK(p)', DoorsOK',
           \A b \in Posts \ {c} : DoorOK(post[b]) => \A q : q = post[b] => DoorOK(q)'
    PROVE  BridgeInv'
<1>1. ThreadsOK' /\ ThreadsGrow /\ SessionOK'
  BY ThreadsStill, SessionStays DEF BridgeInv, orderVars
<1>2. BridgeGrows
  BY <1>1, Grows DEF BridgeInv
<1>3. PostOK(p)' /\ IsNew(c, p)
  BY DEF PostOK, IsNew, DoorOK, DoorPosts, OrderPosts
<1>4. ASSUME NEW b \in Posts \ {c}, NEW q, q = post[b]
      PROVE  PostOK(q)'
  <2>1. PostOK(q)
    BY <1>4 DEF BridgeInv, PostsOK
  <2>2. DoorOK(q) => DoorOK(q)'
    BY <1>4
  <2>3. OrderOK(q) => OrderOK(q)'
    BY DEF OrderOK, orderVars
  <2>4. PaidOK(q) => PaidOK(q)'
    BY <1>1, <1>2, PlacedStays, FoundStays DEF PaidOK, ThreadsGrow, BridgeInv
  <2> QED
    BY <2>1, <2>2, <2>3, <2>4 DEF PostOK
<1>5. PostsOK'
  BY <1>3, <1>4, PostsMove DEF BridgeInv
<1>6. OrdersOK'
  BY <1>2, OrdersStay DEF BridgeInv, orderVars
<1> QED
  BY <1>1, <1>5, <1>6 DEF BridgeInv

LEMMA DoorIs ==
    ASSUME BridgeInv, NEW c \in Posts, NEW p, p = post[c], p.pc \in {"launch", "feed"}
    PROVE  DoorOK(p) /\ p \in DoorPosts
<1>1. PostOK(p)
  BY DEF BridgeInv, PostsOK
<1>2. p # Unposted /\ p \notin LostPosts /\ ~OrderOK(p) /\ ~PaidOK(p)
  BY DEF Unposted, LostPosts, OrderOK, OrderPosts, PaidOK, PaidPosts, Places
<1> QED
  BY <1>1, <1>2 DEF PostOK, DoorOK

LEMMA DoorCallIs ==
    ASSUME BridgeInv, NEW op \in {"start", "feed"}, NEW door \in DoorNames,
           NEW pc \in {"400", "launch", "feed", "ok"}, NEW p, p = DoorCall(op, pc, door, doors[door].sid)
    PROVE  /\ p \in DoorPosts /\ p.op = op /\ p.pc = pc /\ p.door = door
           /\ p.sid = doors[door].sid
<1>1. doors[door].sid \in Nat
  BY DEF BridgeInv, DoorsOK
<1> QED
  BY <1>1 DEF DoorCall, DoorPosts

LEMMA PostStartKeeps ==
    ASSUME faults \in Nat, BridgeInv, NEW c \in Posts, NEW door \in DoorNames,
           PostStart(c, door)
    PROVE  BridgeInv'
<1>1. PICK pc, p :
        /\ pc = IF door \notin Doors THEN "400" ELSE IF doors[door].sid # 0 THEN "ok" ELSE "launch"
        /\ p = DoorCall("start", pc, door, doors[door].sid)
        /\ post' = [post EXCEPT ![c] = p]
        /\ doors' = [doors EXCEPT ![door].raced = @ \/ (pc = "launch" /\ Starting(door) # {})]
  BY DEF PostStart
<1>2. /\ post[c].pc = "idle" /\ UNCHANGED <<faults, orderVars>>
  BY DEF PostStart, payVars, orderVars
<1>3. /\ p \in DoorPosts /\ p.op = "start" /\ p.pc = pc /\ p.door = door
      /\ p.sid = doors[door].sid /\ pc \in {"400", "launch", "ok"}
      /\ pc = "launch" => doors[door].sid = 0
      /\ pc = "ok" => doors[door].sid # 0
  <2>1. /\ pc \in {"400", "launch", "ok"}
        /\ pc = "launch" => doors[door].sid = 0
        /\ pc = "ok" => doors[door].sid # 0
    BY <1>1
  <2> QED
    BY <1>1, <2>1, DoorCallIs
<1>4. PICK raced \in BOOLEAN : raced = (doors[door].raced \/ (pc = "launch" /\ Starting(door) # {}))
  OBVIOUS
<1>5. /\ doors \in [DoorNames -> [sid : Nat, opened : Nat, raced : BOOLEAN]]
      /\ doors' = [doors EXCEPT ![door].raced = raced]
  BY <1>1, <1>4 DEF BridgeInv, DoorsOK
<1>6. /\ doors' \in [DoorNames -> [sid : Nat, opened : Nat, raced : BOOLEAN]]
      /\ \A d \in DoorNames : doors'[d].sid = doors[d].sid /\ doors'[d].opened = doors[d].opened
      /\ \A d \in DoorNames : d # door => doors'[d].raced = doors[d].raced
      /\ doors'[door].raced = raced
  BY <1>5
<1>7. DoorOK(p)'
  BY <1>3, <1>6 DEF DoorOK
<1>8. ASSUME NEW b \in Posts \ {c}, DoorOK(post[b]), NEW q, q = post[b]
      PROVE  DoorOK(q)'
  <2>1. ~doors'[q.door].raced => ~doors[q.door].raced
    BY <1>4, <1>6, <1>8 DEF DoorOK, DoorPosts
  <2>2. q.door \in DoorNames
    BY <1>8 DEF DoorOK, DoorPosts
  <2> QED
    BY <1>6, <1>8, <2>1, <2>2 DEF DoorOK
<1>9. DoorsOK'
  <2>1. /\ DOMAIN post' = Posts /\ post'[c] = p
        /\ \A b \in Posts : b # c => post'[b] = post[b]
    BY <1>1 DEF BridgeInv, PostsOK
  <2>2. ASSUME NEW d \in DoorNames, ~doors'[d].raced
        PROVE  \A a, b \in Starting(d)' : a = b
    <3>1. ~doors[d].raced /\ \A a, b \in Starting(d) : a = b
      BY <1>4, <1>6, <2>2 DEF BridgeInv, DoorsOK
    <3>2. Starting(d)' \subseteq Starting(d) \cup {c}
      BY <2>1 DEF Starting
    <3>3. CASE d = door /\ pc = "launch"
      <4>1. Starting(d) = {}
        BY <1>4, <1>6, <2>2, <3>3
      <4> QED
        BY <3>2, <4>1
    <3>4. CASE ~(d = door /\ pc = "launch")
      <4>1. c \notin Starting(d)'
        BY <1>3, <2>1, <3>4 DEF Starting
      <4> QED
        BY <3>1, <3>2, <4>1
    <3> QED
      BY <3>3, <3>4
  <2>3. \A d \in DoorNames : ~doors'[d].raced => ~doors[d].raced
    BY <1>4, <1>6
  <2> QED
    BY <1>2, <1>6, <2>2, <2>3 DEF BridgeInv, DoorsOK
<1> QED
  BY <1>1, <1>2, <1>7, <1>8, <1>9, DoorMoves

LEMMA PostFeedKeeps ==
    ASSUME faults \in Nat, BridgeInv, NEW c \in Posts, NEW door \in DoorNames,
           PostFeed(c, door)
    PROVE  BridgeInv'
<1>1. PICK pc, p :
        /\ pc \in {"ok", "feed"} /\ p = DoorCall("feed", pc, door, doors[door].sid)
        /\ post' = [post EXCEPT ![c] = p]
  BY DEF PostFeed
<1>2. post[c].pc = "idle" /\ UNCHANGED <<faults, orderVars, doors>>
  BY DEF PostFeed, payVars
<1>3. /\ p \in DoorPosts /\ p.op = "feed" /\ p.pc = pc /\ p.door = door
      /\ p.sid = doors[door].sid
  BY <1>1, DoorCallIs
<1>4. DoorOK(p)
  BY <1>1, <1>3 DEF DoorOK
<1>5. PostOK(p)' /\ p.pc # "launch" /\ IsNew(c, p)
  BY <1>1, <1>2, <1>3, <1>4 DEF PostOK, DoorOK, IsNew, OrderPosts
<1>6. ThreadsOK' /\ ThreadsGrow /\ SessionOK'
  BY <1>2, ThreadsStill, SessionStays DEF BridgeInv, orderVars
<1>7. BridgeGrows
  BY <1>1, <1>2, <1>6, Grows DEF BridgeInv
<1>8. OrdersOK'
  BY <1>2, <1>7, OrdersStay DEF BridgeInv, orderVars
<1> QED
  BY <1>1, <1>2, <1>5, <1>6, <1>7, <1>8, CallMoves

LEMMA FeedReadKeeps ==
    ASSUME faults \in Nat, BridgeInv, NEW c \in Posts, FeedRead(c)
    PROVE  BridgeInv' /\ faults' \in {faults, faults + 1}
<1>1. /\ post[c].pc = "feed" /\ UNCHANGED <<orderVars, doors>>
      /\ faults' \in {faults, faults + 1}
      /\ Now(c, "ok") \/ Now(c, "502")
  BY DEF FeedRead, BadGateway, Fault
<1>2. PICK pc \in {"ok", "502"} : Now(c, pc)
  BY <1>1
<1>3. PICK p, q : p = post[c] /\ q = [p EXCEPT !.pc = pc]
  OBVIOUS
<1>4. DoorOK(p) /\ p \in DoorPosts /\ p.op = "feed"
  BY <1>1, <1>3, DoorIs DEF DoorOK
<1>5. /\ q \in DoorPosts /\ q.pc = pc /\ q.op = "feed" /\ q.door = p.door /\ q.sid = p.sid
  BY <1>3, <1>4 DEF DoorPosts
<1>6. DoorOK(q)
  BY <1>4, <1>5 DEF DoorOK
<1>7. PostOK(q)' /\ q.pc # "launch" /\ IsNew(c, q)
  BY <1>1, <1>5, <1>6 DEF PostOK, DoorOK, IsNew, OrderPosts
<1>8. ThreadsOK' /\ ThreadsGrow /\ SessionOK'
  BY <1>1, ThreadsStill, SessionStays DEF BridgeInv, orderVars
<1>9. post' = [post EXCEPT ![c] = q]
  BY <1>2, <1>3 DEF Now
<1>10. BridgeGrows
  BY <1>1, <1>8, <1>9, Grows DEF BridgeInv
<1>11. OrdersOK'
  BY <1>1, <1>10, OrdersStay DEF BridgeInv, orderVars
<1> QED
  BY <1>1, <1>7, <1>8, <1>9, <1>10, <1>11, CallMoves

LEMMA LaunchedKeeps ==
    ASSUME faults \in Nat, BridgeInv, NEW c \in Posts, Launched(c)
    PROVE  BridgeInv' /\ faults' \in {faults, faults + 1}
<1>1. PICK p, door, new : p = post[c] /\ door = p.door /\ new = doors[door].opened + 1
  OBVIOUS
<1>2. /\ p.pc = "launch" /\ UNCHANGED orderVars
      /\ \/ /\ doors' = [doors EXCEPT ![door].opened = new, ![door].sid = new]
            /\ post' = [post EXCEPT ![c].pc = "ok", ![c].sid = new]
            /\ faults' = faults
         \/ /\ post' = [post EXCEPT ![c].pc = "502"] /\ faults' = faults + 1
            /\ doors' \in {doors, [doors EXCEPT ![door].opened = new]}
  BY <1>1 DEF Launched, BadGateway, Fault, Now, orderVars
<1>3. DoorOK(p) /\ p \in DoorPosts /\ door \in DoorNames
  BY <1>1, <1>2, DoorIs DEF DoorPosts
<1>4. /\ doors \in [DoorNames -> [sid : Nat, opened : Nat, raced : BOOLEAN]]
      /\ doors[door].opened \in Nat /\ new \in Nat \ {0} /\ faults \in Nat
  BY <1>1, <1>3, Counts DEF BridgeInv, DoorsOK
<1>5. c \in Starting(door)
  BY <1>1, <1>2 DEF Starting
<1>6. DOMAIN post = Posts
  BY DEF BridgeInv, PostsOK
<1>7. CASE /\ doors' = [doors EXCEPT ![door].opened = new, ![door].sid = new]
           /\ post' = [post EXCEPT ![c].pc = "ok", ![c].sid = new]
           /\ faults' = faults
  <2>1. PICK q : q = [p EXCEPT !.pc = "ok", !.sid = new]
    OBVIOUS
  <2>2. q \in DoorPosts /\ q.pc = "ok" /\ q.sid = new /\ q.door = door /\ q.op = p.op
    BY <1>1, <1>3, <1>4, <2>1 DEF DoorPosts
  <2>3. /\ doors' \in [DoorNames -> [sid : Nat, opened : Nat, raced : BOOLEAN]]
        /\ \A d \in DoorNames : doors'[d].raced = doors[d].raced
        /\ \A d \in DoorNames : d # door => doors'[d] = doors[d]
        /\ doors'[door].sid = new /\ doors'[door].opened = new
    BY <1>3, <1>4, <1>7
  <2>4. DoorOK(q)'
    BY <1>4, <2>2, <2>3 DEF DoorOK
  <2>5. ASSUME NEW b \in Posts \ {c}, DoorOK(post[b]), NEW r, r = post[b]
        PROVE  DoorOK(r)'
    <3>1. r \in DoorPosts /\ r.door \in DoorNames /\ DoorOK(r)
      BY <2>5 DEF DoorOK, DoorPosts
    <3>2. CASE r.door # door
      BY <2>3, <3>1, <3>2 DEF DoorOK
    <3>3. CASE r.door = door /\ ~doors[door].raced
      <4>1. doors[door].sid = 0
        BY <1>1, <1>2, <1>3, <3>3 DEF DoorOK
      <4>2. r.pc # "launch"
        <5>1. r.pc = "launch" => b \in Starting(door)
          BY <2>5, <3>3 DEF Starting
        <5> QED
          BY <1>3, <1>5, <2>5, <3>3, <5>1 DEF BridgeInv, DoorsOK
      <4>3. ~(r.op = "start" /\ r.pc = "ok") /\ (r.op = "feed" => r.sid = 0)
            /\ (r.pc = "feed" => r.op = "feed")
        BY <3>1, <3>3, <4>1 DEF DoorOK
      <4> QED
        BY <2>3, <3>1, <4>2, <4>3 DEF DoorOK
    <3>4. CASE r.door = door /\ doors[door].raced
      BY <1>3, <2>3, <3>1, <3>4 DEF DoorOK
    <3> QED
      BY <3>2, <3>3, <3>4
  <2>6. post' = [post EXCEPT ![c] = q]
    BY <1>1, <1>7, <2>1
  <2>7. DoorsOK'
    <3>1. \A d \in DoorNames : Starting(d)' \subseteq Starting(d)
      BY <1>6, <2>2, <2>6 DEF Starting
    <3>2. ASSUME ~doors[door].raced
          PROVE  new <= faults + 1
      BY <1>1, <1>2, <1>3, <1>4, <3>2 DEF BridgeInv, DoorsOK, DoorOK
    <3>3. \A d \in DoorNames : d # door => doors'[d].sid = doors[d].sid /\ doors'[d].opened = doors[d].opened
      BY <2>3
    <3> QED
      BY <1>4, <1>7, <2>3, <3>1, <3>2, <3>3 DEF BridgeInv, DoorsOK
  <2> QED
    BY <1>1, <1>2, <1>7, <2>4, <2>5, <2>6, <2>7, DoorMoves
<1>8. CASE /\ post' = [post EXCEPT ![c].pc = "502"] /\ faults' = faults + 1
           /\ doors' \in {doors, [doors EXCEPT ![door].opened = new]}
  <2>1. PICK q : q = [p EXCEPT !.pc = "502"]
    OBVIOUS
  <2>2. q \in DoorPosts /\ q.pc = "502" /\ q.sid = p.sid /\ q.door = door /\ q.op = p.op
    BY <1>1, <1>3, <2>1 DEF DoorPosts
  <2>3. /\ doors' \in [DoorNames -> [sid : Nat, opened : Nat, raced : BOOLEAN]]
        /\ \A d \in DoorNames : /\ doors'[d].raced = doors[d].raced /\ doors'[d].sid = doors[d].sid
                               /\ doors'[d].opened \in {doors[d].opened, doors[d].opened + 1}
    <3>1. CASE doors' = doors
      BY <1>4, <3>1
    <3>2. CASE doors' = [doors EXCEPT ![door].opened = new]
      BY <1>1, <1>3, <1>4, <3>2
    <3> QED
      BY <1>8, <3>1, <3>2
  <2>4. DoorOK(q)'
    BY <1>1, <1>3, <2>2, <2>3 DEF DoorOK
  <2>5. ASSUME NEW b \in Posts \ {c}, DoorOK(post[b]), NEW r, r = post[b]
        PROVE  DoorOK(r)'
    <3>1. r.door \in DoorNames
      BY <2>5 DEF DoorOK, DoorPosts
    <3> QED
      BY <2>3, <2>5, <3>1 DEF DoorOK
  <2>6. post' = [post EXCEPT ![c] = q]
    BY <1>1, <1>8, <2>1
  <2>7. DoorsOK'
    <3>1. \A d \in DoorNames : Starting(d)' \subseteq Starting(d)
      BY <1>6, <2>2, <2>6 DEF Starting
    <3>2. ASSUME NEW d \in DoorNames, ~doors'[d].raced
          PROVE  doors'[d].opened <= faults' + (IF doors'[d].sid = 0 THEN 0 ELSE 1)
      <4>1. /\ doors[d].opened \in Nat /\ ~doors[d].raced
            /\ doors[d].opened <= faults + (IF doors[d].sid = 0 THEN 0 ELSE 1)
        BY <2>3, <3>2 DEF BridgeInv, DoorsOK
      <4>2. doors'[d].opened <= doors[d].opened + 1 /\ doors'[d].opened \in Nat
        BY <2>3, <4>1
      <4> QED
        BY <1>4, <1>8, <2>3, <4>1, <4>2
    <3>3. \A d \in DoorNames : ~doors'[d].raced => ~doors[d].raced
      BY <2>3
    <3> QED
      BY <2>3, <3>1, <3>2, <3>3 DEF BridgeInv, DoorsOK
  <2> QED
    BY <1>1, <1>2, <1>8, <2>4, <2>5, <2>6, <2>7, DoorMoves
<1> QED
  BY <1>2, <1>7, <1>8

LEMMA BridgeKeeps ==
    ASSUME ChainOK, BridgeInv, BridgeStep \/ BridgeEvent
    PROVE  BridgeInv' /\ UNCHANGED <<demo, chain, debited, refs>> /\ faults' \in Nat
<1>1. faults \in Nat
  BY Counts
<1>2. CASE SessionCreated
  <2>1. /\ UNCHANGED <<payVars, threads, orders, doors, post>>
        /\ creating > 0 /\ creating' = creating - 1 /\ sessions' = sessions + 1
        /\ session' = "ready"
    BY <1>2 DEF SessionCreated
  <2>2. SessionOK' /\ ThreadsOK' /\ ThreadsGrow
    BY <1>1, <2>1, ThreadsStill DEF BridgeInv, SessionOK, payVars
  <2> QED
    BY <1>1, <2>1, <2>2, CallsStay DEF payVars
<1>3. CASE SessionFails
  BY <1>1, <1>3, SessionFailsKeeps DEF SessionFails, Fault
<1>4. ASSUME NEW c \in Posts, Handle(c)
      PROVE  /\ BridgeInv' /\ UNCHANGED <<demo, chain, debited, refs>>
             /\ faults' \in {faults, faults + 1}
  <2>1. CASE Rejected(c) \/ TimedOut(c)
    <3>1. /\ UNCHANGED <<payVars, session, creating, sessions, threads, orders, doors>>
          /\ post[c].pc \in {"session", "poll"} /\ Now(c, "502")
      BY <2>1 DEF Rejected, TimedOut
    <3>2. ThreadsOK' /\ ThreadsGrow
      BY <3>1, ThreadsStill DEF BridgeInv
    <3> QED
      BY <1>1, <3>1, <3>2, RefusedCall DEF payVars
  <2>2. CASE AskForPrice(c) \/ TellSeller(c)
    <3>1. UNCHANGED <<demo, chain, debited, refs>>
      BY <2>2 DEF AskForPrice, TellSeller
    <3> QED
      BY <1>1, <2>2, <3>1, AskForPriceKeeps, TellSellerKeeps
  <2>3. CASE OrderPlaced(c) \/ Delivered(c)
    <3>1. UNCHANGED payVars
      BY <2>3 DEF OrderPlaced, Delivered
    <3> QED
      BY <1>1, <2>3, <3>1, OrderPlacedKeeps, DeliveredKeeps DEF payVars
  <2>4. CASE Launched(c) \/ FeedRead(c)
    <3>1. UNCHANGED <<demo, chain, debited, refs>>
      BY <2>4 DEF Launched, FeedRead
    <3> QED
      BY <1>1, <2>4, <3>1, LaunchedKeeps, FeedReadKeeps
  <2> QED
    BY <1>4, <2>1, <2>2, <2>3, <2>4 DEF Handle
<1>5. CASE PostSomething
  <2>1. PICK c \in Posts :
          \/ \E prompt \in Prompts : PostOrder(c, prompt)
          \/ \E ref \in Offers, sig \in BOOLEAN : PostPaid(c, ref, sig)
          \/ \E door \in DOMAIN doors : PostStart(c, door) \/ PostFeed(c, door)
    BY <1>5 DEF PostSomething
  <2>2. CASE \E prompt \in Prompts : PostOrder(c, prompt)
    <3>1. UNCHANGED payVars
      BY <2>2 DEF PostOrder
    <3> QED
      BY <1>1, <2>2, <3>1, PostOrderKeeps DEF payVars
  <2>3. CASE \E ref \in Offers, sig \in BOOLEAN : PostPaid(c, ref, sig)
    <3>1. UNCHANGED payVars
      BY <2>3 DEF PostPaid
    <3> QED
      BY <1>1, <2>3, <3>1, PostPaidKeeps DEF payVars
  <2>4. CASE \E door \in DOMAIN doors : PostStart(c, door) \/ PostFeed(c, door)
    <3>1. PICK door \in DoorNames : PostStart(c, door) \/ PostFeed(c, door)
      BY <2>4 DEF BridgeInv, DoorsOK
    <3>2. UNCHANGED payVars
      BY <3>1 DEF PostStart, PostFeed
    <3> QED
      BY <1>1, <3>1, <3>2, PostStartKeeps, PostFeedKeeps DEF payVars
  <2> QED
    BY <2>1, <2>2, <2>3, <2>4
<1>6. CASE SellerSays
  <2>1. UNCHANGED payVars
    BY <1>6 DEF SellerSays
  <2> QED
    BY <1>1, <1>6, <2>1, SellerSaysKeeps DEF payVars
<1> QED
  BY <1>1, <1>2, <1>3, <1>4, <1>5, <1>6 DEF BridgeStep, BridgeEvent

-----------------------------------------------------------------------------
(* The four deployments.                                                   *)

(* A deployment that does not pay from a wallet leaves it alone.           *)
LEMMA OthersWallet ==
    ASSUME ChainOK, NEW S, ChainStep(S), Buyer \notin S
    PROVE  debited'[Buyer] = debited[Buyer]
<1>1. CASE UNCHANGED debited
  BY <1>1
<1>2. ASSUME NEW t \in Transfers, t.from \in S, Land(t)
      PROVE  debited'[Buyer] = debited[Buyer]
  <2>1. debited \in [Payers -> Nat] /\ debited' = [debited EXCEPT ![t.from] = @ + t.amount]
    BY <1>2 DEF ChainOK, Land
  <2>2. Buyer # t.from /\ Buyer \in Payers
    BY <1>2, PurchaseAssumption
  <2> QED
    BY <2>1, <2>2
<1> QED
  BY <1>1, <1>2 DEF ChainStep

LEMMA OthersTransfers ==
    ASSUME ChainOK, NEW S, ChainStep(S), Me \notin S, \A i \in 1..Len(chain) : chain[i].from # Me
    PROVE  \A i \in 1..Len(chain') : chain'[i].from # Me
<1>1. CASE UNCHANGED chain
  BY <1>1
<1>2. ASSUME NEW t \in Transfers, t.from \in S, Land(t)
      PROVE  \A i \in 1..Len(chain') : chain'[i].from # Me
  <2>1. /\ Len(chain') = Len(chain) + 1 /\ Len(chain) \in Nat
        /\ \A i \in 1..Len(chain) : chain'[i] = chain[i]
        /\ chain'[Len(chain) + 1] = t
    BY <1>2, Appended DEF Land, ChainOK
  <2>2. \A i \in 1..Len(chain') : i \in 1..Len(chain) \/ i = Len(chain) + 1
    BY <2>1
  <2> QED
    BY <1>2, <2>1, <2>2
<1> QED
  BY <1>1, <1>2 DEF ChainStep

LEMMA PurchaseStarts ==
    ASSUME PaymentsInit, PurchaseInit
    PROVE  PurchaseInv
<1>1. /\ chain = <<>> /\ debited[Buyer] = 0 /\ refs = 0 /\ faults = 0
  BY PurchaseAssumption DEF PaymentsInit
<1>2. /\ buyer.pc = "turn" /\ buyer.strategy \in Strategies /\ buyer.turn = 0 /\ buyer.calls = <<>>
      /\ buyer.ref = None /\ buyer.told = {} /\ buyer.allowedRecipients = {}
      /\ buyer.allowedReferences = {} /\ buyer.spentLamports = 0
      /\ pending = {} /\ verifying = {} /\ served = [r \in References |-> 0] /\ resends = 0
  BY DEF PurchaseInit
<1>3. buyer \in Buyers
  <2>1. buyer \in [pc : {"turn"}, strategy : Strategies, turn : {0},
                   calls : {<<>>}, ref : {None}, told : {{}},
                   allowedRecipients : {{}}, allowedReferences : {{}},
                   spentLamports : {0}]
    BY DEF PurchaseInit
  <2>2. <<>> \in Seq(Requests) /\ None \in Marks(MaxRefs) /\ 0 \in Nat
    BY DEF Marks
  <2>3. {} \in SUBSET {RECIPIENT} /\ {} \in SUBSET Nat
    OBVIOUS
  <2> QED
    BY <1>2, <2>1, <2>2, <2>3 DEF Buyers
<1>4. BuyerOK
  BY <1>2, <1>3 DEF BuyerOK, IsBuyer
<1>5. SpendingOK
  BY <1>1, <1>2, PurchaseAssumption DEF SpendingOK
<1>6. ServerOK
  BY <1>1, <1>2 DEF ServerOK
<1>7. OnceOK /\ WaitingOK
  BY <1>1, <1>2 DEF OnceOK, WaitingOK
<1> QED
  BY <1>4, <1>5, <1>6, <1>7 DEF PurchaseInv

LEMMA BrokerStarts ==
    ASSUME PaymentsInit, BrokerInit
    PROVE  BrokerInv /\ BrokerRests
<1>1. chain = <<>> /\ refs = 0 /\ faults = 0
  BY DEF PaymentsInit
<1>2. /\ broker = [pc |-> "idle", cycle |-> 0, ask |-> None, asked |-> 0, quotes |-> {},
                   best |-> None, data |-> None, charge |-> None]
      /\ inbox = <<>> /\ said = {} /\ heard = {}
  BY DEF BrokerInit, Idle
<1>3. /\ broker.pc = "idle" /\ broker.cycle = 0 /\ broker.quotes = {}
  BY <1>2
<1>4. BrokerOK
  <2>1. Len(SELLERS) \in Nat
    BY BrokerAssumption
  <2>2. broker \in Brokers
    BY <1>2, <2>1 DEF Brokers
  <2> QED
    BY <1>3, <2>2 DEF BrokerOK
<1>5. MailOK /\ SaidOK /\ HeardOK
  BY <1>2 DEF MailOK, SaidOK, HeardOK
<1>6. BoughtOK /\ SellsWhatItBought
  BY <1>1, <1>2 DEF BoughtOK, SellsWhatItBought
<1>7. DealOK
  BY <1>3 DEF DealOK, Holding
<1>8. AnsweredOK
  BY <1>3 DEF AnsweredOK
<1> QED
  BY <1>1, <1>2, <1>3, <1>4, <1>5, <1>6, <1>7, <1>8 DEF BrokerInv, BrokerRests

LEMMA BridgeStarts ==
    ASSUME PaymentsInit, BridgeInit
    PROVE  BridgeInv /\ BridgeRests
<1>1. faults = 0
  BY DEF PaymentsInit
<1>2. /\ BridgeRests /\ threads = <<>> /\ orders = [ref \in Offers |-> 0]
      /\ session = "none" /\ creating = 0
  BY DEF BridgeInit, BridgeRests, DoorNames
<1>3. SessionOK /\ ThreadsOK /\ OrdersOK
  BY <1>1, <1>2 DEF BridgeRests, SessionOK, ThreadsOK, OrdersOK
<1>4. PostsOK
  <2>1. \A c \in Posts : post[c] = Unposted /\ post[c] \notin OrderPosts
    BY <1>2 DEF BridgeRests, Unposted, OrderPosts
  <2> QED
    BY <1>2, <2>1 DEF BridgeRests, PostsOK, PostOK, ThreadOfOne
<1>5. DoorsOK
  <2>1. \A d \in DoorNames : Starting(d) = {}
    BY <1>2 DEF BridgeRests, Starting, Unposted
  <2> QED
    BY <1>1, <1>2, <2>1 DEF BridgeRests, DoorsOK
<1> QED
  BY <1>2, <1>3, <1>4, <1>5 DEF BridgeInv

LEMMA OracleStarts ==
    ASSUME OracleInit
    PROVE  OracleInv /\ OracleRests
<1>1. handlers = [h \in Handlers |-> New("get")]
  BY DEF OracleInit
<1>2. IsHandler(New("get"), faults)
  BY NewIs DEF New, IsHandler, Begun
<1>3. BoardOK
  BY DEF OracleInit, BoardOK, Fresh, Old
<1> QED
  BY <1>1, <1>2, <1>3 DEF OracleInv, HandlersOK, OracleRests

LEMMA PayStarts ==
    ASSUME PayInit
    PROVE  PayInv
<1>1. /\ PaymentsInit /\ PurchaseInit /\ BrokerInit /\ BridgeInit /\ OracleInit
      /\ demo # "quickstart" => buyer.strategy = "guarded"
  BY DEF PayInit
<1>2. ChainOK
  BY <1>1, PaymentsAssumption DEF PaymentsInit, ChainOK
<1>3. PurchaseInv /\ (demo # "quickstart" => PurchaseRests)
  BY <1>1, PurchaseStarts, PurchaseAssumption DEF PaymentsInit, PurchaseInit, PurchaseRests
<1> QED
  BY <1>1, <1>2, <1>3, BrokerStarts, BridgeStarts, OracleStarts DEF PayInv

LEMMA PayKeeps ==
    ASSUME PayInv, [PayNext]_vars
    PROVE  PayInv'
<1>1. ChainOK
  BY DEF PayInv
<1>2. CASE UNCHANGED vars
  <2>1. UNCHANGED <<payVars, purchaseVars, brokerVars, bridgeVars, oracleVars>>
    BY <1>2 DEF vars
  <2>2. ChainOK'
    BY <1>1, <2>1 DEF payVars, ChainOK
  <2>3. (PurchaseInv => PurchaseInv') /\ (PurchaseRests => PurchaseRests')
    BY <2>1 DEF payVars, purchaseVars, PurchaseInv, PurchaseRests, BuyerOK, SpendingOK, ServerOK,
       OnceOK, WaitingOK, PaidUnder, VerifyPayment, ValidTransfer, OldestWith, Paid
  <2>4. (BrokerInv => BrokerInv') /\ (BrokerRests => BrokerRests')
    BY <2>1 DEF payVars, brokerVars, BrokerInv, BrokerRests, BrokerOK, MailOK, SaidOK, HeardOK,
       BoughtOK, Buys, PaysQuote, DealOK, BoughtFrom, PaidUnder, Paid, Charged, SellsWhatItBought,
       AnsweredOK, AnswersTo
  <2>5. (BridgeInv => BridgeInv') /\ (BridgeRests => BridgeRests')
    <3>1. ASSUME BridgeInv
          PROVE  BridgeInv'
      <4>1. ThreadsOK' /\ ThreadsGrow /\ SessionOK'
        BY <2>1, <3>1, ThreadsStill DEF BridgeInv, SessionOK, payVars, bridgeVars
      <4> QED
        BY <2>1, <3>1, <4>1, CallsStay DEF payVars, bridgeVars
    <3> QED
      BY <2>1, <3>1 DEF bridgeVars, BridgeRests
  <2>6. (OracleInv => OracleInv') /\ (OracleRests => OracleRests')
    BY <2>1 DEF payVars, oracleVars, OracleInv, OracleRests, HandlersOK, BoardOK
  <2> QED
    BY <2>1, <2>2, <2>3, <2>4, <2>5, <2>6 DEF PayInv, payVars
<1>3. ASSUME UNCHANGED purchaseVars, PurchaseRests, NEW S, ChainStep(S), Buyer \notin S
      PROVE  PurchaseRests'
  BY <1>1, <1>3, OthersWallet DEF PurchaseRests, purchaseVars
<1>4. ASSUME UNCHANGED brokerVars, BrokerRests, NEW S, ChainStep(S), Me \notin S
      PROVE  BrokerRests'
  BY <1>1, <1>4, OthersTransfers DEF BrokerRests, brokerVars
<1>5. UNCHANGED bridgeVars /\ BridgeRests => BridgeRests'
  BY DEF BridgeRests, bridgeVars
<1>6. UNCHANGED oracleVars /\ OracleRests => OracleRests'
  BY DEF OracleRests, oracleVars
<1>7. CASE PurchaseNext
  <2>1. /\ (PurchaseStep \/ PurchaseEvent) /\ demo = "quickstart"
        /\ UNCHANGED <<brokerVars, bridgeVars, oracleVars>>
    BY <1>7 DEF PurchaseNext, PurchaseStep, PurchaseEvent
  <2>2. PurchaseInv /\ BrokerRests /\ BridgeRests /\ OracleRests
    BY <2>1 DEF PayInv
  <2>3. /\ PurchaseInv' /\ ChainStep({Buyer}) /\ UNCHANGED demo
        /\ refs' \in refs..MaxRefs /\ faults' \in Nat
    BY <1>1, <2>1, <2>2, PurchaseKeeps
  <2>4. ChainOK'
    BY <1>1, <2>3, ChainKept
  <2>5. Me \notin {Buyer}
    BY DEF Me, Buyer
  <2> QED
    BY <1>4, <1>5, <1>6, <2>1, <2>2, <2>3, <2>4, <2>5 DEF PayInv
<1>8. CASE BrokerNext
  <2>1. /\ (BrokerStep \/ BrokerEvent) /\ demo = "swarm"
        /\ UNCHANGED <<purchaseVars, bridgeVars, oracleVars>>
    BY <1>8 DEF BrokerNext, BrokerStep, BrokerEvent
  <2>2. PurchaseRests /\ BrokerInv /\ BridgeRests /\ OracleRests
    BY <2>1 DEF PayInv
  <2>3. /\ BrokerInv' /\ UNCHANGED demo /\ ChainStep(Customers \cup {Me})
        /\ refs' \in refs..MaxRefs /\ faults' \in Nat
    BY <1>1, <2>1, <2>2, BrokerKeeps
  <2>4. ChainOK'
    BY <1>1, <2>3, ChainKept
  <2>5. Buyer \notin Customers \cup {Me}
    BY WalletsAssumption DEF Me, Buyer
  <2> QED
    BY <1>3, <1>5, <1>6, <2>1, <2>2, <2>3, <2>4, <2>5 DEF PayInv
<1>9. CASE BridgeNext
  <2>1. /\ (BridgeStep \/ BridgeEvent) /\ demo = "web"
        /\ UNCHANGED <<purchaseVars, brokerVars, oracleVars>>
    BY <1>9 DEF BridgeNext, BridgeStep, BridgeEvent
  <2>2. PurchaseRests /\ BrokerRests /\ BridgeInv /\ OracleRests
    BY <2>1 DEF PayInv
  <2>3. BridgeInv' /\ UNCHANGED <<demo, chain, debited, refs>> /\ faults' \in Nat
    BY <1>1, <2>1, <2>2, BridgeKeeps
  <2>4. ChainOK' /\ ChainStep({})
    BY <1>1, <2>3 DEF ChainOK, ChainStep
  <2> QED
    BY <1>3, <1>4, <1>6, <2>1, <2>2, <2>3, <2>4 DEF PayInv
<1>10. CASE OracleNext
  <2>1. /\ (OracleStep \/ OracleEvent) /\ demo = "oracle"
        /\ UNCHANGED <<purchaseVars, brokerVars, bridgeVars>>
    BY <1>10 DEF OracleNext, OracleStep, OracleEvent
  <2>2. PurchaseRests /\ BrokerRests /\ BridgeRests /\ OracleInv
    BY <2>1 DEF PayInv
  <2>3. OracleInv' /\ UNCHANGED <<demo, chain, debited, refs>> /\ faults' \in Nat
    BY <1>1, <2>1, <2>2, OracleKeeps
  <2>4. ChainOK' /\ ChainStep({})
    BY <1>1, <2>3 DEF ChainOK, ChainStep
  <2> QED
    BY <1>3, <1>4, <1>5, <2>1, <2>2, <2>3, <2>4 DEF PayInv
<1> QED
  BY <1>2, <1>7, <1>8, <1>9, <1>10 DEF PayNext

-----------------------------------------------------------------------------
(* The theorems.                                                           *)

\* In every deployment the chain only holds transfers that the code makes, the
\* parts that do not run stand still, and the part that runs keeps its own
\* invariant: the purchase loop and its server, the broker, the bridge, the
\* proxy.
THEOREM PayInvariant == PaySpec => []PayInv
<1>1. PayInit => PayInv
  BY PayStarts
<1>2. PayInv /\ [PayNext]_vars => PayInv'
  BY PayKeeps
<1> QED
  BY <1>1, <1>2, PTL DEF PaySpec

\* However the model calls its tools and whatever throws, the guard keeps what
\* a guarded buyer's wallet has sent within its budget (guard.ts:28-43).
THEOREM BudgetIsEnforced == PaySpec => []BudgetHolds
<1>1. PayInv => BudgetHolds
  BY PurchaseAssumption DEF PayInv, PurchaseInv, SpendingOK, PurchaseRests, BudgetHolds
<1> QED
  BY <1>1, PayInvariant, PTL

\* Data are delivered only for a paid reference, and once if no proof is
\* delivered twice, restarts of the server included (quickstart/server.ts:52-66).
THEOREM DeliveriesArePaid == PaySpec => []ServedWasPaid
<1>1. PayInv => ServedWasPaid
  <2> SUFFICES ASSUME PayInv PROVE ServedWasPaid
    OBVIOUS
  <2>1. CASE demo = "quickstart"
    <3>1. ServerOK /\ OnceOK /\ DOMAIN chain = 1..Len(chain)
      BY <2>1 DEF PayInv, PurchaseInv, ChainOK
    <3> QED
      BY <3>1 DEF ServerOK, OnceOK, PaidUnder, ServedWasPaid
  <2>2. CASE demo # "quickstart"
    <3>1. served = [r \in References |-> 0]
      BY <2>2 DEF PayInv, PurchaseRests
    <3> QED
      BY <3>1 DEF ServedWasPaid
  <2> QED
    BY <2>1, <2>2
<1> QED
  BY <1>1, PayInvariant, PTL

\* Who has paid what the challenge asked for has been served when the call
\* returns, unless a call failed (quickstart/buyer.ts:46-67).
THEOREM PaymentIsAnswered == PaySpec => []PayerIsServed
<1>1. PayInv => PayerIsServed
  BY DEF PayInv, PurchaseInv, WaitingOK, PurchaseRests, PayerIsServed
<1> QED
  BY <1>1, PayInvariant, PTL

\* The broker resells what it has bought in the same cycle, to who has paid for
\* it, at no loss for quotes of 2500 lamports and more (broker/src/index.ts:60-91).
THEOREM BrokerIsHonest == PaySpec => []SellsWhatItBought
<1>1. PayInv => SellsWhatItBought
  <2>1. BrokerRests => SellsWhatItBought
    BY DEF BrokerRests, SellsWhatItBought
  <2> QED
    BY <2>1 DEF PayInv, BrokerInv
<1> QED
  BY <1>1, PayInvariant, PTL

\* The broker buys at most once in a cycle, within its cap, and answers every
\* request exactly once if no call failed (broker/src/index.ts:55-95).
THEOREM BrokerBuysOnce == PaySpec => []OncePerRequest
<1>1. PayInv => OncePerRequest
  <2> SUFFICES ASSUME PayInv PROVE OncePerRequest
    OBVIOUS
  <2>1. DOMAIN chain = 1..Len(chain)
    BY DEF PayInv, ChainOK
  <2>2. CASE demo = "swarm"
    <3>1. BoughtOK /\ AnsweredOK
      BY <2>2 DEF PayInv, BrokerInv
    <3>2. \A i \in DOMAIN chain : chain[i].from = Me =>
            /\ chain[i].amount <= MAX_SOL
            /\ \A j \in DOMAIN chain, p \in heard, q \in heard :
                 /\ chain[j].from = Me
                 /\ p.kind = "quote" /\ p.body.ref = chain[i].ref
                 /\ q.kind = "quote" /\ q.body.ref = chain[j].ref
                 /\ p.thread.cycle = q.thread.cycle
                 => i = j
      BY <2>1, <3>1 DEF BoughtOK, PaysQuote, Buys
    <3>3. ASSUME faults = 0, NEW n \in 1..broker.cycle
          PROVE  Cardinality(AnswersTo(n)) = IF n = broker.cycle /\ broker.pc # "idle" THEN 0 ELSE 1
      <4>1. IF n = broker.cycle /\ broker.pc # "idle" THEN AnswersTo(n) = {}
            ELSE \E m \in said : AnswersTo(n) = {m}
        BY <3>1, <3>3 DEF AnsweredOK
      <4>2. CASE n = broker.cycle /\ broker.pc # "idle"
        BY <4>1, <4>2, FS_EmptySet
      <4>3. CASE ~(n = broker.cycle /\ broker.pc # "idle")
        BY <4>1, <4>3, FS_Singleton
      <4> QED
        BY <4>2, <4>3
    <3> QED
      BY <3>2, <3>3 DEF OncePerRequest, AnswersTo
  <2>3. CASE demo # "swarm"
    <3>1. broker.cycle = 0 /\ \A i \in DOMAIN chain : chain[i].from # Me
      BY <2>1, <2>3 DEF PayInv, BrokerRests
    <3> QED
      BY <3>1 DEF OncePerRequest
  <2> QED
    BY <2>2, <2>3
<1> QED
  BY <1>1, PayInvariant, PTL

\* Whatever the seller says and however the orders overlap, /paid returns what
\* was said in the conversation of the order that was answered with its
\* reference, and the same to each call about it; all orders share one session,
\* and a door has one, unless a call failed or two starts overlapped
\* (bridge/server.ts:77-107,125-155,166-258,287-325).
THEOREM BridgeAnswersHold == PaySpec => []AnswersHold
<1>1. PayInv => AnswersHold
  <2> SUFFICES ASSUME PayInv PROVE AnswersHold
    OBVIOUS
  <2>1. CASE demo = "web"
    <3>1. BridgeInv /\ faults \in Nat
      BY <2>1 DEF PayInv, ChainOK
    <3>2. ASSUME NEW c \in Posts, NEW p, p = post[c], p.pc = "ok"
          PROVE  /\ p.op = "order" => p \in OrderPosts /\ p.thread # 0
                 /\ p.op = "paid" => PaidOK(p)
                 /\ p.op \in {"start", "feed"} => DoorOK(p)
      <4>1. PostOK(p) /\ p # Unposted /\ p \notin LostPosts
        BY <3>1, <3>2 DEF BridgeInv, PostsOK, Unposted, LostPosts
      <4> QED
        BY <3>2, <4>1, OrderIs DEF OrderOK
    <3>3. DataForOrder
      <4>1. SUFFICES ASSUME NEW c \in Posts, Returned(c)
                     PROVE  LET thread == post[c].thread
                                data == threads[post[c].data[1]][post[c].data[2]]
                            IN
                            /\ \E o \in Posts :
                                 /\ Placed(o, post[c].ref, thread)
                                 /\ \A d \in Posts : Placed(d, post[d].ref, thread) => d = o
                            /\ post[c].data[1] = thread
                            /\ data.kind = "DELIVERED" \/ (post[c].data[2] = 1 /\ data.has = "DELIVERED")
                            /\ \A d \in Posts : Returned(d) /\ post[d].thread = thread
                                  => post[d].data = post[c].data
        BY DEF DataForOrder
      <4>2. PICK p : p = post[c]
        OBVIOUS
      <4>3. PaidOK(p)
        BY <3>2, <4>1, <4>2 DEF Returned
      <4>4. PICK i \in Nat : p.data = <<p.thread, i>> /\ FoundAt(p.thread, "DELIVERED", i)
        BY <4>1, <4>2, <4>3 DEF PaidOK, Returned
      <4>5. PICK o \in Posts : Placed(o, p.ref, p.thread)
        BY <4>3 DEF PaidOK, IsPlaced
      <4>6. ASSUME NEW d \in Posts, Placed(d, post[d].ref, p.thread)
            PROVE  d = o
        <5>1. /\ post[d] \in OrderPosts /\ post[o] \in OrderPosts
              /\ post[d].thread = p.thread /\ post[o].thread = p.thread /\ post[o].thread # 0
          BY <3>2, <4>5, <4>6 DEF Placed
        <5> QED
          BY <3>1, <5>1 DEF BridgeInv, PostsOK, ThreadOfOne
      <4>7. PICK m : m = threads[p.thread][i]
        OBVIOUS
      <4>8. m.kind = "DELIVERED" \/ (i = 1 /\ m.has = "DELIVERED")
        <5>1. /\ p.thread \in 1..Len(threads) /\ i \in 1..Len(threads[p.thread])
              /\ Marked(m, "DELIVERED")
          BY <4>4, <4>7 DEF FoundAt
        <5>2. i # 1 => m.has = None
          <6>1. ThreadOK(threads[p.thread]) /\ Len(threads[p.thread]) \in Nat
            BY <3>1, <5>1 DEF BridgeInv, ThreadsOK
          <6>2. i # 1 => i \in 2..Len(threads[p.thread])
            BY <5>1, <6>1
          <6> QED
            BY <4>7, <6>1, <6>2 DEF ThreadOK
        <5>3. None # "DELIVERED"
          BY BridgeAssumption
        <5> QED
          BY <5>1, <5>2, <5>3 DEF Marked
      <4>9. ASSUME NEW d \in Posts, Returned(d), post[d].thread = p.thread
            PROVE  post[d].data = p.data
        <5>1. PaidOK(post[d])
          BY <3>2, <4>9 DEF Returned
        <5>2. PICK j \in Nat : post[d].data = <<p.thread, j>> /\ FoundAt(p.thread, "DELIVERED", j)
          BY <4>9, <5>1 DEF PaidOK, Returned
        <5>3. ~ (j < i) /\ ~ (i < j)
          BY <4>4, <5>2 DEF FoundAt
        <5>4. i = j
          BY <5>3
        <5> QED
          BY <4>4, <5>2, <5>4
      <4>10. p.data[1] = p.thread /\ p.data[2] = i
        BY <4>4
      <4> QED
        BY <4>2, <4>5, <4>6, <4>7, <4>8, <4>9, <4>10
    <3>4. OneSession
      BY <3>1 DEF BridgeInv, SessionOK, OneSession
    <3>5. ASSUME NEW c \in Posts, NEW p, p = post[c], p.pc = "ok", p.op \in {"start", "feed"}
          PROVE  \/ p.sid = doors[p.door].sid
                 \/ p.op = "feed" /\ p.sid = 0
                 \/ doors[p.door].raced
      BY <3>2, <3>5 DEF DoorOK
    <3>6. ASSUME NEW d \in DOMAIN doors
          PROVE  doors[d].raced \/ doors[d].opened <= 1 + faults
      <4>1. d \in DoorNames /\ doors[d].opened \in Nat
        BY <3>1, <3>6 DEF BridgeInv, DoorsOK
      <4> QED
        BY <3>1, <4>1 DEF BridgeInv, DoorsOK
    <3> QED
      BY <3>3, <3>4, <3>5, <3>6 DEF AnswersHold, DoorsReuse
  <2>2. CASE demo # "web"
    <3>1. BridgeRests /\ faults \in Nat
      BY <2>2 DEF PayInv, ChainOK
    <3>2. \A c \in Posts : post[c].pc = "idle"
      BY <3>1 DEF BridgeRests, Unposted
    <3>3. DOMAIN doors = DoorNames /\ \A d \in DoorNames : doors[d].opened = 0
      BY <3>1 DEF BridgeRests
    <3>4. DataForOrder /\ DoorsReuse
      BY <3>1, <3>2, <3>3 DEF DataForOrder, Returned, DoorsReuse
    <3>5. OneSession
      BY <3>1 DEF BridgeRests, OneSession
    <3> QED
      BY <3>4, <3>5 DEF AnswersHold
  <2> QED
    BY <2>1, <2>2
<1> QED
  BY <1>1, PayInvariant, PTL

\* However the scans of the handlers overlap, who asks for the board within five
\* minutes of a scan that found prices is shown one (proxy.ts:138-165).
THEOREM ProxyStaysLive == PaySpec => []BoardStaysLive
<1>1. PayInv => BoardStaysLive
  <2>1. OracleInv => BoardStaysLive
    BY DEF OracleInv, HandlersOK, IsHandler, Handling, BoardStaysLive
  <2>2. OracleRests => BoardStaysLive
    BY DEF OracleRests, New, BoardStaysLive
  <2> QED
    BY <2>1, <2>2 DEF PayInv
<1> QED
  BY <1>1, PayInvariant, PTL

\* A settlement that reports success has paid, and once, with nothing left
\* locked, if no call failed; although two settlements may race to configure
\* the arbiter (proxy.ts:204-285,315-327).
THEOREM SettlementsAreReported == PaySpec => []SettledAsReported
<1>1. PayInv => SettledAsReported
  <2>1. OracleInv => SettledAsReported
    BY DEF OracleInv, HandlersOK, IsHandler, SettledSoFar, At, SettledAsReported
  <2>2. OracleRests => SettledAsReported
    BY DEF OracleRests, New, SettledAsReported
  <2> QED
    BY <2>1, <2>2 DEF PayInv
<1> QED
  BY <1>1, PayInvariant, PTL
=============================================================================
