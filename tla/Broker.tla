------------------------------- MODULE Broker -------------------------------
(***************************************************************************)
(* The broker: it takes a buyer's request, asks every seller for a quote   *)
(* in a thread of its own, buys from the cheapest, and resells to the      *)
(* buyer at a markup.  It serves one request at a time; whatever else      *)
(* arrives while it waits for one answer is read and dropped.              *)
(*                                                                         *)
(* The sellers upstream are honest in one respect: the amount and the      *)
(* reference in the text of a quote, by which the broker chooses and under *)
(* which it asks for the delivery (logic.ts:13-18), are those of the       *)
(* payment URL that it pays (wallet.ts:34-60).  The code compares neither. *)
(***************************************************************************)
EXTENDS Payments

CONSTANTS Customers,
          SELLERS,     \* the sellers, in the order in which they are asked
          Quotes,      \* the lamports a seller may ask for
          MAX_SOL,     \* most that the broker pays upstream
          MaxAsks,     \* bound on the requests
          MaxClaims    \* bound on the proofs that customers send

VARIABLES broker,  \* its place in the loop and its locals
          inbox,   \* the mentions that wait for the broker
          said,    \* what the broker has sent
          heard,   \* what sellers have sent to the broker
          asks, claims

brokerVars == <<broker, inbox, said, heard, asks, claims>>

Me == "broker"

ASSUME BrokerAssumption ==
  /\ SELLERS \in Seq(STRING)
  /\ Quotes \subseteq Nat /\ MAX_SOL \in Nat
  /\ Me \in Payers /\ Customers \subseteq Payers \ {Me}

\* The locals live for one cycle.
Idle(cycle) ==
  [pc |-> "idle", cycle |-> cycle, ask |-> None, asked |-> 0, quotes |-> {},
   best |-> None, data |-> None, charge |-> None]

BrokerInit ==
  /\ broker = Idle(0)
  /\ inbox = <<>>
  /\ said = {}
  /\ heard = {}
  /\ asks = 0
  /\ claims = 0

\* A thread is made per quote; a customer keeps its thread, here that of cycle 0.
Thread(seller) == [with |-> seller, cycle |-> broker.cycle]

Msg(kind, thread, body) ==
  [kind |-> kind, thread |-> thread, cycle |-> broker.cycle, body |-> body]

-----------------------------------------------------------------------------
(* Sending and waiting.                                                    *)

Go(pc) ==
  IF pc \in {"idle", "backoff"} THEN [Idle(broker.cycle) EXCEPT !.pc = pc]
  ELSE [broker EXCEPT !.pc = pc]

\* A send that throws may have posted the message.
Send(m, next, failed) ==
  \/ said' = said \cup {m} /\ broker' = next /\ UNCHANGED faults
  \/ Fault /\ said' \in {said, said \cup {m}} /\ broker' = failed

\* A slip: whatever arrives during the wait is taken for the answer.
IsInThreadMutant(m, thread) == TRUE

IsInThread(m, thread) == m.thread = thread

\* What a wait returns.
Mentioned == Head(inbox)

\* waitForMentionInThread: the next mention in the thread, or nothing when the
\* time is up; mentions in other threads are dropped.
Wait(thread, answered, timeout) ==
  \/ /\ inbox # <<>>
     /\ inbox' = Tail(inbox)
     /\ broker' = IF IsInThread(Mentioned, thread)
                  THEN answered ELSE broker
  \/ broker' = timeout /\ UNCHANGED inbox

-----------------------------------------------------------------------------
(* The loop.                                                               *)

\* Mentions that are no requests are dropped.
TakeRequest ==
  /\ broker.pc = "idle"
  /\ inbox # <<>>
  /\ inbox' = Tail(inbox)
  /\ broker' = IF Head(inbox).kind = "request"
               THEN [Go("shop") EXCEPT !.cycle = @ + 1, !.ask = Head(inbox).thread]
               ELSE broker
  /\ UNCHANGED <<payVars, said, heard, asks, claims>>

\* The sellers are asked one after the other.
Seller == SELLERS[broker.asked]

AskSeller ==
  /\ broker.pc = "shop"
  /\ broker.asked < Len(SELLERS)
  /\ LET b == [broker EXCEPT !.asked = @ + 1]
         thread == Thread(SELLERS[b.asked])
     IN  Send(Msg("request", thread, None), [b EXCEPT !.pc = "quote"], b)
  /\ UNCHANGED <<demo, chain, debited, refs, inbox, heard, asks, claims>>

HearQuote ==
  /\ broker.pc = "quote"
  /\ Wait(Thread(Seller),
          IF Mentioned.kind = "quote"
          THEN [Go("shop") EXCEPT !.quotes = @ \cup {Mentioned}]
          ELSE Go("shop"),
          Go("shop"))
  /\ UNCHANGED <<payVars, said, heard, asks, claims>>

NoSellers ==
  /\ broker.pc = "shop"
  /\ broker.asked = Len(SELLERS)
  /\ broker.quotes = {}
  /\ Send(Msg("NO_SELLERS_AVAILABLE", broker.ask, None), Go("idle"), Go("backoff"))
  /\ UNCHANGED <<demo, chain, debited, refs, inbox, heard, asks, claims>>

PickCheapest(q) ==
  q \in broker.quotes /\ \A p \in broker.quotes : q.body.amount <= p.body.amount

\* A slip: a payment that throws is made again.
PaymentThrewMutant == [broker EXCEPT !.pc = "shop"]

PaymentThrew == Go("failed")

\* payFromUrl refuses more than MAX_SOL and may throw.
Buy ==
  /\ broker.pc = "shop"
  /\ broker.asked = Len(SELLERS)
  /\ \E q \in {q \in broker.quotes : PickCheapest(q)} :
       LET t == Transfer(Me, q.thread.with, q.body.amount, q.body.ref) IN
       \/ /\ q.body.amount <= MAX_SOL
          /\ \/ Landed(t) /\ broker' = [Go("tell") EXCEPT !.best = q]
             \/ Thrown(t) /\ broker' = PaymentThrew
       \/ /\ q.body.amount > MAX_SOL
          /\ broker' = Go("failed")
          /\ UNCHANGED <<chain, debited, faults>>
  /\ UNCHANGED <<demo, refs, inbox, said, heard, asks, claims>>

Tell ==
  /\ broker.pc = "tell"
  /\ Send(Msg("paid", broker.best.thread, [sig |-> Len(chain)]),
          Go("bought"), Go("failed"))
  /\ UNCHANGED <<demo, chain, debited, refs, inbox, heard, asks, claims>>

HearDelivery ==
  /\ broker.pc = "bought"
  /\ Wait(broker.best.thread,
          IF Mentioned.kind = "DELIVERED"
          THEN [Go("charge") EXCEPT !.data = Mentioned.body]
          ELSE Go("failed"),
          Go("failed"))
  /\ UNCHANGED <<payVars, said, heard, asks, claims>>

UpstreamFailed ==
  /\ broker.pc = "failed"
  /\ Send(Msg("UPSTREAM_FAILED", broker.ask, None), Go("idle"), Go("backoff"))
  /\ UNCHANGED <<demo, chain, debited, refs, inbox, heard, asks, claims>>

\* The price to the customer, in lamports: a fifth more, to six places.
Resell(amount) == 1000 * ((12 * amount + 5000) \div 10000)

Charge ==
  /\ broker.pc = "charge"
  /\ \E ref \in 1..MaxRefs :
       LET c == Msg("PAYMENT_REQUIRED", broker.ask,
                    [ref |-> ref, amount |-> Resell(broker.best.body.amount)]) IN
       /\ NewRef(ref)
       /\ Send(c, [Go("sell") EXCEPT !.charge = c.body], Go("backoff"))
  /\ UNCHANGED <<demo, chain, debited, inbox, heard, asks, claims>>

Proves(m) ==
  /\ m.kind = "paid"
  /\ ValidTransfer(m.body.sig, Me, broker.charge.amount, broker.charge.ref)

\* Anything else in the customer's thread ends the wait as a proof that fails.
HearProof ==
  /\ broker.pc = "sell"
  /\ Wait(broker.ask,
          Go(IF Proves(Mentioned) THEN "deliver" ELSE "unpaid"),
          Go("unpaid"))
  /\ UNCHANGED <<payVars, said, heard, asks, claims>>

Resold ==
  /\ broker.pc = "deliver"
  /\ Send(Msg("DELIVERED", broker.ask, broker.data), Go("idle"), Go("backoff"))
  /\ UNCHANGED <<demo, chain, debited, refs, inbox, heard, asks, claims>>

NextRequest == Go("idle")

NotVerified ==
  /\ broker.pc = "unpaid"
  /\ Send(Msg("PAYMENT_NOT_VERIFIED", broker.ask, None), NextRequest, Go("backoff"))
  /\ UNCHANGED <<demo, chain, debited, refs, inbox, heard, asks, claims>>

\* After an exception the loop starts anew.
Backoff ==
  /\ broker.pc = "backoff"
  /\ broker' = Go("idle")
  /\ UNCHANGED <<payVars, inbox, said, heard, asks, claims>>

-----------------------------------------------------------------------------
(* Customers and sellers.                                                  *)

Mention(m) == inbox' = Append(inbox, m)

CustomerAsks ==
  /\ asks < MaxAsks
  /\ asks' = asks + 1
  /\ \E b \in Customers :
       Mention([kind |-> "request", thread |-> [with |-> b, cycle |-> 0]])
  /\ UNCHANGED <<payVars, broker, said, heard, claims>>

\* A customer pays a charge, in full or less, and says so, or names another
\* transfer of its own or none that exists; at any time.
CustomerClaims ==
  /\ claims < MaxClaims
  /\ claims' = claims + 1
  /\ \E b \in Customers, sig \in 0..(Len(chain) + 1) :
       /\ Mention([kind |-> "paid", thread |-> [with |-> b, cycle |-> 0],
                   body |-> [sig |-> sig]])
       /\ \/ sig = 0 /\ UNCHANGED <<chain, debited, faults>>
          \/ sig \in DOMAIN chain /\ chain[sig].from = b
             /\ UNCHANGED <<chain, debited, faults>>
          \/ sig = Len(chain) + 1
             /\ \E c \in said, short \in {0, 1} :
                  /\ c.kind = "PAYMENT_REQUIRED" /\ c.thread.with = b
                  /\ short <= c.body.amount
                  /\ Landed(Transfer(b, Me, c.body.amount - short, c.body.ref))
  /\ UNCHANGED <<demo, refs, broker, said, heard, asks>>

\* A seller answers when it likes, or never.
SellerQuotes ==
  /\ \E m \in {m \in said : m.kind = "request"}, amount \in Quotes, ref \in 1..MaxRefs :
       LET q == [kind |-> "quote", thread |-> m.thread,
                 body |-> [ref |-> ref, amount |-> amount]] IN
       /\ \A h \in heard : h.thread # m.thread
       /\ NewRef(ref)
       /\ heard' = heard \cup {q}
       /\ Mention(q)
  /\ UNCHANGED <<demo, chain, debited, faults, broker, said, asks, claims>>

SellerDelivers ==
  /\ \E m \in {m \in said : m.kind = "paid"},
        q \in {q \in heard : q.kind = "quote"} :
       LET d == [kind |-> "DELIVERED", thread |-> m.thread, body |-> m.thread] IN
       /\ q.thread = m.thread
       /\ d \notin heard
       /\ ValidTransfer(m.body.sig, m.thread.with, q.body.amount, q.body.ref)
       /\ heard' = heard \cup {d}
       /\ Mention(d)
  /\ UNCHANGED <<payVars, broker, said, asks, claims>>

BrokerStep ==
  /\ demo = "swarm"
  /\ \/ TakeRequest \/ AskSeller \/ HearQuote \/ NoSellers \/ Buy \/ Tell
     \/ HearDelivery \/ UpstreamFailed \/ Charge \/ HearProof \/ Resold
     \/ NotVerified \/ Backoff

BrokerEvent ==
  /\ demo = "swarm"
  /\ \/ CustomerAsks \/ CustomerClaims \/ SellerQuotes
     \/ SellerDelivers

-----------------------------------------------------------------------------
(* Properties.                                                             *)

\* What the broker sells it has bought in the same cycle, from a seller whose
\* quote it paid, the customer has paid the charge of that cycle, and the
\* charge is not below the quote, as long as quotes are not so small that
\* rounding to six places takes the markup; whatever late quotes, deliveries
\* and proofs of earlier cycles arrive (broker/src/index.ts:60-91).
SellsWhatItBought ==
  \A d \in {m \in said : m.kind = "DELIVERED"} :
    \E q \in heard, c \in said :
      /\ q.kind = "quote" /\ q.thread = d.body /\ q.thread.cycle = d.cycle
      /\ c.kind = "PAYMENT_REQUIRED" /\ c.cycle = d.cycle /\ c.thread = d.thread
      /\ \E i \in DOMAIN chain :
           chain[i].from = Me /\ Paid(chain[i], q.thread.with, q.body.amount, q.body.ref)
      /\ \E i \in DOMAIN chain : Paid(chain[i], Me, c.body.amount, c.body.ref)
      /\ q.body.amount >= 2500 => c.body.amount >= q.body.amount

Answers == {"NO_SELLERS_AVAILABLE", "UPSTREAM_FAILED", "DELIVERED", "PAYMENT_NOT_VERIFIED"}

\* The broker buys at most once per request, whatever throws, and never above
\* its cap; and unless a call failed it has answered every request it took up
\* exactly once when it is done with it, so that who has been sold something
\* is not refused and who has not is told (broker/src/index.ts:55-95,
\* wallet.ts:33-60).
OncePerRequest ==
  /\ \A i \in DOMAIN chain : chain[i].from = Me =>
       /\ chain[i].amount <= MAX_SOL
       /\ \A j \in DOMAIN chain, p \in heard, q \in heard :
            /\ chain[j].from = Me
            /\ p.kind = "quote" /\ p.body.ref = chain[i].ref
            /\ q.kind = "quote" /\ q.body.ref = chain[j].ref
            /\ p.thread.cycle = q.thread.cycle
            => i = j
  /\ faults = 0 =>
       \A n \in 1..broker.cycle :
         Cardinality({m \in said : m.cycle = n /\ m.kind \in Answers}) =
           IF n = broker.cycle /\ broker.pc # "idle" THEN 0 ELSE 1

=============================================================================
