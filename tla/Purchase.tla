------------------------------ MODULE Purchase ------------------------------
(***************************************************************************)
(* The LLM that buys from an HTTP 402 endpoint.  In each of a bounded      *)
(* number of turns the model answers, or calls tools: fetch_data, which is *)
(* answered by a challenge, and pay_and_retry, which pays and fetches      *)
(* again with a proof.  What the model asks for is arbitrary; the code     *)
(* around it decides what is paid.  There are two such buyers, the         *)
(* LLMBuyerStrategy of the buyer agent with its guard, and the quickstart's*)
(* own; the endpoint is the quickstart's server.                           *)
(***************************************************************************)
EXTENDS Payments

CONSTANTS Strategies,  \* of {"guarded", "quickstart"}
          RECIPIENT,   \* the wallet the server is paid to
          Elsewhere,   \* another wallet, that the model may name
          PRICE, Budget, Amounts,
          MaxTurns,    \* maxTurns
          MaxTools,    \* bound on the tool calls of one turn
          MaxResends   \* bound on the proofs that the network delivers twice

VARIABLES buyer,      \* the purchase loop: its place and its guard
          pending,    \* the server's map of references it waits to see paid
          verifying,  \* the exchanges that wait in verifyPayment
          served,     \* by reference: how often data were delivered for it
          resends

purchaseVars == <<buyer, pending, verifying, served, resends>>

Buyer == "buyer"
References == 1..MaxRefs

ASSUME PurchaseAssumption ==
  /\ PRICE \in Nat /\ Budget \in Nat /\ Amounts \subseteq Nat
  /\ MaxTurns \in Nat /\ MaxTools \in Nat /\ MaxResends \in Nat
  /\ Buyer \in Payers

PurchaseInit ==
  /\ buyer \in [pc : {"turn"}, strategy : Strategies, turn : {0},
                calls : {<<>>}, ref : {None}, told : {{}},
                allowedRecipients : {{}}, allowedReferences : {{}},
                spentLamports : {0}]
  /\ pending = {}
  /\ verifying = {}
  /\ served = [r \in References |-> 0]
  /\ resends = 0

-----------------------------------------------------------------------------
(* The model.                                                              *)

Fetch == [tool |-> "fetch_data"]

\* The model may leave the reference out, or make one up (0).
Payment == [tool : {"pay_and_retry"}, recipient : {RECIPIENT, Elsewhere},
            amount : Amounts, ref : buyer.told \cup {None, 0}]

Calls == UNION {[1..n -> {Fetch} \cup Payment] : n \in 1..MaxTools}

\* A response without tool calls is the answer.
Respond ==
  /\ buyer.pc = "turn"
  /\ buyer.turn < MaxTurns
  /\ \/ buyer' = [buyer EXCEPT !.pc = "answered"]
     \/ \E calls \in Calls :
          buyer' = [buyer EXCEPT !.pc = "tool", !.calls = calls]
  /\ UNCHANGED <<payVars, pending, verifying, served, resends>>

Exhausted ==
  /\ buyer.pc = "turn"
  /\ buyer.turn = MaxTurns
  /\ buyer' = [buyer EXCEPT !.pc = "threw"]
  /\ UNCHANGED <<payVars, pending, verifying, served, resends>>

\* After the last call of a turn the model is told the results: told collects
\* the references it has seen.
NextCall(b) ==
  IF Len(b.calls) > 1 THEN [b EXCEPT !.pc = "tool", !.calls = Tail(b.calls)]
  ELSE [b EXCEPT !.pc = "turn", !.calls = <<>>, !.turn = b.turn + 1,
                 !.told = b.allowedReferences]

\* Any call may throw, which ends the purchase.
Throw(b) == [b EXCEPT !.pc = "threw", !.calls = <<>>]

Call == Head(buyer.calls)
Calling(tool) == buyer.pc = "tool" /\ Call.tool = tool

-----------------------------------------------------------------------------
(* fetch_data, and the server's challenge.                                 *)

FetchData ==
  /\ Calling("fetch_data")
  /\ \/ \E ref \in References :
          /\ NewRef(ref)
          /\ pending' = pending \cup {ref}
          /\ \/ /\ buyer' = NextCall([buyer EXCEPT
                              !.allowedRecipients = @ \cup {RECIPIENT},
                              !.allowedReferences = @ \cup {ref}])
                /\ UNCHANGED faults
             \/ Fault /\ buyer' = Throw(buyer)
     \/ Fault /\ buyer' = Throw(buyer) /\ UNCHANGED <<refs, pending>>
  /\ UNCHANGED <<demo, chain, debited, verifying, served, resends>>

-----------------------------------------------------------------------------
(* pay_and_retry.                                                          *)

\* A slip: the budget bounds each payment instead of their sum.
GuardPaymentMutant(b, input) ==
  /\ input.recipient \in b.allowedRecipients
  /\ input.ref \in b.allowedReferences \cup {None}
  /\ input.amount <= Budget

GuardPayment(b, input) ==
  /\ input.recipient \in b.allowedRecipients
  /\ input.ref \in b.allowedReferences \cup {None}
  /\ b.spentLamports + input.amount <= Budget

Allowed(b, input) ==
  IF b.strategy = "guarded" THEN GuardPayment(b, input)
  ELSE input.amount <= Budget

Refused ==
  /\ Calling("pay_and_retry")
  /\ ~Allowed(buyer, Call)
  /\ buyer' = NextCall(buyer)
  /\ UNCHANGED <<payVars, pending, verifying, served, resends>>

SignTransfer ==
  /\ Calling("pay_and_retry")
  /\ Allowed(buyer, Call)
  /\ LET t == Transfer(Buyer, Call.recipient, Call.amount, Call.ref) IN
     \/ /\ Landed(t)
        /\ buyer' = [buyer EXCEPT !.pc = "retry", !.ref = Call.ref,
                                  !.spentLamports = @ + Call.amount]
     \/ Thrown(t) /\ buyer' = Throw(buyer)
  /\ UNCHANGED <<demo, refs, pending, verifying, served, resends>>

\* A slip: the quickstart's buyer, too, leaves out the reference.
ProofReferenceMutant(b) == None

\* Only the quickstart's buyer sends x-payment-reference with the proof.
ProofReference(b) == IF b.strategy = "quickstart" THEN b.ref ELSE None

\* A proof for a reference that is not pending is refused at once.
Retry ==
  /\ buyer.pc = "retry"
  /\ \/ /\ ProofReference(buyer) \in pending
        /\ verifying' = verifying \cup {[ref |-> ProofReference(buyer), copy |-> FALSE]}
        /\ buyer' = [buyer EXCEPT !.pc = "wait"]
        /\ UNCHANGED faults
     \/ /\ ProofReference(buyer) \notin pending
        /\ buyer' = NextCall(buyer)
        /\ UNCHANGED <<faults, verifying>>
     \/ Fault /\ buyer' = Throw(buyer) /\ UNCHANGED verifying
  /\ UNCHANGED <<demo, chain, debited, refs, pending, served, resends>>

-----------------------------------------------------------------------------
(* The server.                                                             *)

\* A proof delivered twice finds its reference pending as long as the first
\* is being verified.
Resend ==
  /\ resends < MaxResends
  /\ \E e \in verifying :
       /\ e.ref \in pending
       /\ verifying' = verifying \cup {[e EXCEPT !.copy = TRUE]}
       /\ verifying' # verifying
  /\ resends' = resends + 1
  /\ UNCHANGED <<payVars, buyer, pending, served>>

\* The answer to a copy goes nowhere.
Answer(e) ==
  buyer' = IF ~e.copy /\ buyer.pc = "wait" THEN NextCall(buyer) ELSE buyer

\* A slip: the reference stays pending.
DeliverMutant(e) ==
  /\ served' = [served EXCEPT ![e.ref] = @ + 1]
  /\ UNCHANGED pending

Deliver(e) ==
  /\ pending' = pending \ {e.ref}
  /\ served' = [served EXCEPT ![e.ref] = @ + 1]

ServerVerifies(ref) == VerifyPayment(RECIPIENT, PRICE, ref)

Verified ==
  \E e \in verifying :
    /\ verifying' = verifying \ {e}
    /\ Answer(e)
    /\ IF ServerVerifies(e.ref) THEN Deliver(e) ELSE UNCHANGED <<pending, served>>
    /\ UNCHANGED <<payVars, resends>>

\* The references are kept in memory; whoever waits sees its fetch fail.
RestartServer ==
  /\ Fault
  /\ pending' = {}
  /\ verifying' = {}
  /\ buyer' = IF buyer.pc = "wait" THEN Throw(buyer) ELSE buyer
  /\ UNCHANGED <<demo, chain, debited, refs, served, resends>>

PurchaseStep ==
  /\ demo = "quickstart"
  /\ \/ Respond \/ Exhausted \/ FetchData \/ Refused \/ SignTransfer \/ Retry
     \/ Verified
PurchaseEvent == demo = "quickstart" /\ (Resend \/ RestartServer)

-----------------------------------------------------------------------------
(* Properties.                                                             *)

\* "The budget is enforced in CODE": whatever the model asks for, and whatever
\* fails on the way, the transfers of a guarded purchase that landed, those
\* the client does not know of included, never add up to more than the budget
\* (llm_buyer.ts:14, guard.ts:28-43).
BudgetHolds == buyer.strategy = "guarded" => debited[Buyer] <= Budget

\* Data are delivered only for a reference under which the price was paid to
\* the server's wallet, and once unless a proof was delivered twice
\* (quickstart/server.ts:52-66).
ServedWasPaid ==
  \A ref \in References :
    /\ served[ref] > 0 => \E i \in DOMAIN chain : Paid(chain[i], RECIPIENT, PRICE, ref)
    /\ resends = 0 => served[ref] <= 1

\* A quickstart buyer whose first payment under a reference is the one the
\* challenge asked for has its data when its call returns, unless a call
\* failed (quickstart/buyer.ts:46-67, server.ts:39-66).
PayerIsServed ==
  buyer.strategy = "quickstart" /\ faults = 0 /\ buyer.pc \notin {"retry", "wait"} =>
    \A ref \in 1..refs : VerifyPayment(RECIPIENT, PRICE, ref) => served[ref] > 0

=============================================================================
