---------------------------- MODULE MarketProofs ----------------------------
(***************************************************************************)
(* Proofs about the market round, for any sellers, wallets, prices, modes  *)
(* and numbers of rounds and sessions.                                     *)
(***************************************************************************)
EXTENDS Market, TLAPS

(* The prices seller s bids.                                               *)
PriceRange(s) == Floor[s]..Budget

(* What lies in a mailbox: all of it, or the messages of one type.         *)
Elems(q) == {q[i] : i \in 1..Len(q)}
Once(q) == \A i, j \in 1..Len(q) : q[i] = q[j] => i = j

Mail(a) == Elems(mailbox[a])
Sent(a, type) == {m \in Mail(a) : m.type = type}

(* The chain: a pot covers its order, and an order is for a price that the *)
(* seller it names bids, as the buyer read it.                             *)
ChainOK ==
    /\ order \in [Refs -> Orders \cup {NoOrder}]
    /\ pot \in [Refs -> Nat] /\ purse \in [Parties -> Nat]
    /\ arbiter \in {Nobody, ArbiterKey} /\ signer \in {Nobody, Buyer, ArbiterKey}
    /\ clock \in 0..Horizon
    /\ mode \in Modes
    /\ \A r \in Refs : order[r] # NoOrder =>
          /\ pot[r] >= order[r].amount + Fee
          /\ \E s \in Sellers : \E p \in PriceRange(s) :
                order[r].seller = Wallet[s] /\ order[r].amount = Read(p)

(* The buyer: the terms it acts on are those of its round's winner, at the *)
(* price that seller bid.                                                  *)
AgreedTerms(m) ==
    /\ winner # NoSeller
    /\ m.seller = Wallet[winner]
    /\ m.amount = bids[winner]
    /\ \E p \in PriceRange(winner) :
          m.amount = Read(p) /\ m.reference = Reference(m.round, Wallet[winner], p)

BuyerOK ==
    /\ session \in 1..(MaxTurns + 1) /\ round \in 0..MaxTurns
    /\ stage \in {"setup", "funding", "down", "idle"} \cup Underway
    /\ stage \in Underway => round > 0
    /\ bids \in [Sellers -> Prices]
    /\ winner \in Bidders \cup {NoSeller}
    /\ stage \in {"terms"} \cup Acting => winner # NoSeller
    /\ stage \in Acting => terms \in Terms /\ terms.round = round /\ AgreedTerms(terms)

(* A seller's quotes and awards.                                           *)
SellersOK ==
    /\ quoted \in [Sellers -> [Rounds -> Prices]]
    /\ \A s \in Sellers, n \in Rounds :
          quoted[s][n] # NoPrice => n <= round /\ quoted[s][n] \in PriceRange(s)
    /\ \A s \in Sellers, n \in Rounds :
          n = round /\ bids[s] # NoPrice /\ quoted[s][n] # NoPrice => bids[s] = Read(quoted[s][n])
    /\ awarded \in [Sellers -> SUBSET (Refs \X Nat)]
    /\ \A s \in Sellers : \A a \in awarded[s] :
          /\ a[2] \in PriceRange(s)
          /\ \E n \in Rounds : a[1] = Reference(n, Wallet[s], a[2])

WorkOK ==
    /\ work \in [Refs -> SUBSET (Sellers \X BOOLEAN)]
    /\ deposited \subseteq Refs
    /\ stage = "releasing" => <<winner, TRUE>> \in work[terms.reference]
    /\ stage \in {"delivery", "releasing"} =>
          \/ order[terms.reference] = NoOrder
          \/ order[terms.reference].seller = Wallet[winner]

MailOK ==
    /\ mailbox \in [Agents -> Seq(BuyerMail \cup SellerMail)]
    /\ mailbox[Buyer] \in Seq(BuyerMail)
    /\ \A s \in Sellers : mailbox[s] \in Seq(SellerMail) /\ Once(mailbox[s])
    /\ \A a \in Agents : \A m \in Mail(a) : m.round <= round

(* A seller that has still to read the request of a round has not bid.     *)
WantsOK ==
    \A s \in Sellers : \A m \in Sent(s, "WANT") :
       /\ quoted[s][m.round] = NoPrice
       /\ m.round = round => bids[s] = NoPrice
       /\ \A b \in Sent(Buyer, "BID") : b.by = s => b.round # m.round

BidsOK ==
    \A m \in Sent(Buyer, "BID") :
       quoted[m.by][m.round] # NoPrice => m.price = Read(quoted[m.by][m.round])

(* The award of a round is made once; its seller has not asked for its     *)
(* deposit before it has read it.                                          *)
AwardsOK ==
    \A s \in Sellers : \A m \in Sent(s, "AWARD") :
       /\ m.round = round => winner = s /\ stage \in {"terms", "idle"}
       /\ \A q \in Sellers : \A b \in Sent(q, "AWARD") : b.round = m.round => q = s
       /\ \A t \in Sent(Buyer, "ESCROW_REQUIRED") : t.round # m.round
       /\ \A q \in Sellers : \A d \in Sent(q, "DEPOSITED") : d.round # m.round

TermsOK ==
    \A m \in Sent(Buyer, "ESCROW_REQUIRED") :
       m.round = round => stage # "bidding" /\ AgreedTerms(m)

(* A round has one deposit, and nobody has worked for it before its seller *)
(* has heard of it.                                                        *)
DepositsOK ==
    \A s \in Sellers : \A m \in Sent(s, "DEPOSITED") :
       /\ m.reference[1] = m.round
       /\ m.round = round =>
             s = winner /\ m.reference = terms.reference /\ stage \in {"delivery", "releasing", "idle"}
       /\ \A q \in Sellers : \A d \in Sent(q, "DEPOSITED") : d.round = m.round => q = s /\ d = m
       /\ \A a \in awarded[s] : a[1] = m.reference => work[m.reference] = {}

DeliveriesOK ==
    \A m \in Sent(Buyer, "DELIVERED") :
       m.round = round /\ m.good =>
          /\ stage \in {"delivery", "releasing", "idle"}
          /\ <<winner, TRUE>> \in work[terms.reference]

(* A delivery under way is for the deposit as the seller read it: nobody   *)
(* has worked for it, no other seller serves its round, and no message     *)
(* announces it any more.                                                  *)
Serves(s, d) ==
    /\ d.round <= round /\ d.reference[1] = d.round
    /\ d.deposit.seller = Wallet[s] /\ d.reference[3] <= d.deposit.amount
    /\ work[d.reference] = {}
    /\ order[d.reference] = d.deposit \/ clock >= d.deposit.deadline
    /\ d.round = round =>
          s = winner /\ d.reference = terms.reference /\ stage \in {"delivery", "releasing", "idle"}
    /\ \A q \in Sellers : \A m \in Sent(q, "DEPOSITED") : m.round # d.round
    /\ \A q \in Sellers : \A e \in serving[q] : e.round = d.round => q = s /\ e = d

ServingOK ==
    /\ serving \in [Sellers -> SUBSET [round : Rounds, reference : Refs, deposit : Orders]]
    /\ \A s \in Sellers : \A d \in serving[s] : Serves(s, d)

MarketInv ==
    /\ ChainOK /\ BuyerOK /\ SellersOK /\ WorkOK /\ MailOK
    /\ WantsOK /\ BidsOK /\ AwardsOK /\ TermsOK /\ DepositsOK /\ DeliveriesOK
-----------------------------------------------------------------------------
(* Sequences, and what reading and posting do to a mailbox.                *)

LEMMA HeadOff ==
    ASSUME NEW S, NEW q \in Seq(S), q # <<>>
    PROVE  /\ Tail(q) \in Seq(S)
           /\ Head(q) \in Elems(q) /\ Head(q) \in S
           /\ Elems(Tail(q)) \subseteq Elems(q)
           /\ Once(q) => Once(Tail(q)) /\ Head(q) \notin Elems(Tail(q))
<1>1. Len(q) \in Nat \ {0} /\ Tail(q) \in Seq(S) /\ Len(Tail(q)) = Len(q) - 1
  OBVIOUS
<1>2. \A i \in 1..Len(Tail(q)) : Tail(q)[i] = q[i + 1] /\ i + 1 \in 1..Len(q)
  BY <1>1
<1>3. Head(q) = q[1] /\ 1 \in 1..Len(q) /\ q[1] \in S
  BY <1>1
<1> QED
  BY <1>1, <1>2, <1>3 DEF Elems, Once

LEMMA PutLast ==
    ASSUME NEW S, NEW q \in Seq(S), NEW e \in S
    PROVE  /\ Append(q, e) \in Seq(S)
           /\ Elems(Append(q, e)) = Elems(q) \cup {e}
           /\ Once(q) /\ e \notin Elems(q) => Once(Append(q, e))
<1>1. /\ Len(q) \in Nat /\ Append(q, e) \in Seq(S) /\ Len(Append(q, e)) = Len(q) + 1
      /\ Append(q, e)[Len(q) + 1] = e /\ \A i \in 1..Len(q) : Append(q, e)[i] = q[i]
  OBVIOUS
<1>2. 1..(Len(q) + 1) = 1..Len(q) \cup {Len(q) + 1}
  BY <1>1
<1> QED
  BY <1>1, <1>2 DEF Elems, Once

LEMMA ElemsIn ==
    ASSUME NEW S, NEW q \in Seq(S)
    PROVE  Elems(q) \subseteq S
BY DEF Elems

(* Agent a reads its next mention.                                         *)
LEMMA Reading ==
    ASSUME MailOK, NEW a \in Agents, NEW m \in Mention(a), NEW box, box = Consume(mailbox, a)
    PROVE  /\ m \in Mail(a)
           /\ box \in [Agents -> Seq(BuyerMail \cup SellerMail)]
           /\ box[Buyer] \in Seq(BuyerMail)
           /\ \A s \in Sellers : box[s] \in Seq(SellerMail) /\ Once(box[s])
           /\ \A b \in Agents : Elems(box[b]) \subseteq Mail(b)
           /\ a \in Sellers => m \notin Elems(box[a])
<1>1. mailbox[a] # <<>> /\ m = Head(mailbox[a])
  BY DEF Mention
<1>2. \A b \in Agents : box[b] = IF b = a THEN Tail(mailbox[a]) ELSE mailbox[b]
  BY DEF MailOK, Consume
<1>3. box \in [Agents -> Seq(BuyerMail \cup SellerMail)]
  <2>1. Tail(mailbox[a]) \in Seq(BuyerMail \cup SellerMail)
    BY <1>1, HeadOff DEF MailOK
  <2> QED
    BY <2>1 DEF MailOK, Consume
<1>4. CASE a = Buyer
  <2>1. mailbox[Buyer] \in Seq(BuyerMail) /\ Sellers \subseteq Agents /\ a \notin Sellers
    BY <1>4, PartiesAssumption DEF MailOK, Agents
  <2>2. /\ Tail(mailbox[a]) \in Seq(BuyerMail) /\ m \in Elems(mailbox[a])
        /\ Elems(Tail(mailbox[a])) \subseteq Elems(mailbox[a])
    BY <1>1, <1>4, <2>1, HeadOff
  <2> QED
    BY <1>2, <1>3, <1>4, <2>1, <2>2 DEF MailOK, Mail
<1>5. CASE a \in Sellers
  <2>1. mailbox[a] \in Seq(SellerMail) /\ Once(mailbox[a]) /\ Sellers \subseteq Agents
        /\ Buyer \in Agents /\ Buyer # a
    BY <1>5, PartiesAssumption DEF MailOK, Agents
  <2>2. /\ Tail(mailbox[a]) \in Seq(SellerMail) /\ m \in Elems(mailbox[a])
        /\ Elems(Tail(mailbox[a])) \subseteq Elems(mailbox[a])
        /\ Once(Tail(mailbox[a])) /\ m \notin Elems(Tail(mailbox[a]))
    BY <1>1, <2>1, HeadOff
  <2> QED
    BY <1>2, <1>3, <1>5, <2>1, <2>2 DEF MailOK, Mail
<1> QED
  BY <1>4, <1>5 DEF Agents

(* A message to the buyer, or one to some of the sellers.                  *)
LEMMA PostingBuyer ==
    ASSUME NEW box \in [Agents -> Seq(BuyerMail \cup SellerMail)],
           box[Buyer] \in Seq(BuyerMail),
           \A s \in Sellers : box[s] \in Seq(SellerMail) /\ Once(box[s]),
           NEW m \in BuyerMail
    PROVE  LET new == Post(box, {Buyer}, m)
           IN /\ new \in [Agents -> Seq(BuyerMail \cup SellerMail)]
              /\ new[Buyer] \in Seq(BuyerMail)
              /\ \A s \in Sellers : new[s] \in Seq(SellerMail) /\ Once(new[s])
              /\ Elems(new[Buyer]) = Elems(box[Buyer]) \cup {m}
              /\ \A s \in Sellers : new[s] = box[s]
<1> DEFINE new == Post(box, {Buyer}, m)
<1>1. \A a \in Agents : new[a] = IF a = Buyer THEN Append(box[Buyer], m) ELSE box[a]
  BY DEF Post
<1>2. Buyer \in Agents /\ Sellers \subseteq Agents /\ Buyer \notin Sellers
  BY PartiesAssumption DEF Agents
<1>3. /\ Append(box[Buyer], m) \in Seq(BuyerMail)
      /\ Elems(Append(box[Buyer], m)) = Elems(box[Buyer]) \cup {m}
  BY PutLast
<1>4. Append(box[Buyer], m) \in Seq(BuyerMail \cup SellerMail)
  BY <1>2
<1>5. new \in [Agents -> Seq(BuyerMail \cup SellerMail)]
  BY <1>4 DEF Post
<1> QED
  BY <1>1, <1>2, <1>3, <1>5

LEMMA PostingSellers ==
    ASSUME MailOK, NEW to \in SUBSET Sellers, NEW m \in SellerMail,
           \A s \in to : m \notin Mail(s)
    PROVE  LET new == Post(mailbox, to, m)
           IN /\ new \in [Agents -> Seq(BuyerMail \cup SellerMail)]
              /\ new[Buyer] = mailbox[Buyer]
              /\ \A s \in Sellers : new[s] \in Seq(SellerMail) /\ Once(new[s])
              /\ \A s \in to : Elems(new[s]) = Mail(s) \cup {m}
              /\ \A s \in Sellers \ to : new[s] = mailbox[s]
<1> DEFINE new == Post(mailbox, to, m)
<1>1. \A a \in Agents : new[a] = IF a \in to THEN Append(mailbox[a], m) ELSE mailbox[a]
  BY DEF Post
<1>2. Buyer \in Agents /\ Sellers \subseteq Agents /\ Buyer \notin Sellers
  BY PartiesAssumption DEF Agents
<1>3. ASSUME NEW s \in to
      PROVE  /\ Append(mailbox[s], m) \in Seq(SellerMail)
             /\ Elems(Append(mailbox[s], m)) = Mail(s) \cup {m}
             /\ Once(Append(mailbox[s], m))
  <2>1. mailbox[s] \in Seq(SellerMail) /\ Once(mailbox[s]) /\ m \notin Elems(mailbox[s])
    BY DEF MailOK, Mail
  <2> QED
    BY <2>1, PutLast DEF Mail
<1>4. new \in [Agents -> Seq(BuyerMail \cup SellerMail)]
  <2>1. \A a \in Agents : mailbox[a] \in Seq(BuyerMail \cup SellerMail) /\ m \in BuyerMail \cup SellerMail
    BY DEF MailOK
  <2>2. \A a \in Agents : Append(mailbox[a], m) \in Seq(BuyerMail \cup SellerMail)
    BY <2>1
  <2> QED
    BY <2>1, <2>2 DEF Post
<1> QED
  BY <1>1, <1>2, <1>3, <1>4 DEF MailOK

(* What a step does to the messages of one type.                           *)
Shrinks(a, type) == Sent(a, type)' \subseteq Sent(a, type)
Gains(a, type, m) == Sent(a, type)' \subseteq Sent(a, type) \cup {m}

LEMMA Reads ==
    ASSUME MailOK, NEW a \in Agents, NEW m \in Mention(a), mailbox' = Consume(mailbox, a),
           round' = round
    PROVE  /\ MailOK'
           /\ m \in Sent(a, m.type)
           /\ \A b \in Agents : \A type : Shrinks(b, type)
<1>1. /\ m \in Mail(a)
      /\ mailbox' \in [Agents -> Seq(BuyerMail \cup SellerMail)]
      /\ mailbox'[Buyer] \in Seq(BuyerMail)
      /\ \A s \in Sellers : mailbox'[s] \in Seq(SellerMail) /\ Once(mailbox'[s])
      /\ \A b \in Agents : Elems(mailbox'[b]) \subseteq Mail(b)
  BY Reading
<1>2. MailOK'
  BY <1>1 DEF MailOK, Mail
<1> QED
  BY <1>1, <1>2 DEF Shrinks, Sent, Mail

(* A seller reads a mention and answers the buyer.                         *)
LEMMA Answers ==
    ASSUME MailOK, NEW s \in Sellers, NEW m \in Mention(s), NEW e \in BuyerMail,
           mailbox' = Post(Consume(mailbox, s), {Buyer}, e),
           round' = round, e.round = m.round
    PROVE  /\ MailOK'
           /\ m \in Sent(s, m.type)
           /\ Sent(s, m.type)' \subseteq Sent(s, m.type) \ {m}
           /\ \A q \in Sellers : \A type : Shrinks(q, type)
           /\ \A type : type # e.type => Shrinks(Buyer, type)
           /\ Gains(Buyer, e.type, e)
<1> DEFINE box == Consume(mailbox, s)
<1>1. s \in Agents /\ Buyer \in Agents /\ Sellers \subseteq Agents
  BY DEF Agents
<1>2. /\ m \in Mail(s)
      /\ box \in [Agents -> Seq(BuyerMail \cup SellerMail)]
      /\ box[Buyer] \in Seq(BuyerMail)
      /\ \A q \in Sellers : box[q] \in Seq(SellerMail) /\ Once(box[q])
      /\ \A b \in Agents : Elems(box[b]) \subseteq Mail(b)
      /\ m \notin Elems(box[s])
  BY <1>1, Reading
<1> HIDE DEF box
<1>3. /\ mailbox' \in [Agents -> Seq(BuyerMail \cup SellerMail)]
      /\ mailbox'[Buyer] \in Seq(BuyerMail)
      /\ \A q \in Sellers : mailbox'[q] \in Seq(SellerMail) /\ Once(mailbox'[q])
      /\ Elems(mailbox'[Buyer]) = Elems(box[Buyer]) \cup {e}
      /\ \A q \in Sellers : mailbox'[q] = box[q]
  <2> DEFINE new == Post(box, {Buyer}, e)
  <2>1. mailbox' = new
    BY DEF box
  <2>2. /\ new \in [Agents -> Seq(BuyerMail \cup SellerMail)]
        /\ new[Buyer] \in Seq(BuyerMail)
        /\ \A q \in Sellers : new[q] \in Seq(SellerMail) /\ Once(new[q])
        /\ Elems(new[Buyer]) = Elems(box[Buyer]) \cup {e}
        /\ \A q \in Sellers : new[q] = box[q]
    BY <1>2, PostingBuyer
  <2> HIDE DEF new
  <2> QED
    BY <2>1, <2>2
<1>4. Mail(Buyer)' \subseteq Mail(Buyer) \cup {e}
  BY <1>1, <1>2, <1>3 DEF Mail
<1>5. \A q \in Sellers : Mail(q)' \subseteq Mail(q)
  BY <1>1, <1>2, <1>3 DEF Mail
<1>6. m \notin Mail(s)'
  BY <1>2, <1>3 DEF Mail
<1>7. MailOK'
  <2>1. m.round <= round
    BY <1>1, <1>2 DEF MailOK
  <2>2. \A a \in Agents : \A b \in Mail(a)' : b.round <= round
    BY <1>1, <1>4, <1>5, <2>1 DEF MailOK, Agents
  <2> QED
    BY <1>3, <2>2 DEF MailOK
<1> QED
  BY <1>2, <1>4, <1>5, <1>6, <1>7 DEF Shrinks, Gains, Sent

(* A seller writes to the buyer.                                           *)
LEMMA Replies ==
    ASSUME MailOK, NEW e \in BuyerMail, mailbox' = Post(mailbox, {Buyer}, e),
           round' = round, e.round <= round
    PROVE  /\ MailOK'
           /\ \A q \in Sellers : \A type : Shrinks(q, type)
           /\ \A type : type # e.type => Shrinks(Buyer, type)
           /\ Gains(Buyer, e.type, e)
<1>1. Buyer \in Agents /\ Sellers \subseteq Agents
  BY DEF Agents
<1>2. /\ mailbox' \in [Agents -> Seq(BuyerMail \cup SellerMail)]
      /\ mailbox'[Buyer] \in Seq(BuyerMail)
      /\ \A q \in Sellers : mailbox'[q] \in Seq(SellerMail) /\ Once(mailbox'[q])
      /\ Elems(mailbox'[Buyer]) = Elems(mailbox[Buyer]) \cup {e}
      /\ \A q \in Sellers : mailbox'[q] = mailbox[q]
  <2> DEFINE new == Post(mailbox, {Buyer}, e)
  <2>1. /\ new \in [Agents -> Seq(BuyerMail \cup SellerMail)]
        /\ new[Buyer] \in Seq(BuyerMail)
        /\ \A q \in Sellers : new[q] \in Seq(SellerMail) /\ Once(new[q])
        /\ Elems(new[Buyer]) = Elems(mailbox[Buyer]) \cup {e}
        /\ \A q \in Sellers : new[q] = mailbox[q]
    BY PostingBuyer DEF MailOK
  <2> HIDE DEF new
  <2>2. mailbox' = new
    BY DEF new
  <2> QED
    BY <2>1, <2>2
<1>3. Mail(Buyer)' \subseteq Mail(Buyer) \cup {e} /\ \A q \in Sellers : Mail(q)' = Mail(q)
  BY <1>2 DEF Mail
<1>4. \A a \in Agents : \A b \in Mail(a)' : b.round <= round
  BY <1>1, <1>3 DEF MailOK, Agents
<1>5. MailOK'
  BY <1>2, <1>4 DEF MailOK
<1> QED
  BY <1>3, <1>5 DEF Shrinks, Gains, Sent

(* The buyer writes to sellers.                                            *)
LEMMA Tells ==
    ASSUME MailOK, NEW to \in SUBSET Sellers, NEW e \in SellerMail,
           \A s \in to : e \notin Mail(s),
           mailbox' = Post(mailbox, to, e),
           round \in Nat, round' \in Nat, round <= round', e.round <= round'
    PROVE  /\ MailOK'
           /\ \A type : Shrinks(Buyer, type)
           /\ \A q \in Sellers : \A type : q \notin to \/ type # e.type => Shrinks(q, type)
           /\ \A q \in to : Gains(q, e.type, e)
<1>1. Buyer \in Agents /\ Sellers \subseteq Agents
  BY DEF Agents
<1>2. /\ mailbox' \in [Agents -> Seq(BuyerMail \cup SellerMail)]
      /\ mailbox'[Buyer] = mailbox[Buyer]
      /\ \A s \in Sellers : mailbox'[s] \in Seq(SellerMail) /\ Once(mailbox'[s])
      /\ \A s \in to : Elems(mailbox'[s]) = Mail(s) \cup {e}
      /\ \A s \in Sellers \ to : mailbox'[s] = mailbox[s]
  <2> DEFINE new == Post(mailbox, to, e)
  <2>1. mailbox' = new
    OBVIOUS
  <2>2. /\ new \in [Agents -> Seq(BuyerMail \cup SellerMail)]
        /\ new[Buyer] = mailbox[Buyer]
        /\ \A s \in Sellers : new[s] \in Seq(SellerMail) /\ Once(new[s])
        /\ \A s \in to : Elems(new[s]) = Mail(s) \cup {e}
        /\ \A s \in Sellers \ to : new[s] = mailbox[s]
    BY PostingSellers
  <2> HIDE DEF new
  <2> QED
    BY <2>1, <2>2
<1>3. Mail(Buyer)' = Mail(Buyer) /\ \A s \in Sellers \ to : Mail(s)' = Mail(s)
  BY <1>2 DEF Mail
<1>4. \A s \in to : Mail(s)' = Mail(s) \cup {e}
  BY <1>2 DEF Mail
<1>5. MailOK'
  <2>1. \A a \in Agents : \A m \in Mail(a) : m.round \in Nat
    <3>1. \A a \in Agents : Mail(a) \subseteq BuyerMail \cup SellerMail
      BY ElemsIn DEF MailOK, Mail
    <3>2. \A m \in BuyerMail \cup SellerMail : m.round \in Nat
      BY DEF BuyerMail, SellerMail, Terms, Rounds
    <3> QED
      BY <3>1, <3>2
  <2>2. \A a \in Agents : \A m \in Mail(a)' : m.round <= round'
    BY <1>1, <1>3, <1>4, <2>1 DEF MailOK, Agents
  <2> QED
    BY <1>2, <2>2 DEF MailOK
<1> QED
  BY <1>3, <1>4, <1>5 DEF Shrinks, Gains, Sent

(* What the types of messages are made of.                                 *)
LEMMA MessageTypes ==
    ASSUME MailOK
    PROVE  /\ \A m \in Sent(Buyer, "BID") : m.round \in Rounds /\ m.by \in Sellers /\ m.price \in Nat
           /\ \A m \in Sent(Buyer, "ESCROW_REQUIRED") : m \in Terms
           /\ \A m \in Sent(Buyer, "DELIVERED") : m.round \in Rounds /\ m.good \in BOOLEAN
           /\ \A s \in Sellers : \A m \in Sent(s, "WANT") : m.round \in Rounds /\ m.budget = Budget
           /\ \A s \in Sellers : \A m \in Sent(s, "AWARD") : m.round \in Rounds
           /\ \A s \in Sellers : \A m \in Sent(s, "DEPOSITED") : m.round \in Rounds /\ m.reference \in Refs
           /\ \A a \in Agents : \A m \in Mail(a) : m.round \in Rounds /\ m.round <= round
<1>1. Mail(Buyer) \subseteq BuyerMail /\ \A s \in Sellers : Mail(s) \subseteq SellerMail
  BY ElemsIn DEF MailOK, Mail
<1>2. \A m \in Sent(Buyer, "BID") : m.round \in Rounds /\ m.by \in Sellers /\ m.price \in Nat
  BY <1>1 DEF BuyerMail, Terms, Sent
<1>3. \A m \in Sent(Buyer, "ESCROW_REQUIRED") : m \in Terms
  BY <1>1 DEF BuyerMail, Sent
<1>4. \A m \in Sent(Buyer, "DELIVERED") : m.round \in Rounds /\ m.good \in BOOLEAN
  BY <1>1 DEF BuyerMail, Terms, Sent
<1>5. ASSUME NEW s \in Sellers
      PROVE  /\ \A m \in Sent(s, "WANT") : m.round \in Rounds /\ m.budget = Budget
             /\ \A m \in Sent(s, "AWARD") : m.round \in Rounds
             /\ \A m \in Sent(s, "DEPOSITED") : m.round \in Rounds /\ m.reference \in Refs
  BY <1>1 DEF SellerMail, Sent
<1>6. \A m \in BuyerMail \cup SellerMail : m.round \in Rounds
  BY DEF BuyerMail, SellerMail, Terms
<1> QED
  BY <1>1, <1>2, <1>3, <1>4, <1>5, <1>6 DEF MailOK, Agents
-----------------------------------------------------------------------------
(* Parts of the invariant that a step leaves alone: their messages only    *)
(* get fewer, and nothing else they speak of changes.                      *)

LEMMA WantsKept ==
    ASSUME WantsOK, \A s \in Sellers : Shrinks(s, "WANT"), Shrinks(Buyer, "BID"),
           UNCHANGED <<quoted, round, bids>>
    PROVE  WantsOK'
BY DEF WantsOK, Shrinks

LEMMA BidsKept ==
    ASSUME BidsOK, Shrinks(Buyer, "BID"), UNCHANGED quoted
    PROVE  BidsOK'
BY DEF BidsOK, Shrinks

LEMMA AwardsKept ==
    ASSUME AwardsOK, \A s \in Sellers : Shrinks(s, "AWARD") /\ Shrinks(s, "DEPOSITED"),
           Shrinks(Buyer, "ESCROW_REQUIRED"), UNCHANGED <<round, winner>>,
           stage \in {"terms", "idle"} => stage' \in {"terms", "idle"}
    PROVE  AwardsOK'
<1> SUFFICES ASSUME NEW s \in Sellers, NEW m \in Sent(s, "AWARD")'
             PROVE  /\ m.round = round => winner = s /\ stage' \in {"terms", "idle"}
                    /\ \A q \in Sellers : \A b \in Sent(q, "AWARD")' : b.round = m.round => q = s
                    /\ \A t \in Sent(Buyer, "ESCROW_REQUIRED")' : t.round # m.round
                    /\ \A q \in Sellers : \A d \in Sent(q, "DEPOSITED")' : d.round # m.round
  BY DEF AwardsOK
<1>1. m \in Sent(s, "AWARD")
  BY DEF Shrinks
<1> QED
  BY <1>1 DEF AwardsOK, Shrinks

LEMMA TermsKept ==
    ASSUME TermsOK, Shrinks(Buyer, "ESCROW_REQUIRED"), UNCHANGED <<round, winner, bids>>,
           stage' # "bidding"
    PROVE  TermsOK'
BY DEF TermsOK, Shrinks, AgreedTerms, Reference

LEMMA DepositsKept ==
    ASSUME DepositsOK, \A s \in Sellers : Shrinks(s, "DEPOSITED"),
           UNCHANGED <<round, winner, terms, awarded, work>>,
           stage \in {"delivery", "releasing", "idle"} => stage' \in {"delivery", "releasing", "idle"}
    PROVE  DepositsOK'
<1> SUFFICES ASSUME NEW s \in Sellers, NEW m \in Sent(s, "DEPOSITED")'
             PROVE  /\ m.reference[1] = m.round
                    /\ m.round = round => /\ s = winner /\ m.reference = terms.reference
                                          /\ stage' \in {"delivery", "releasing", "idle"}
                    /\ \A q \in Sellers : \A d \in Sent(q, "DEPOSITED")' :
                          d.round = m.round => q = s /\ d = m
                    /\ \A a \in awarded[s] : a[1] = m.reference => work[m.reference] = {}
  BY DEF DepositsOK
<1>1. m \in Sent(s, "DEPOSITED")
  BY DEF Shrinks
<1> QED
  BY <1>1 DEF DepositsOK, Shrinks

LEMMA DeliveriesKept ==
    ASSUME DeliveriesOK, Shrinks(Buyer, "DELIVERED"),
           UNCHANGED <<round, winner, terms, work>>,
           stage \in {"delivery", "releasing", "idle"} => stage' \in {"delivery", "releasing", "idle"}
    PROVE  DeliveriesOK'
BY DEF DeliveriesOK, Shrinks

LEMMA SellersKept ==
    ASSUME SellersOK, UNCHANGED <<quoted, round, bids, awarded>>
    PROVE  SellersOK'
BY DEF SellersOK, PriceRange, Prices, Rounds, Reference

LEMMA ChainKept ==
    ASSUME ChainOK, UNCHANGED <<orderVars, mode>>
    PROVE  ChainOK'
BY DEF ChainOK, orderVars, PriceRange, Orders, Read

(* No mention is touched.                                                  *)
LEMMA MailKept ==
    ASSUME MailOK, UNCHANGED <<mailbox, round>>
    PROVE  MailOK' /\ \A a \in Agents : \A type : Shrinks(a, type)
<1>1. \A a, type : Mail(a)' = Mail(a) /\ Sent(a, type)' = Sent(a, type)
  BY DEF Mail, Sent
<1> QED
  BY <1>1 DEF MailOK, Shrinks
-----------------------------------------------------------------------------
(* What a seller bids is between its floor and the budget it was told.     *)
LEMMA BidInRange ==
    ASSUME NEW s \in Sellers, NEW price \in DecideBid(s, Budget)
    PROVE  price \in PriceRange(s)
<1>1. PICK p \in Proposals \cup {Floor[s]} :
         Floor[s] <= Budget /\ price = Clamp(Floor[s], Budget, p)
  BY DEF DecideBid
<1>2. p \in Nat /\ Floor[s] \in Nat /\ Budget \in Nat
  BY <1>1, AmountsAssumption
<1>3. \A a, b \in Nat : Max({a, b}) \in {a, b} /\ Max({a, b}) >= a /\ Max({a, b}) >= b
  <2> TAKE a, b \in Nat
  <2>1. \E x \in {a, b} : \A y \in {a, b} : x >= y
    <3>1. CASE a >= b
      BY <3>1
    <3>2. CASE b >= a
      BY <3>2
    <3> QED
      BY <3>1, <3>2
  <2> QED
    BY <2>1 DEF Max
<1>4. \A a, b \in Nat : Min({a, b}) \in {a, b} /\ Min({a, b}) <= a /\ Min({a, b}) <= b
  <2> TAKE a, b \in Nat
  <2>1. \E x \in {a, b} : \A y \in {a, b} : x <= y
    <3>1. CASE a <= b
      BY <3>1
    <3>2. CASE b <= a
      BY <3>2
    <3> QED
      BY <3>1, <3>2
  <2> QED
    BY <2>1 DEF Min
<1> DEFINE low == Max({Floor[s], p})
           high == Min({Budget, low})
<1>5. low \in Nat /\ low >= Floor[s]
  BY <1>2, <1>3
<1>6. high \in {Budget, low} /\ high <= Budget
  BY <1>2, <1>4, <1>5
<1>7. price = high
  BY <1>1 DEF Clamp
<1> QED
  BY <1>1, <1>2, <1>5, <1>6, <1>7 DEF PriceRange

LEMMA PricesRead ==
    ASSUME NEW s \in Sellers, NEW p \in PriceRange(s)
    PROVE  p \in Nat /\ Read(p) \in Nat
<1>1. Floor[s] \in Nat /\ Budget \in Nat /\ Sol \in Nat /\ PlainFrom \in Nat
  BY AmountsAssumption
<1>2. p \in Nat
  BY <1>1 DEF PriceRange
<1> QED
  BY <1>1, <1>2 DEF Read
-----------------------------------------------------------------------------
(* The buyer's steps.                                                      *)

LEMMA PursesLeft ==
    ASSUME ChainOK, UNCHANGED <<order, pot, clock, mode>>, purse' \in [Parties -> Nat],
           arbiter' \in {arbiter, ArbiterKey}, signer' = Buyer
    PROVE  ChainOK'
BY DEF ChainOK, PriceRange, Orders, Read

LEMMA BeginKeeps ==
    ASSUME MarketInv, ChainOK', stage \in {"setup", "funding"}, stage' \in {"funding", "idle", "down"},
           UNCHANGED <<mode, session, round, bids, winner, terms, quoted, awarded, mailbox, history>>
    PROVE  MarketInv'
<1> USE DEF MarketInv
<1>1. MailOK' /\ \A a \in Agents : \A type : Shrinks(a, type)
  BY MailKept
<1>2. Buyer \in Agents /\ Sellers \subseteq Agents
  BY DEF Agents
<1>3. BuyerOK'
  BY DEF BuyerOK, Underway, Acting, Bidders, Prices
<1>4. SellersOK'
  BY SellersKept
<1>5. WorkOK'
  BY DEF WorkOK, history
<1>6. WantsOK'
  BY <1>1, <1>2, WantsKept
<1>7. BidsOK'
  BY <1>1, <1>2, BidsKept
<1>8. AwardsOK'
  BY <1>1, <1>2, AwardsKept
<1>9. TermsOK'
  BY <1>1, <1>2, TermsKept
<1>10. DepositsOK'
  BY <1>1, <1>2, DepositsKept DEF history
<1>11. DeliveriesOK'
  BY <1>1, <1>2, DeliveriesKept DEF history
<1> QED
  BY <1>1, <1>3, <1>4, <1>5, <1>6, <1>7, <1>8, <1>9, <1>10, <1>11

LEMMA ConfigureKeeps ==
    ASSUME MarketInv, Configure
    PROVE  MarketInv'
<1>1. stage \in {"setup", "funding"} /\ stage' \in {"funding", "idle", "down"}
      /\ UNCHANGED <<mode, session, round, bids, winner, terms, quoted, awarded, mailbox, history>>
  BY DEF Configure, Begin, BeginFails
<1>2. ChainOK'
  <2>1. CASE UNCHANGED orderVars
    BY <1>1, <2>1, ChainKept DEF MarketInv
  <2>2. CASE ~UNCHANGED orderVars
    <3>1. /\ purse[Buyer] >= ConfigRent /\ purse' = [purse EXCEPT ![Buyer] = @ - ConfigRent]
          /\ arbiter' = ArbiterKey /\ signer' = Buyer /\ UNCHANGED <<order, pot, clock>>
      BY <2>2 DEF Configure, BeginFails
    <3>2. purse' \in [Parties -> Nat]
      BY <3>1, AmountsAssumption, PartiesAssumption DEF MarketInv, ChainOK
    <3> QED
      BY <1>1, <3>1, <3>2, PursesLeft DEF MarketInv
  <2> QED
    BY <2>1, <2>2
<1> QED
  BY <1>1, <1>2, BeginKeeps

LEMMA FundArbiterKeeps ==
    ASSUME MarketInv, FundArbiter
    PROVE  MarketInv'
<1>1. stage \in {"setup", "funding"} /\ stage' \in {"funding", "idle", "down"}
      /\ UNCHANGED <<mode, session, round, bids, winner, terms, quoted, awarded, mailbox, history>>
  BY DEF FundArbiter, Begin, BeginFails
<1>2. ChainOK'
  <2>1. CASE UNCHANGED orderVars
    BY <1>1, <2>1, ChainKept DEF MarketInv
  <2>2. CASE ~UNCHANGED orderVars
    <3>1. /\ purse[Buyer] >= Stipend
          /\ purse' = [purse EXCEPT ![Buyer] = @ - Stipend, ![ArbiterKey] = @ + Stipend]
          /\ signer' = Buyer /\ UNCHANGED <<order, pot, arbiter, clock>>
      BY <2>2 DEF FundArbiter, BeginFails
    <3>2. purse' \in [Parties -> Nat]
      BY <3>1, AmountsAssumption, PartiesAssumption DEF MarketInv, ChainOK
    <3> QED
      BY <1>1, <3>1, <3>2, PursesLeft DEF MarketInv
  <2> QED
    BY <2>1, <2>2
<1> QED
  BY <1>1, <1>2, BeginKeeps

LEMMA SetUpDirectKeeps ==
    ASSUME MarketInv, SetUpDirect
    PROVE  MarketInv'
<1>1. stage \in {"setup", "funding"} /\ stage' \in {"funding", "idle", "down"}
      /\ UNCHANGED <<mode, session, round, bids, winner, terms, quoted, awarded, mailbox, history>>
  BY DEF SetUpDirect, Begin
<1>2. ChainOK'
  BY <1>1, ChainKept DEF SetUpDirect, MarketInv
<1> QED
  BY <1>1, <1>2, BeginKeeps

(* A new round: no message speaks of it yet.                               *)
LEMMA AskKeeps ==
    ASSUME MarketInv, Ask
    PROVE  MarketInv'
<1> USE DEF MarketInv
<1>1. /\ session \in 1..(MaxTurns + 1) /\ round \in 0..MaxTurns /\ MaxTurns \in Nat
      /\ round' = round + 1 /\ round' \in Rounds /\ round' <= MaxTurns
  BY AmountsAssumption DEF Ask, TurnsLeft, BuyerOK, Rounds
<1>2. Buyer \in Agents /\ Sellers \subseteq Agents
  BY DEF Agents
<1> DEFINE e == WantMsg(round')
<1>3. e \in SellerMail /\ e.round = round' /\ e.type = "WANT"
  BY <1>1 DEF WantMsg, SellerMail
<1>4. \A s \in Sellers : e \notin Mail(s)
  BY <1>1, <1>2, <1>3 DEF MailOK
<1>5. mailbox' = Post(mailbox, Sellers, e)
  BY DEF Ask
<1> HIDE DEF e
<1>6. /\ MailOK'
      /\ \A type : Shrinks(Buyer, type)
      /\ \A q \in Sellers : \A type : type # "WANT" => Shrinks(q, type)
      /\ \A q \in Sellers : Gains(q, "WANT", e)
  BY <1>1, <1>3, <1>4, <1>5, Tells
<1>7. \A a \in Agents : \A m \in Mail(a) : m.round \in Rounds /\ m.round <= round
  BY MessageTypes
<1>8. \A a \in Agents : \A type : \A m \in Sent(a, type) : m.round < round'
  BY <1>1, <1>7 DEF Sent, Rounds
<1>9. ChainOK'
  BY ChainKept DEF Ask
<1>10. BuyerOK'
  BY <1>1, AmountsAssumption DEF Ask, BuyerOK, Underway, Acting, Bidders, Prices, NoBids
<1>11. SellersOK'
  <2>1. \A s \in Sellers : bids'[s] = NoPrice
    BY DEF Ask, NoBids
  <2>2. \A s \in Sellers, n \in Rounds : n <= round => n <= round'
    BY <1>1 DEF Rounds
  <2> QED
    BY <2>1, <2>2 DEF Ask, SellersOK, PriceRange, Rounds, Reference
<1>12. WorkOK'
  BY DEF WorkOK, Ask, history
<1>13. WantsOK'
  <2> SUFFICES ASSUME NEW s \in Sellers, NEW m \in Sent(s, "WANT")'
               PROVE  /\ quoted[s][m.round] = NoPrice
                      /\ m.round = round' => bids'[s] = NoPrice
                      /\ \A b \in Sent(Buyer, "BID")' : b.by = s => b.round # m.round
    BY DEF WantsOK, Ask
  <2>1. bids'[s] = NoPrice
    BY DEF Ask, NoBids
  <2>2. CASE m \in Sent(s, "WANT")
    BY <1>6, <2>1, <2>2 DEF WantsOK, Shrinks
  <2>3. CASE m = e
    <3>1. quoted[s][round'] = NoPrice
      BY <1>1 DEF SellersOK
    <3>2. \A b \in Sent(Buyer, "BID")' : b.round # round'
      BY <1>1, <1>2, <1>6, <1>8 DEF Shrinks
    <3> QED
      BY <1>3, <2>1, <2>3, <3>1, <3>2
  <2> QED
    BY <1>6, <2>2, <2>3 DEF Gains
<1>14. BidsOK'
  BY <1>6, BidsKept DEF Ask
<1>15. AwardsOK'
  <2> SUFFICES ASSUME NEW s \in Sellers, NEW m \in Sent(s, "AWARD")'
               PROVE  /\ m.round # round'
                      /\ \A q \in Sellers : \A b \in Sent(q, "AWARD")' : b.round = m.round => q = s
                      /\ \A t \in Sent(Buyer, "ESCROW_REQUIRED")' : t.round # m.round
                      /\ \A q \in Sellers : \A d \in Sent(q, "DEPOSITED")' : d.round # m.round
    BY DEF AwardsOK
  <2>1. m \in Sent(s, "AWARD")
    BY <1>6 DEF Shrinks
  <2>2. m.round # round'
    BY <1>1, <1>2, <1>8, <2>1
  <2>3. \A q \in Sellers : /\ Sent(q, "AWARD")' \subseteq Sent(q, "AWARD")
                           /\ Sent(q, "DEPOSITED")' \subseteq Sent(q, "DEPOSITED")
    BY <1>6 DEF Shrinks
  <2>4. Sent(Buyer, "ESCROW_REQUIRED")' \subseteq Sent(Buyer, "ESCROW_REQUIRED")
    BY <1>6 DEF Shrinks
  <2> QED
    BY <2>1, <2>2, <2>3, <2>4 DEF AwardsOK
<1>16. TermsOK'
  BY <1>1, <1>2, <1>6, <1>8 DEF TermsOK, Shrinks
<1>17. DepositsOK'
  <2> SUFFICES ASSUME NEW s \in Sellers, NEW m \in Sent(s, "DEPOSITED")'
               PROVE  /\ m.reference[1] = m.round
                      /\ m.round # round'
                      /\ \A q \in Sellers : \A d \in Sent(q, "DEPOSITED")' :
                            d.round = m.round => q = s /\ d = m
                      /\ \A a \in awarded[s] : a[1] = m.reference => work[m.reference] = {}
    BY DEF DepositsOK, Ask, history
  <2>1. \A q \in Sellers : Sent(q, "DEPOSITED")' \subseteq Sent(q, "DEPOSITED")
    BY <1>6 DEF Shrinks
  <2>2. m.round # round'
    BY <1>1, <1>2, <1>8, <2>1
  <2> QED
    BY <2>1, <2>2 DEF DepositsOK
<1>18. DeliveriesOK'
  BY <1>1, <1>2, <1>6, <1>8 DEF DeliveriesOK, Shrinks
<1> QED
  BY <1>6, <1>9, <1>10, <1>11, <1>12, <1>13, <1>14, <1>15, <1>16, <1>17, <1>18

LEMMA HearBidKeeps ==
    ASSUME MarketInv, HearBid
    PROVE  MarketInv'
<1> USE DEF MarketInv
<1>1. Buyer \in Agents /\ Sellers \subseteq Agents
  BY DEF Agents
<1>2. PICK m \in Mention(Buyer) :
         bids' = IF m.type = "BID" /\ m.round = round THEN [bids EXCEPT ![m.by] = m.price] ELSE bids
  BY DEF HearBid
<1>3. MailOK' /\ m \in Sent(Buyer, m.type) /\ \A a \in Agents : \A type : Shrinks(a, type)
  BY <1>1, Reads DEF HearBid
<1>4. bids' # bids => m \in Sent(Buyer, "BID") /\ m.round = round
  BY <1>2, <1>3
<1>5. \A b \in Sent(Buyer, "BID") : b.round \in Rounds /\ b.by \in Sellers /\ b.price \in Nat
  BY MessageTypes
<1>6. bids' \in [Sellers -> Prices]
      /\ \A s \in Sellers : \/ bids'[s] = bids[s]
                            \/ m \in Sent(Buyer, "BID") /\ m.round = round /\ m.by = s /\ bids'[s] = m.price
  BY <1>2, <1>4, <1>5 DEF BuyerOK, Prices
<1>7. ChainOK'
  BY ChainKept DEF HearBid
<1>8. BuyerOK'
  <2>1. stage = "bidding" /\ UNCHANGED <<session, round, stage, winner, terms>>
    BY DEF HearBid
  <2>2. \A s \in Sellers : bids[s] # NoPrice => bids'[s] # NoPrice
    BY <1>5, <1>6, AmountsAssumption
  <2>3. winner \in Bidders' \cup {NoSeller}
    BY <2>2 DEF BuyerOK, Bidders
  <2> QED
    BY <1>6, <2>1, <2>3 DEF BuyerOK, Underway, Acting
<1>9. SellersOK'
  <2>1. UNCHANGED <<quoted, round, awarded>>
    BY DEF HearBid
  <2>2. ASSUME NEW s \in Sellers, NEW n \in Rounds, n = round, bids'[s] # NoPrice, quoted[s][n] # NoPrice
        PROVE  bids'[s] = Read(quoted[s][n])
    <3>1. CASE bids'[s] = bids[s]
      BY <2>2, <3>1 DEF SellersOK
    <3>2. CASE m \in Sent(Buyer, "BID") /\ m.round = round /\ m.by = s /\ bids'[s] = m.price
      BY <2>2, <3>2 DEF BidsOK
    <3> QED
      BY <1>6, <3>1, <3>2
  <2> QED
    BY <2>1, <2>2 DEF SellersOK, PriceRange, Reference, Read
<1>10. WorkOK'
  BY DEF WorkOK, HearBid, history
<1>11. WantsOK'
  <2> SUFFICES ASSUME NEW s \in Sellers, NEW w \in Sent(s, "WANT")'
               PROVE  /\ quoted[s][w.round] = NoPrice
                      /\ w.round = round => bids'[s] = NoPrice
                      /\ \A b \in Sent(Buyer, "BID")' : b.by = s => b.round # w.round
    BY DEF WantsOK, HearBid
  <2>1. w \in Sent(s, "WANT") /\ Sent(Buyer, "BID")' \subseteq Sent(Buyer, "BID")
    BY <1>1, <1>3 DEF Shrinks
  <2>2. w.round = round => bids'[s] = NoPrice
    BY <1>6, <2>1 DEF WantsOK
  <2> QED
    BY <2>1, <2>2 DEF WantsOK
<1>12. BidsOK'
  BY <1>1, <1>3, BidsKept DEF HearBid
<1>13. AwardsOK'
  BY <1>1, <1>3, AwardsKept DEF HearBid
<1>14. TermsOK'
  BY <1>1, <1>3 DEF TermsOK, HearBid, Shrinks
<1>15. DepositsOK'
  BY <1>1, <1>3, DepositsKept DEF HearBid, history
<1>16. DeliveriesOK'
  BY <1>1, <1>3, DeliveriesKept DEF HearBid, history
<1> QED
  BY <1>3, <1>7, <1>8, <1>9, <1>10, <1>11, <1>12, <1>13, <1>14, <1>15, <1>16

(* The award is the first message about its round after the bids.          *)
LEMMA AwardKeeps ==
    ASSUME MarketInv, Award
    PROVE  MarketInv'
<1> USE DEF MarketInv
<1>1. Buyer \in Agents /\ Sellers \subseteq Agents
  BY DEF Agents
<1>2. stage = "bidding" /\ round \in Rounds /\ round \in Nat
      /\ UNCHANGED <<orderVars, mode, session, round, bids, terms, quoted, awarded, history>>
  BY AmountsAssumption DEF Award, BuyerOK, Underway, Rounds
<1>3. ChainOK'
  BY <1>2, ChainKept
<1>4. SellersOK'
  BY <1>2, SellersKept
<1>5. stage' # "bidding" /\ stage' \in {"idle", "terms"}
  BY DEF Award
<1>6. WorkOK'
  BY <1>2, <1>5 DEF WorkOK, history
<1>7. /\ \A s \in Sellers : \A m \in Sent(s, "AWARD") \cup Sent(s, "DEPOSITED") : m.round # round
      /\ \A m \in Sent(Buyer, "ESCROW_REQUIRED") : m.round # round
      /\ \A m \in Sent(Buyer, "DELIVERED") : m.good => m.round # round
  BY <1>2 DEF AwardsOK, DepositsOK, TermsOK, DeliveriesOK
<1>8. CASE Bidders = {} /\ stage' = "idle" /\ UNCHANGED <<winner, mailbox>>
  <2>1. MailOK' /\ \A a \in Agents : \A type : Shrinks(a, type)
    BY <1>2, <1>8, MailKept
  <2>2. BuyerOK'
    BY <1>2, <1>8 DEF BuyerOK, Underway, Acting, Bidders
  <2>3. WantsOK' /\ BidsOK' /\ AwardsOK' /\ TermsOK' /\ DepositsOK' /\ DeliveriesOK'
    BY <1>1, <1>2, <1>8, <2>1, WantsKept, BidsKept, AwardsKept, TermsKept, DepositsKept,
       DeliveriesKept DEF history
  <2> QED
    BY <1>3, <1>4, <1>6, <2>1, <2>2, <2>3
<1>9. ASSUME NEW s \in Bidders, winner' = s, stage' = "terms",
             mailbox' = Post(mailbox, {s}, AwardMsg(round))
      PROVE  MarketInv'
  <2> DEFINE e == AwardMsg(round)
  <2>1. s \in Sellers
    BY DEF Bidders
  <2>2. e \in SellerMail /\ e.round = round /\ e.type = "AWARD"
    BY <1>2 DEF AwardMsg, SellerMail
  <2>3. \A q \in {s} : e \notin Mail(q)
    BY <1>7, <2>1, <2>2 DEF Sent
  <2>4. mailbox' = Post(mailbox, {s}, e)
    BY <1>9
  <2> HIDE DEF e
  <2>5. /\ MailOK'
        /\ \A type : Shrinks(Buyer, type)
        /\ \A q \in Sellers : \A type : q \notin {s} \/ type # "AWARD" => Shrinks(q, type)
        /\ \A q \in {s} : Gains(q, "AWARD", e)
    <3>1. {s} \in SUBSET Sellers /\ round' = round /\ e.round <= round' /\ round <= round'
      BY <1>2, <2>1, <2>2
    <3> QED
      BY <1>2, <2>2, <2>3, <2>4, <3>1, Tells
  <2>6. BuyerOK'
    BY <1>2, <1>9, <2>1, PartiesAssumption DEF BuyerOK, Underway, Acting, Bidders
  <2>7. WantsOK' /\ BidsOK'
    BY <1>2, <2>5, WantsKept, BidsKept
  <2>8. \A q \in Sellers : \A m \in Sent(q, "AWARD")' : m \in Sent(q, "AWARD") \/ (q = s /\ m = e)
    BY <2>5 DEF Shrinks, Gains
  <2>9. /\ \A q \in Sellers : Sent(q, "DEPOSITED")' \subseteq Sent(q, "DEPOSITED")
        /\ Sent(Buyer, "ESCROW_REQUIRED")' \subseteq Sent(Buyer, "ESCROW_REQUIRED")
        /\ Sent(Buyer, "DELIVERED")' \subseteq Sent(Buyer, "DELIVERED")
    BY <2>5 DEF Shrinks
  <2>10. AwardsOK'
    <3> SUFFICES ASSUME NEW q \in Sellers, NEW m \in Sent(q, "AWARD")'
                 PROVE  /\ m.round = round => s = q
                        /\ \A x \in Sellers : \A b \in Sent(x, "AWARD")' : b.round = m.round => x = q
                        /\ \A t \in Sent(Buyer, "ESCROW_REQUIRED")' : t.round # m.round
                        /\ \A x \in Sellers : \A d \in Sent(x, "DEPOSITED")' : d.round # m.round
      BY <1>2, <1>9 DEF AwardsOK
    <3>1. CASE m \in Sent(q, "AWARD")
      BY <1>7, <2>2, <2>8, <2>9, <3>1 DEF AwardsOK
    <3>2. CASE q = s /\ m = e
      BY <1>7, <2>2, <2>8, <2>9, <3>2
    <3> QED
      BY <2>8, <3>1, <3>2
  <2>11. TermsOK'
    BY <1>2, <1>7, <2>9 DEF TermsOK
  <2>12. DepositsOK'
    <3> SUFFICES ASSUME NEW q \in Sellers, NEW m \in Sent(q, "DEPOSITED")'
                 PROVE  /\ m.reference[1] = m.round
                        /\ m.round # round
                        /\ \A x \in Sellers : \A d \in Sent(x, "DEPOSITED")' :
                              d.round = m.round => x = q /\ d = m
                        /\ \A a \in awarded[q] : a[1] = m.reference => work[m.reference] = {}
      BY <1>2 DEF DepositsOK, history
    <3> QED
      BY <1>7, <2>9 DEF DepositsOK
  <2>13. DeliveriesOK'
    BY <1>2, <1>7, <2>9 DEF DeliveriesOK
  <2> QED
    BY <1>3, <1>4, <1>6, <2>5, <2>6, <2>7, <2>10, <2>11, <2>12, <2>13
<1> QED
  BY <1>8, <1>9 DEF Award

(* Terms of an earlier round are passed over; those of this round come     *)
(* from the seller awarded.                                                *)
LEMMA HearTermsKeeps ==
    ASSUME MarketInv, HearTerms
    PROVE  MarketInv'
<1> USE DEF MarketInv
<1>1. Buyer \in Agents /\ Sellers \subseteq Agents
  BY DEF Agents
<1>2. PICK m \in Mention(Buyer) :
         /\ terms' = IF IsTerms(m) THEN m ELSE terms
         /\ stage' = IF ~IsTerms(m) THEN "terms" ELSE IF m.seller \in Trusted THEN "opening" ELSE "idle"
  BY DEF HearTerms
<1>3. MailOK' /\ m \in Sent(Buyer, m.type) /\ \A a \in Agents : \A type : Shrinks(a, type)
  BY <1>1, Reads DEF HearTerms
<1>4. stage = "terms"
      /\ UNCHANGED <<orderVars, mode, session, round, bids, winner, quoted, awarded, history>>
  BY DEF HearTerms
<1>5. ChainOK' /\ SellersOK' /\ WantsOK' /\ BidsOK'
  BY <1>1, <1>3, <1>4, ChainKept, SellersKept, WantsKept, BidsKept
<1>6. stage' # "bidding" /\ stage' \in {"terms", "opening", "idle"}
  BY <1>2
<1>7. TermsOK'
  BY <1>1, <1>3, <1>4, <1>6, TermsKept
<1>8. WorkOK'
  BY <1>4, <1>6 DEF WorkOK, history
<1>9. IsTerms(m) => m \in Sent(Buyer, "ESCROW_REQUIRED") /\ m \in Terms /\ m.round = round
  BY <1>3, MessageTypes DEF IsTerms
<1>10. BuyerOK'
  <2>1. stage' = "opening" => terms' \in Terms /\ terms'.round = round /\ AgreedTerms(m) /\ terms' = m
    BY <1>2, <1>9 DEF TermsOK
  <2>2. stage' \in Acting => stage' = "opening"
    BY <1>6 DEF Acting
  <2>3. stage' = "opening" => AgreedTerms(terms)'
    BY <1>4, <2>1 DEF AgreedTerms, Reference, Read, PriceRange
  <2> QED
    BY <1>4, <1>6, <2>1, <2>2, <2>3 DEF BuyerOK, Underway, Acting, Bidders
<1>11. AwardsOK'
  <2>1. CASE ~IsTerms(m)
    BY <1>1, <1>2, <1>3, <1>4, <2>1, AwardsKept
  <2>2. CASE IsTerms(m)
    <3> SUFFICES ASSUME NEW s \in Sellers, NEW a \in Sent(s, "AWARD")'
                 PROVE  /\ a.round # round
                        /\ \A q \in Sellers : \A b \in Sent(q, "AWARD")' : b.round = a.round => q = s
                        /\ \A t \in Sent(Buyer, "ESCROW_REQUIRED")' : t.round # a.round
                        /\ \A q \in Sellers : \A d \in Sent(q, "DEPOSITED")' : d.round # a.round
      BY <1>4 DEF AwardsOK
    <3>1. \A x \in Agents : \A type : Sent(x, type)' \subseteq Sent(x, type)
      BY <1>3 DEF Shrinks
    <3> QED
      BY <1>1, <1>9, <2>2, <3>1 DEF AwardsOK
  <2> QED
    BY <2>1, <2>2
<1>12. DepositsOK'
  <2> SUFFICES ASSUME NEW s \in Sellers, NEW d \in Sent(s, "DEPOSITED")'
               PROVE  /\ d.reference[1] = d.round
                      /\ d.round # round
                      /\ \A q \in Sellers : \A b \in Sent(q, "DEPOSITED")' :
                            b.round = d.round => q = s /\ b = d
                      /\ \A a \in awarded[s] : a[1] = d.reference => work[d.reference] = {}
    BY <1>4 DEF DepositsOK, history
  <2>1. \A x \in Agents : \A type : Sent(x, type)' \subseteq Sent(x, type)
    BY <1>3 DEF Shrinks
  <2> QED
    BY <1>1, <1>4, <2>1 DEF DepositsOK
<1>13. DeliveriesOK'
  <2>1. \A b \in Sent(Buyer, "DELIVERED")' : b \in Sent(Buyer, "DELIVERED")
    BY <1>1, <1>3 DEF Shrinks
  <2> QED
    BY <1>4, <2>1 DEF DeliveriesOK
<1> QED
  BY <1>3, <1>5, <1>7, <1>8, <1>10, <1>11, <1>12, <1>13

(* The order on the chain is the one agreed on.                            *)
LEMMA PayInKeepsChain ==
    ASSUME MarketInv, PayIn, stage = "opening", UNCHANGED mode
    PROVE  /\ ChainOK'
           /\ terms.reference \in Refs
           /\ order'[terms.reference].seller = Wallet[winner]
<1> DEFINE r == terms.reference
           new == [seller |-> terms.seller, amount |-> terms.amount, deadline |-> clock + DeadlineSecs]
<1>1. terms \in Terms /\ AgreedTerms(terms) /\ winner \in Sellers
  BY DEF MarketInv, BuyerOK, Acting, AgreedTerms, Bidders
<1>2. r \in Refs /\ terms.amount \in Nat /\ terms.seller = Wallet[winner]
  BY <1>1 DEF Terms, AgreedTerms
<1>3. order' = [order EXCEPT ![r] = new] /\ order[r] = NoOrder /\ order'[r] \in Orders
      /\ signer' = Buyer /\ purse[Buyer] >= terms.amount + Fee
      /\ pot' = [pot EXCEPT ![r] = @ + order'[r].amount + Fee]
      /\ purse' = [purse EXCEPT ![signer'] = @ - (order'[r].amount + Fee)]
      /\ UNCHANGED <<arbiter, clock>>
  BY DEF PayIn, Place
<1>4. order'[r] = new
  BY <1>2, <1>3 DEF MarketInv, ChainOK
<1>5. order'[r].amount = terms.amount /\ order'[r].seller = terms.seller
  BY <1>4
<1> HIDE DEF r, new
<1>6. Fee \in Nat /\ Buyer \in Parties
  BY AmountsAssumption, PartiesAssumption
<1>7. pot' \in [Refs -> Nat] /\ purse' \in [Parties -> Nat]
  BY <1>2, <1>3, <1>5, <1>6 DEF MarketInv, ChainOK
<1>8. order' \in [Refs -> Orders \cup {NoOrder}]
  BY <1>2, <1>3, <1>4 DEF MarketInv, ChainOK
<1>9. ASSUME NEW q \in Refs, order'[q] # NoOrder
      PROVE  /\ pot'[q] >= order'[q].amount + Fee
             /\ \E s \in Sellers : \E p \in PriceRange(s) :
                   order'[q].seller = Wallet[s] /\ order'[q].amount = Read(p)
  <2>1. CASE q = r
    <3>1. pot[r] \in Nat /\ pot'[r] = pot[r] + terms.amount + Fee
      BY <1>2, <1>3, <1>5 DEF MarketInv, ChainOK
    <3>2. pot'[r] >= terms.amount + Fee
      BY <1>2, <1>6, <3>1
    <3>3. \E p \in PriceRange(winner) : terms.amount = Read(p)
      BY <1>1 DEF AgreedTerms
    <3> QED
      BY <1>1, <1>2, <1>5, <2>1, <3>2, <3>3
  <2>2. CASE q # r
    <3>1. order'[q] = order[q] /\ pot'[q] = pot[q]
      BY <1>3, <2>2 DEF MarketInv, ChainOK
    <3> QED
      BY <1>9, <3>1 DEF MarketInv, ChainOK
  <2> QED
    BY <2>1, <2>2
<1> QED
  <2>1. ChainOK'
    BY <1>3, <1>7, <1>8, <1>9 DEF MarketInv, ChainOK, PriceRange, Read
  <2> QED
    BY <1>2, <1>5, <2>1 DEF r

(* The order lands, and the call returns or throws.                        *)
LEMMA LandsKeeps ==
    ASSUME MarketInv, PayIn, stage = "opening",
           work' = [work EXCEPT ![terms.reference] = {}],
           deposited' = deposited \cup {terms.reference},
           \/ /\ stage' = "delivery"
              /\ mailbox' = Post(mailbox, {winner}, DepositedMsg(round, terms.reference))
           \/ stage' = "idle" /\ UNCHANGED mailbox,
           UNCHANGED <<mode, session, round, bids, winner, terms, quoted, awarded>>
    PROVE  MarketInv'
<1> USE DEF MarketInv
<1> DEFINE r == terms.reference
           e == DepositedMsg(round, r)
<1>1. Buyer \in Agents /\ Sellers \subseteq Agents
  BY DEF Agents
<1>2. ChainOK' /\ r \in Refs /\ order'[r].seller = Wallet[winner]
  BY PayInKeepsChain
<1>3. /\ winner \in Sellers /\ round \in Rounds /\ round \in Nat
      /\ terms.round = round /\ r[1] = round
  <2>1. stage \in Acting /\ stage \in Underway
    BY DEF Acting, Underway
  <2> QED
    BY <2>1, AmountsAssumption DEF BuyerOK, AgreedTerms, Bidders, Rounds, Reference
<1>4. /\ \A s \in Sellers : \A m \in Sent(s, "AWARD") \cup Sent(s, "DEPOSITED") : m.round # round
      /\ \A m \in Sent(Buyer, "DELIVERED") : m.good => m.round # round
  BY DEF AwardsOK, DepositsOK, DeliveriesOK
<1>5. e \in SellerMail /\ e.round = round /\ e.type = "DEPOSITED" /\ e.reference = r
  BY <1>2, <1>3 DEF DepositedMsg, SellerMail
<1>6. /\ MailOK'
      /\ \A type : Shrinks(Buyer, type)
      /\ \A q \in Sellers : \A type : type # "DEPOSITED" => Shrinks(q, type)
      /\ \A q \in Sellers : \A m \in Sent(q, "DEPOSITED")' :
            m \in Sent(q, "DEPOSITED") \/ (q = winner /\ m = e /\ stage' = "delivery")
  <2>1. CASE stage' = "delivery" /\ mailbox' = Post(mailbox, {winner}, e)
    <3>1. \A q \in {winner} : e \notin Mail(q)
      BY <1>3, <1>4, <1>5 DEF Sent
    <3>2. {winner} \in SUBSET Sellers /\ round' = round /\ e.round <= round' /\ round <= round'
      BY <1>3, <1>5
    <3> HIDE DEF e
    <3>3. /\ MailOK'
          /\ \A type : Shrinks(Buyer, type)
          /\ \A q \in Sellers : \A type : q \notin {winner} \/ type # "DEPOSITED" => Shrinks(q, type)
          /\ \A q \in {winner} : Gains(q, "DEPOSITED", e)
      BY <1>3, <1>5, <2>1, <3>1, <3>2, Tells
    <3> QED
      BY <1>3, <2>1, <3>3 DEF Shrinks, Gains
  <2>2. CASE UNCHANGED mailbox
    BY <1>1, <2>2, MailKept DEF Shrinks
  <2> QED
    BY <2>1, <2>2
<1> HIDE DEF e
<1>7. stage' \in {"delivery", "idle"}
  OBVIOUS
<1>8. BuyerOK'
  <2>1. AgreedTerms(terms)'
    BY DEF BuyerOK, Acting, AgreedTerms, Reference, Read, PriceRange
  <2> QED
    BY <1>7, <2>1 DEF BuyerOK, Underway, Acting, Bidders
<1>9. SellersOK' /\ WantsOK' /\ BidsOK'
  BY <1>6, SellersKept, WantsKept, BidsKept
<1>10. TermsOK'
  BY <1>6, <1>7, TermsKept
<1>11. WorkOK'
  BY <1>2, <1>7 DEF WorkOK
<1>12. \A q \in Sellers : Sent(q, "AWARD")' \subseteq Sent(q, "AWARD")
  BY <1>6 DEF Shrinks
<1>13. AwardsOK'
  <2> SUFFICES ASSUME NEW s \in Sellers, NEW a \in Sent(s, "AWARD")'
               PROVE  /\ a.round # round
                      /\ \A q \in Sellers : \A b \in Sent(q, "AWARD")' : b.round = a.round => q = s
                      /\ \A t \in Sent(Buyer, "ESCROW_REQUIRED")' : t.round # a.round
                      /\ \A q \in Sellers : \A d \in Sent(q, "DEPOSITED")' : d.round # a.round
    BY DEF AwardsOK
  <2>1. a \in Sent(s, "AWARD") /\ a.round # round
    BY <1>4, <1>12
  <2>2. Sent(Buyer, "ESCROW_REQUIRED")' \subseteq Sent(Buyer, "ESCROW_REQUIRED")
    BY <1>6 DEF Shrinks
  <2>3. \A q \in Sellers : \A d \in Sent(q, "DEPOSITED")' : d.round # a.round
    BY <1>5, <1>6, <2>1 DEF AwardsOK
  <2> QED
    BY <1>12, <2>1, <2>2, <2>3 DEF AwardsOK
<1>14. DepositsOK'
  <2> SUFFICES ASSUME NEW s \in Sellers, NEW m \in Sent(s, "DEPOSITED")'
               PROVE  /\ m.reference[1] = m.round
                      /\ m.round = round => s = winner /\ m.reference = r
                      /\ \A q \in Sellers : \A d \in Sent(q, "DEPOSITED")' :
                            d.round = m.round => q = s /\ d = m
                      /\ \A a \in awarded[s] : a[1] = m.reference => work'[m.reference] = {}
    BY <1>7 DEF DepositsOK
  <2>1. CASE m \in Sent(s, "DEPOSITED")
    <3>1. m.round # round /\ m.reference[1] = m.round
      BY <1>4, <2>1 DEF DepositsOK
    <3>2. work'[m.reference] = work[m.reference]
      BY <1>3, <3>1
    <3> QED
      BY <1>5, <1>6, <2>1, <3>1, <3>2 DEF DepositsOK
  <2>2. CASE s = winner /\ m = e
    <3>1. work'[r] = {}
      BY <1>2 DEF WorkOK
    <3> QED
      BY <1>3, <1>4, <1>5, <1>6, <2>2, <3>1
  <2> QED
    BY <1>6, <2>1, <2>2
<1>15. DeliveriesOK'
  <2>1. Sent(Buyer, "DELIVERED")' \subseteq Sent(Buyer, "DELIVERED")
    BY <1>6 DEF Shrinks
  <2> QED
    BY <1>4, <2>1 DEF DeliveriesOK
<1> QED
  BY <1>2, <1>6, <1>8, <1>9, <1>10, <1>11, <1>13, <1>14, <1>15

(* The buyer turns to its next wait, or to the next round; nothing but its *)
(* stage, its mailbox and the orders that end changes.                     *)
LEMMA MovesOnKeeps ==
    ASSUME MarketInv, ChainOK', MailOK', \A a \in Agents : \A type : Shrinks(a, type),
           \A r \in Refs : order'[r] \in {order[r], NoOrder},
           stage \in {"terms"} \cup Acting,
           stage' \in {stage, "idle"}
             \/ (stage = "delivery" /\ stage' = "releasing" /\ <<winner, TRUE>> \in work[terms.reference]),
           UNCHANGED <<mode, session, round, bids, winner, terms, quoted, awarded, history>>
    PROVE  MarketInv'
<1> USE DEF MarketInv
<1>1. Buyer \in Agents /\ Sellers \subseteq Agents
  BY DEF Agents
<1>2. BuyerOK'
  <2>1. stage \in Acting => AgreedTerms(terms)'
    BY DEF BuyerOK, AgreedTerms, Reference, Read, PriceRange
  <2> QED
    BY <2>1 DEF BuyerOK, Underway, Acting, Bidders
<1>3. WorkOK'
  <2>1. stage \in Acting => terms.reference \in Refs
    BY DEF BuyerOK, Terms
  <2> QED
    BY <2>1 DEF WorkOK, history, Acting
<1>4. stage' # "bidding"
  BY DEF Acting
<1>5. SellersOK' /\ WantsOK' /\ BidsOK' /\ TermsOK'
  BY <1>1, <1>4, SellersKept, WantsKept, BidsKept, TermsKept
<1>6. AwardsOK'
  BY <1>1, AwardsKept DEF Acting
<1>7. DepositsOK' /\ DeliveriesOK'
  BY <1>1, DepositsKept, DeliveriesKept DEF Acting, history
<1> QED
  BY <1>2, <1>3, <1>5, <1>6, <1>7

LEMMA OpenOrderKeeps ==
    ASSUME MarketInv, OpenOrder
    PROVE  MarketInv'
<1>1. CASE PayIn /\ ~UNCHANGED order
  <2>1. /\ work' = [work EXCEPT ![terms.reference] = {}]
        /\ deposited' = deposited \cup {terms.reference}
        /\ \/ /\ stage' = "delivery"
              /\ mailbox' = Post(mailbox, {winner}, DepositedMsg(round, terms.reference))
           \/ stage' = "idle" /\ UNCHANGED mailbox
    BY <1>1 DEF OpenOrder, orderVars
  <2> QED
    BY <1>1, <2>1, LandsKeeps DEF OpenOrder
<1>2. CASE ~PayIn \/ UNCHANGED order
  <2>1. PayIn => ~UNCHANGED order
    <3> SUFFICES ASSUME PayIn, stage = "opening"
                 PROVE  order' # order
      BY DEF OpenOrder
    <3>1. terms.reference \in Refs
      BY DEF MarketInv, BuyerOK, Acting, Terms
    <3>2. order'[terms.reference] \in Orders /\ order[terms.reference] = NoOrder
      BY DEF PayIn, Place
    <3> QED
      BY <3>2, AmountsAssumption
  <2>2. /\ stage = "opening" /\ stage' = "idle"
        /\ UNCHANGED <<orderVars, mailbox, history>>
        /\ UNCHANGED <<mode, session, round, bids, winner, terms, quoted, awarded>>
    BY <1>2, <2>1 DEF OpenOrder, OpenArbitrated, Deposit
  <2>3. ChainOK' /\ MailOK' /\ \A a \in Agents : \A type : Shrinks(a, type)
    BY <2>2, ChainKept, MailKept DEF MarketInv
  <2> QED
    BY <2>2, <2>3, MovesOnKeeps DEF orderVars, Acting
<1> QED
  BY <1>1, <1>2

LEMMA HearDeliveryKeeps ==
    ASSUME MarketInv, HearDelivery
    PROVE  MarketInv'
<1>1. PICK m \in Mention(Buyer) :
         stage' = IF ~IsDelivery(m) THEN "delivery" ELSE IF m.good THEN "releasing" ELSE "idle"
  BY DEF HearDelivery
<1>2. stage = "delivery" /\ Buyer \in Agents
      /\ UNCHANGED <<orderVars, mode, session, round, bids, winner, terms, quoted, awarded, history>>
  BY DEF HearDelivery, Agents
<1>3. MailOK' /\ m \in Sent(Buyer, m.type) /\ \A a \in Agents : \A type : Shrinks(a, type)
  BY <1>2, Reads DEF HearDelivery, MarketInv
<1>4. ChainOK'
  BY <1>2, ChainKept DEF MarketInv
<1>5. stage' = "releasing" => <<winner, TRUE>> \in work[terms.reference]
  BY <1>1, <1>3 DEF IsDelivery, MarketInv, DeliveriesOK
<1> QED
  BY <1>1, <1>2, <1>3, <1>4, <1>5, MovesOnKeeps DEF orderVars, Acting

LEMMA GiveUpKeeps ==
    ASSUME MarketInv, GiveUp
    PROVE  MarketInv'
<1>1. /\ stage \in {"terms", "delivery"} /\ stage' = "idle"
      /\ UNCHANGED <<orderVars, mode, session, round, bids, winner, terms, quoted, awarded, mailbox, history>>
  BY DEF GiveUp, TimedWaits
<1>2. ChainOK' /\ MailOK' /\ \A a \in Agents : \A type : Shrinks(a, type)
  BY <1>1, ChainKept, MailKept DEF MarketInv
<1> QED
  BY <1>1, <1>2, MovesOnKeeps DEF orderVars, Acting

(* An order ends, out of a pot that covers it.                             *)
LEMMA EndingKeepsChain ==
    ASSUME ChainOK, NEW r \in Refs, order[r] # NoOrder,
           order' = [order EXCEPT ![r] = NoOrder],
           pot' \in [Refs -> Nat], \A q \in Refs : q # r => pot'[q] = pot[q],
           purse' \in [Parties -> Nat], signer' \in {Buyer, ArbiterKey},
           UNCHANGED <<arbiter, clock, mode>>
    PROVE  ChainOK' /\ \A q \in Refs : order'[q] \in {order[q], NoOrder}
<1>1. \A q \in Refs : order'[q] = IF q = r THEN NoOrder ELSE order[q]
  BY DEF ChainOK
<1>2. order' \in [Refs -> Orders \cup {NoOrder}]
  BY DEF ChainOK
<1> QED
  BY <1>1, <1>2 DEF ChainOK, PriceRange, Read

LEMMA CloseKeepsChain ==
    ASSUME ChainOK, NEW r \in Refs, NEW amount \in Nat, Close(r, amount),
           amount <= order[r].amount, UNCHANGED mode
    PROVE  ChainOK' /\ \A q \in Refs : order'[q] \in {order[q], NoOrder}
<1>1. /\ order[r] \in Orders /\ order[r] # NoOrder /\ pot[r] \in Nat
      /\ pot[r] >= order[r].amount + Fee /\ Fee \in Nat /\ Buyer \in Parties
  BY AmountsAssumption, PartiesAssumption DEF ChainOK, Close
<1>2. order[r].seller \in Parties /\ order[r].amount \in Nat /\ pot[r] - amount \in Nat
  BY <1>1 DEF Orders
<1>3. pot' \in [Refs -> Nat] /\ \A q \in Refs : q # r => pot'[q] = pot[q]
  BY DEF ChainOK, Close
<1>4. purse' \in [Parties -> Nat]
  <2>1. purse' = [purse EXCEPT ![order[r].seller] = @ + amount, ![Buyer] = @ + pot[r] - amount]
    BY DEF Close
  <2> QED
    BY <1>1, <1>2, <2>1 DEF ChainOK
<1> QED
  BY <1>1, <1>3, <1>4, EndingKeepsChain DEF Close

LEMMA PaySellerKeepsChain ==
    ASSUME ChainOK, NEW r \in Refs, PaySeller(r), signer' = ArbiterKey, UNCHANGED mode
    PROVE  ChainOK' /\ \A q \in Refs : order'[q] \in {order[q], NoOrder}
<1>1. /\ order[r] \in Orders /\ order[r] # NoOrder /\ pot[r] \in Nat
      /\ pot[r] >= order[r].amount + Fee /\ Fee \in Nat
  BY AmountsAssumption DEF ChainOK, PaySeller, Settle
<1>2. order[r].seller \in Parties /\ order[r].amount \in Nat /\ pot[r] - order[r].amount \in Nat
  BY <1>1 DEF Orders
<1>3. pot' \in [Refs -> Nat] /\ \A q \in Refs : q # r => pot'[q] = pot[q]
  BY <1>2 DEF ChainOK, PaySeller
<1>4. purse' \in [Parties -> Nat]
  BY <1>2 DEF ChainOK, PaySeller
<1> QED
  BY <1>1, <1>3, <1>4, EndingKeepsChain DEF PaySeller, Settle

LEMMA ReimburseKeepsChain ==
    ASSUME ChainOK, NEW r \in Refs, Reimburse(r, Buyer), signer' = ArbiterKey, UNCHANGED mode
    PROVE  ChainOK' /\ \A q \in Refs : order'[q] \in {order[q], NoOrder}
<1>1. order[r] # NoOrder /\ pot[r] \in Nat /\ Buyer \in Parties
  BY PartiesAssumption DEF ChainOK, Reimburse, Settle
<1>2. pot' \in [Refs -> Nat] /\ \A q \in Refs : q # r => pot'[q] = pot[q]
  BY DEF ChainOK, Reimburse
<1>3. purse' \in [Parties -> Nat]
  BY <1>1 DEF ChainOK, Reimburse
<1> QED
  BY <1>1, <1>2, <1>3, EndingKeepsChain DEF Reimburse, Settle

LEMMA ReleaseKeeps ==
    ASSUME MarketInv, Release
    PROVE  MarketInv'
<1>1. /\ stage = "releasing" /\ stage' = "idle"
      /\ UNCHANGED <<mode, session, round, bids, winner, terms, quoted, awarded, mailbox, history>>
  BY DEF Release
<1>2. terms.reference \in Refs
  BY <1>1 DEF MarketInv, BuyerOK, Acting, Terms
<1>3. ChainOK' /\ \A q \in Refs : order'[q] \in {order[q], NoOrder}
  <2>1. CASE ArbitrateRelease
    BY <1>1, <1>2, <2>1, PaySellerKeepsChain DEF ArbitrateRelease, MarketInv
  <2>2. CASE ReleaseDeposit
    <3>1. order[terms.reference].amount \in Nat
      BY <1>2, <2>2 DEF ReleaseDeposit, Close, MarketInv, ChainOK, Orders
    <3>2. Close(terms.reference, order[terms.reference].amount)
      BY <2>2 DEF ReleaseDeposit
    <3> QED
      BY <1>1, <1>2, <3>1, <3>2, CloseKeepsChain DEF MarketInv
  <2>3. CASE UNCHANGED orderVars
    BY <1>1, <2>3, ChainKept DEF orderVars, MarketInv
  <2> QED
    BY <2>1, <2>2, <2>3 DEF Release
<1>4. MailOK' /\ \A a \in Agents : \A type : Shrinks(a, type)
  BY <1>1, MailKept DEF MarketInv
<1> QED
  BY <1>1, <1>3, <1>4, MovesOnKeeps DEF Acting

(* Only orders end, or time passes; the agents do nothing.                 *)
LEMMA AgentsIdleKeeps ==
    ASSUME MarketInv, ChainOK', \A r \in Refs : order'[r] \in {order[r], NoOrder},
           UNCHANGED <<mode, session, round, stage, bids, winner, terms, quoted, awarded, mailbox,
                       history>>
    PROVE  MarketInv'
<1> USE DEF MarketInv
<1>1. MailOK' /\ \A a \in Agents : \A type : Shrinks(a, type)
  BY MailKept
<1>2. Buyer \in Agents /\ Sellers \subseteq Agents
  BY DEF Agents
<1>3. BuyerOK'
  <2>1. stage \in Acting => AgreedTerms(terms)'
    BY DEF BuyerOK, AgreedTerms, Reference, Read, PriceRange
  <2> QED
    BY <2>1 DEF BuyerOK, Underway, Acting, Bidders
<1>4. WorkOK'
  <2>1. stage \in Acting => terms.reference \in Refs
    BY DEF BuyerOK, Terms
  <2> QED
    BY <2>1 DEF WorkOK, history, Acting
<1>5. SellersOK' /\ WantsOK' /\ BidsOK'
  BY <1>1, <1>2, SellersKept, WantsKept, BidsKept
<1>6. AwardsOK' /\ DepositsOK' /\ DeliveriesOK'
  BY <1>1, <1>2, AwardsKept, DepositsKept, DeliveriesKept DEF history
<1>7. TermsOK'
  <2>1. Sent(Buyer, "ESCROW_REQUIRED")' \subseteq Sent(Buyer, "ESCROW_REQUIRED")
    BY <1>1, <1>2 DEF Shrinks
  <2> QED
    BY <2>1 DEF TermsOK, AgreedTerms, Reference, Read, PriceRange
<1> QED
  BY <1>1, <1>3, <1>4, <1>5, <1>6, <1>7

LEMMA ReclaimKeeps ==
    ASSUME MarketInv, NEW r \in Refs, Reclaim(r)
    PROVE  MarketInv'
<1>1. UNCHANGED agentVars /\ UNCHANGED mode /\ ChainOK
  BY DEF Reclaim, agentVars, MarketInv
<1>2. ChainOK' /\ \A q \in Refs : order'[q] \in {order[q], NoOrder}
  <2>1. CASE signer' = ArbiterKey /\ Reimburse(r, Buyer)
    BY <1>1, <2>1, ReimburseKeepsChain
  <2>2. CASE Refund(r)
    <3>1. Close(r, 0) /\ 0 \in Nat
      BY <2>2 DEF Refund
    <3>2. 0 <= order[r].amount
      BY <3>1 DEF Close, MarketInv, ChainOK, Orders
    <3> QED
      BY <1>1, <3>1, <3>2, CloseKeepsChain
  <2> QED
    BY <2>1, <2>2 DEF Reclaim
<1> QED
  BY <1>1, <1>2, AgentsIdleKeeps DEF agentVars

LEMMA PassTimeKeeps ==
    ASSUME MarketInv, PassTime
    PROVE  MarketInv'
<1>1. UNCHANGED agentVars /\ UNCHANGED mode
  BY DEF PassTime, agentVars
<1>2. UNCHANGED order /\ ChainOK'
  BY <1>1, AmountsAssumption DEF PassTime, Pass, MarketInv, ChainOK, PriceRange, Orders, Read
<1> QED
  BY <1>1, <1>2, AgentsIdleKeeps DEF agentVars
-----------------------------------------------------------------------------
(* A mention is read and nothing comes of it, or it is lost.  An award may *)
(* be gone with it.                                                        *)
LEMMA ReadingKeeps ==
    ASSUME MarketInv, NEW a \in Agents, mailbox[a] # <<>>, mailbox' = Consume(mailbox, a),
           awarded' \in [Sellers -> SUBSET (Refs \X Nat)],
           \A s \in Sellers : awarded'[s] \subseteq awarded[s],
           UNCHANGED <<orderVars, mode, session, round, stage, bids, winner, terms, quoted, history>>
    PROVE  MarketInv'
<1> USE DEF MarketInv
<1>1. MailOK' /\ \A b \in Agents : \A type : Shrinks(b, type)
  <2>1. Head(mailbox[a]) \in Mention(a)
    BY DEF Mention
  <2> QED
    BY <2>1, Reads
<1>2. Buyer \in Agents /\ Sellers \subseteq Agents
  BY DEF Agents
<1>3. ChainOK'
  BY ChainKept
<1>4. BuyerOK'
  <2>1. stage \in Acting => AgreedTerms(terms)'
    BY DEF BuyerOK, AgreedTerms, Reference, Read, PriceRange
  <2> QED
    BY <2>1 DEF BuyerOK, Underway, Acting, Bidders
<1>5. WorkOK'
  BY DEF WorkOK, history, orderVars
<1>6. SellersOK'
  BY DEF SellersOK, PriceRange, Reference, Read
<1>7. WantsOK' /\ BidsOK' /\ AwardsOK' /\ DeliveriesOK'
  BY <1>1, <1>2, WantsKept, BidsKept, AwardsKept, DeliveriesKept DEF history
<1>8. TermsOK'
  <2>1. Sent(Buyer, "ESCROW_REQUIRED")' \subseteq Sent(Buyer, "ESCROW_REQUIRED")
    BY <1>1, <1>2 DEF Shrinks
  <2> QED
    BY <2>1 DEF TermsOK, AgreedTerms, Reference, Read, PriceRange
<1>9. DepositsOK'
  <2>1. \A s \in Sellers : Sent(s, "DEPOSITED")' \subseteq Sent(s, "DEPOSITED")
    BY <1>1, <1>2 DEF Shrinks
  <2> SUFFICES ASSUME NEW s \in Sellers, NEW m \in Sent(s, "DEPOSITED")'
               PROVE  /\ m.reference[1] = m.round
                      /\ m.round = round => /\ s = winner /\ m.reference = terms.reference
                                            /\ stage \in {"delivery", "releasing", "idle"}
                      /\ \A q \in Sellers : \A d \in Sent(q, "DEPOSITED")' :
                            d.round = m.round => q = s /\ d = m
                      /\ \A x \in awarded'[s] : x[1] = m.reference => work[m.reference] = {}
    BY DEF DepositsOK, history
  <2> QED
    BY <2>1 DEF DepositsOK
<1> QED
  BY <1>1, <1>3, <1>4, <1>5, <1>6, <1>7, <1>8, <1>9

LEMMA LoseKeeps ==
    ASSUME MarketInv, NEW a \in Agents, Lose(a)
    PROVE  MarketInv'
BY ReadingKeeps DEF Lose, MarketInv, SellersOK

(* In one mailbox, the requests and the awards of a round are one message. *)
LEMMA OneOfARound ==
    ASSUME MailOK, NEW s \in Sellers
    PROVE  /\ \A w, m \in Sent(s, "WANT") : w.round = m.round => w = m
           /\ \A w, m \in Sent(s, "AWARD") : w.round = m.round => w = m
<1>1. Mail(s) \subseteq SellerMail
  BY ElemsIn DEF MailOK, Mail
<1>2. Sent(s, "WANT") \subseteq [type : {"WANT"}, round : Rounds, budget : {Budget}]
  BY <1>1 DEF SellerMail, Sent
<1>3. Sent(s, "AWARD") \subseteq [type : {"AWARD"}, round : Rounds]
  BY <1>1 DEF SellerMail, Sent
<1> QED
  BY <1>2, <1>3

LEMMA HandleWantKeeps ==
    ASSUME MarketInv, NEW s \in Sellers, HandleWant(s)
    PROVE  MarketInv'
<1> USE DEF MarketInv
<1>1. Buyer \in Agents /\ Sellers \subseteq Agents /\ s \in Agents /\ Buyer \notin Sellers
  BY PartiesAssumption DEF Agents
<1>2. UNCHANGED <<orderVars, mode, session, round, stage, bids, winner, terms, awarded, history>>
  BY DEF HandleWant
<1>3. PICK m \in Mention(s) :
         /\ m.type = "WANT"
         /\ \/ UNCHANGED quoted /\ mailbox' = Consume(mailbox, s)
            \/ \E price \in DecideBid(s, m.budget) :
                  /\ quoted' = [quoted EXCEPT ![s][m.round] = price]
                  /\ mailbox' = Post(Consume(mailbox, s), {Buyer}, BidMsg(m.round, s, price))
  BY DEF HandleWant
<1>4. m \in Sent(s, "WANT") /\ mailbox[s] # <<>>
  BY <1>1, <1>3, Reading DEF Sent, Mention
<1>5. m.round \in Rounds /\ m.budget = Budget /\ m.round <= round
  <2>1. m \in Mail(s)
    BY <1>4 DEF Sent
  <2> QED
    BY <1>1, <1>4, <2>1, MessageTypes
<1>6. CASE UNCHANGED quoted /\ mailbox' = Consume(mailbox, s)
  BY <1>1, <1>2, <1>4, <1>6, ReadingKeeps DEF SellersOK
<1>7. ASSUME NEW price \in DecideBid(s, Budget),
             quoted' = [quoted EXCEPT ![s][m.round] = price],
             mailbox' = Post(Consume(mailbox, s), {Buyer}, BidMsg(m.round, s, price))
      PROVE  MarketInv'
  <2>1. price \in PriceRange(s) /\ price \in Nat /\ Read(price) \in Nat /\ price # NoPrice
    BY BidInRange, PricesRead, AmountsAssumption
  <2> DEFINE e == BidMsg(m.round, s, price)
  <2>2. e \in BuyerMail /\ e.type = "BID" /\ e.round = m.round /\ e.by = s /\ e.price = Read(price)
    BY <1>5, <2>1 DEF BidMsg, BuyerMail
  <2>3. mailbox' = Post(Consume(mailbox, s), {Buyer}, e)
    BY <1>7
  <2> HIDE DEF e
  <2>4. /\ MailOK'
        /\ Sent(s, "WANT")' \subseteq Sent(s, "WANT") \ {m}
        /\ \A q \in Sellers : \A type : Shrinks(q, type)
        /\ \A type : type # "BID" => Shrinks(Buyer, type)
        /\ Gains(Buyer, "BID", e)
    BY <1>2, <1>3, <2>2, <2>3, Answers
  <2>5. \A q \in Sellers, n \in Rounds :
           quoted'[q][n] = IF q = s /\ n = m.round THEN price ELSE quoted[q][n]
    BY <1>5, <1>7 DEF SellersOK
  <2>6. ChainOK'
    BY <1>2, ChainKept
  <2>7. BuyerOK'
    <3>1. stage \in Acting => AgreedTerms(terms)'
      BY <1>2 DEF BuyerOK, AgreedTerms, Reference, Read, PriceRange
    <3> QED
      BY <1>2, <3>1 DEF BuyerOK, Underway, Acting, Bidders
  <2>8. SellersOK'
    <3>1. quoted' \in [Sellers -> [Rounds -> Prices]]
      BY <1>5, <1>7, <2>1 DEF SellersOK, Prices
    <3>2. ASSUME NEW q \in Sellers, NEW n \in Rounds, quoted'[q][n] # NoPrice
          PROVE  /\ n <= round /\ quoted'[q][n] \in PriceRange(q)
                 /\ n = round /\ bids[q] # NoPrice => bids[q] = Read(quoted'[q][n])
      <4>1. CASE q = s /\ n = m.round
        BY <1>4, <1>5, <2>1, <2>5, <4>1 DEF WantsOK
      <4>2. CASE ~(q = s /\ n = m.round)
        BY <2>5, <3>2, <4>2 DEF SellersOK
      <4> QED
        BY <4>1, <4>2
    <3> QED
      BY <1>2, <3>1, <3>2 DEF SellersOK, PriceRange, Reference, Read
  <2>9. WorkOK'
    BY <1>2 DEF WorkOK, history, orderVars
  <2>10. WantsOK'
    <3> SUFFICES ASSUME NEW q \in Sellers, NEW w \in Sent(q, "WANT")'
                 PROVE  /\ quoted'[q][w.round] = NoPrice
                        /\ w.round = round => bids[q] = NoPrice
                        /\ \A b \in Sent(Buyer, "BID")' : b.by = q => b.round # w.round
      BY <1>2 DEF WantsOK
    <3>1. w \in Sent(q, "WANT") /\ w.round \in Rounds
      BY <2>4, MessageTypes DEF Shrinks
    <3>2. q = s => w.round # m.round
      BY <1>4, <2>4, <3>1, OneOfARound
    <3>3. \A b \in Sent(Buyer, "BID")' : b \in Sent(Buyer, "BID") \/ b = e
      BY <2>4 DEF Gains
    <3> QED
      BY <2>2, <2>5, <3>1, <3>2, <3>3 DEF WantsOK
  <2>11. BidsOK'
    <3> SUFFICES ASSUME NEW b \in Sent(Buyer, "BID")', quoted'[b.by][b.round] # NoPrice
                 PROVE  b.price = Read(quoted'[b.by][b.round])
      BY DEF BidsOK, Read
    <3>1. CASE b = e
      BY <1>5, <2>2, <2>5, <3>1
    <3>2. CASE b \in Sent(Buyer, "BID")
      <4>1. b.by \in Sellers /\ b.round \in Rounds /\ ~(b.by = s /\ b.round = m.round)
        BY <1>4, <3>2, MessageTypes DEF WantsOK
      <4> QED
        BY <2>5, <3>2, <4>1 DEF BidsOK
    <3> QED
      BY <2>4, <3>1, <3>2 DEF Gains
  <2>12. AwardsOK' /\ DepositsOK' /\ DeliveriesOK'
    BY <1>2, <2>4, AwardsKept, DepositsKept, DeliveriesKept DEF history
  <2>13. TermsOK'
    <3>1. Sent(Buyer, "ESCROW_REQUIRED")' \subseteq Sent(Buyer, "ESCROW_REQUIRED")
      BY <2>4 DEF Shrinks
    <3> QED
      BY <1>2, <3>1 DEF TermsOK, AgreedTerms, Reference, Read, PriceRange
  <2> QED
    BY <2>4, <2>6, <2>7, <2>8, <2>9, <2>10, <2>11, <2>12, <2>13
<1> QED
  BY <1>3, <1>5, <1>6, <1>7

LEMMA HandleAwardKeeps ==
    ASSUME MarketInv, NEW s \in Sellers, HandleAward(s)
    PROVE  MarketInv'
<1> USE DEF MarketInv
<1>1. Buyer \in Agents /\ Sellers \subseteq Agents /\ s \in Agents /\ Buyer \notin Sellers
  BY PartiesAssumption DEF Agents
<1>2. UNCHANGED <<orderVars, mode, session, round, stage, bids, winner, terms, history>>
  BY DEF HandleAward
<1>3. PICK m \in Mention(s) :
         /\ m.type = "AWARD"
         /\ \/ /\ quoted[s][m.round] = NoPrice
               /\ mailbox' = Consume(mailbox, s) /\ UNCHANGED <<quoted, awarded>>
            \/ /\ quoted[s][m.round] # NoPrice
               /\ awarded' = [awarded EXCEPT ![s] =
                     @ \cup {<<Reference(m.round, Wallet[s], quoted[s][m.round]), quoted[s][m.round]>>}]
               /\ quoted' = [quoted EXCEPT ![s][m.round] = NoPrice]
               /\ mailbox' = Post(Consume(mailbox, s), {Buyer},
                                  TermsMsg(m.round, Wallet[s], quoted[s][m.round]))
  BY DEF HandleAward
<1>4. m \in Sent(s, "AWARD") /\ mailbox[s] # <<>>
  BY <1>1, <1>3, Reading DEF Sent, Mention
<1>5. m.round \in Rounds
  BY <1>4, MessageTypes
<1>6. CASE mailbox' = Consume(mailbox, s) /\ UNCHANGED <<quoted, awarded>>
  BY <1>1, <1>2, <1>4, <1>6, ReadingKeeps DEF SellersOK
<1> DEFINE price == quoted[s][m.round]
           r == Reference(m.round, Wallet[s], price)
           e == TermsMsg(m.round, Wallet[s], price)
<1>7. ASSUME price # NoPrice,
             awarded' = [awarded EXCEPT ![s] = @ \cup {<<r, price>>}],
             quoted' = [quoted EXCEPT ![s][m.round] = NoPrice],
             mailbox' = Post(Consume(mailbox, s), {Buyer}, e)
      PROVE  MarketInv'
  <2>1. price \in PriceRange(s) /\ price \in Nat /\ Read(price) \in Nat
    BY <1>5, <1>7, PricesRead DEF SellersOK
  <2>2. r \in Refs /\ r[1] = m.round /\ Wallet[s] \in Parties
    BY <1>5, <2>1, ReferencesAssumption, PartiesAssumption DEF PriceRange, Reference
  <2>3. e \in Terms /\ e \in BuyerMail /\ e.type = "ESCROW_REQUIRED" /\ e.round = m.round
        /\ e.reference = r /\ e.seller = Wallet[s] /\ e.amount = Read(price)
    BY <1>5, <2>1, <2>2 DEF TermsMsg, Terms, BuyerMail
  <2>4. mailbox' = Post(Consume(mailbox, s), {Buyer}, e)
    BY <1>7
  <2> HIDE DEF e, r, price
  <2>5. /\ MailOK'
        /\ Sent(s, "AWARD")' \subseteq Sent(s, "AWARD") \ {m}
        /\ \A q \in Sellers : \A type : Shrinks(q, type)
        /\ \A type : type # "ESCROW_REQUIRED" => Shrinks(Buyer, type)
        /\ Gains(Buyer, "ESCROW_REQUIRED", e)
    BY <1>2, <1>3, <2>3, <2>4, Answers
  <2>6. \A q \in Sellers, n \in Rounds : quoted'[q][n] \in {quoted[q][n], NoPrice}
    BY <1>5, <1>7 DEF SellersOK
  <2>7. \A q \in Sellers : awarded'[q] = IF q = s THEN awarded[s] \cup {<<r, price>>} ELSE awarded[q]
    BY <1>7 DEF SellersOK
  <2>8. ChainOK'
    BY <1>2, ChainKept
  <2>9. BuyerOK'
    <3>1. stage \in Acting => AgreedTerms(terms)'
      BY <1>2 DEF BuyerOK, AgreedTerms, Reference, Read, PriceRange
    <3> QED
      BY <1>2, <3>1 DEF BuyerOK, Underway, Acting, Bidders
  <2>10. SellersOK'
    <3>1. quoted' \in [Sellers -> [Rounds -> Prices]]
      BY <1>5, <1>7 DEF SellersOK, Prices
    <3>2. awarded' \in [Sellers -> SUBSET (Refs \X Nat)]
      BY <1>7, <2>1, <2>2 DEF SellersOK
    <3>3. ASSUME NEW q \in Sellers, NEW a \in awarded'[q]
          PROVE  a[2] \in PriceRange(q) /\ \E n \in Rounds : a[1] = Reference(n, Wallet[q], a[2])
      <4>1. CASE q = s /\ a = <<r, price>>
        BY <1>5, <2>1, <4>1 DEF r
      <4>2. CASE a \in awarded[q]
        BY <4>2 DEF SellersOK
      <4> QED
        BY <2>7, <3>3, <4>1, <4>2
    <3>4. \A q \in Sellers, n \in Rounds : quoted'[q][n] # NoPrice =>
             /\ n <= round /\ quoted'[q][n] \in PriceRange(q)
             /\ n = round /\ bids[q] # NoPrice => bids[q] = Read(quoted'[q][n])
      BY <2>6 DEF SellersOK
    <3> QED
      BY <1>2, <3>1, <3>2, <3>3, <3>4 DEF SellersOK, PriceRange, Reference, Read
  <2>11. WorkOK'
    BY <1>2 DEF WorkOK, history, orderVars
  <2>12. WantsOK'
    <3> SUFFICES ASSUME NEW q \in Sellers, NEW w \in Sent(q, "WANT")'
                 PROVE  /\ quoted'[q][w.round] = NoPrice
                        /\ w.round = round => bids[q] = NoPrice
                        /\ \A b \in Sent(Buyer, "BID")' : b.by = q => b.round # w.round
      BY <1>2 DEF WantsOK
    <3>1. w \in Sent(q, "WANT") /\ w.round \in Rounds
      BY <2>5, MessageTypes DEF Shrinks
    <3>2. Sent(Buyer, "BID")' \subseteq Sent(Buyer, "BID")
      BY <2>5 DEF Shrinks
    <3> QED
      BY <2>6, <3>1, <3>2 DEF WantsOK
  <2>13. BidsOK'
    <3> SUFFICES ASSUME NEW b \in Sent(Buyer, "BID")', quoted'[b.by][b.round] # NoPrice
                 PROVE  b.price = Read(quoted'[b.by][b.round])
      BY DEF BidsOK, Read
    <3>1. b \in Sent(Buyer, "BID") /\ b.by \in Sellers /\ b.round \in Rounds
      BY <2>5, MessageTypes DEF Shrinks
    <3> QED
      BY <2>6, <3>1 DEF BidsOK
  <2>14. \A t \in Sent(Buyer, "ESCROW_REQUIRED")' : t \in Sent(Buyer, "ESCROW_REQUIRED") \/ t = e
    BY <2>5 DEF Gains
  <2>15. AwardsOK'
    <3> SUFFICES ASSUME NEW q \in Sellers, NEW a \in Sent(q, "AWARD")'
                 PROVE  /\ a.round = round => winner = q /\ stage \in {"terms", "idle"}
                        /\ \A x \in Sellers : \A b \in Sent(x, "AWARD")' : b.round = a.round => x = q
                        /\ \A t \in Sent(Buyer, "ESCROW_REQUIRED")' : t.round # a.round
                        /\ \A x \in Sellers : \A d \in Sent(x, "DEPOSITED")' : d.round # a.round
      BY <1>2 DEF AwardsOK
    <3>1. a \in Sent(q, "AWARD")
          /\ \A x \in Sellers : Sent(x, "AWARD")' \subseteq Sent(x, "AWARD")
                             /\ Sent(x, "DEPOSITED")' \subseteq Sent(x, "DEPOSITED")
      BY <2>5 DEF Shrinks
    <3>2. a.round # m.round
      BY <1>4, <2>5, <3>1, OneOfARound DEF AwardsOK
    <3> QED
      BY <2>3, <2>14, <3>1, <3>2 DEF AwardsOK
  <2>16. TermsOK'
    <3> SUFFICES ASSUME NEW t \in Sent(Buyer, "ESCROW_REQUIRED")', t.round = round
                 PROVE  stage # "bidding" /\ AgreedTerms(t)
      BY <1>2 DEF TermsOK, AgreedTerms, Reference, Read, PriceRange
    <3>1. CASE t = e
      <4>1. winner = s /\ stage \in {"terms", "idle"} /\ m.round = round
        BY <1>4, <2>3, <3>1 DEF AwardsOK
      <4>2. winner # NoSeller /\ bids[winner] # NoPrice
        BY <4>1, PartiesAssumption DEF BuyerOK, Bidders
      <4>3. bids[winner] = Read(price)
        BY <1>5, <1>7, <4>1, <4>2 DEF SellersOK, price
      <4> QED
        BY <2>1, <2>3, <3>1, <4>1, <4>2, <4>3 DEF AgreedTerms, r
    <3>2. CASE t \in Sent(Buyer, "ESCROW_REQUIRED")
      BY <3>2 DEF TermsOK
    <3> QED
      BY <2>14, <3>1, <3>2
  <2>17. DepositsOK'
    <3> SUFFICES ASSUME NEW q \in Sellers, NEW d \in Sent(q, "DEPOSITED")'
                 PROVE  /\ d.reference[1] = d.round
                        /\ d.round = round => /\ q = winner /\ d.reference = terms.reference
                                              /\ stage \in {"delivery", "releasing", "idle"}
                        /\ \A x \in Sellers : \A b \in Sent(x, "DEPOSITED")' :
                              b.round = d.round => x = q /\ b = d
                        /\ \A a \in awarded'[q] : a[1] = d.reference => work[d.reference] = {}
      BY <1>2 DEF DepositsOK, history
    <3>1. \A x \in Sellers : Sent(x, "DEPOSITED")' \subseteq Sent(x, "DEPOSITED")
      BY <2>5 DEF Shrinks
    <3>2. d.reference[1] = d.round /\ d.round # m.round
      BY <1>4, <3>1 DEF DepositsOK, AwardsOK
    <3>3. \A a \in awarded'[q] : a[1] = d.reference => a \in awarded[q]
      BY <2>2, <2>7, <3>2
    <3> QED
      BY <3>1, <3>3 DEF DepositsOK
  <2>18. DeliveriesOK'
    BY <1>2, <2>5, DeliveriesKept DEF history
  <2> QED
    BY <2>5, <2>8, <2>9, <2>10, <2>11, <2>12, <2>13, <2>15, <2>16, <2>17, <2>18
<1> QED
  BY <1>3, <1>6, <1>7

(* Work is done on what the mention of the deposit says, once.             *)
LEMMA CheckDepositKeeps ==
    ASSUME MarketInv, NEW s \in Sellers, CheckDeposit(s)
    PROVE  MarketInv'
<1>1. /\ UNCHANGED <<orderVars, mode, session, round, stage, bids, winner, terms, quoted, history>>
      /\ mailbox[s] # <<>> /\ mailbox' = Consume(mailbox, s)
  BY DEF CheckDeposit, Mention
<1>2. \E due \in SUBSET awarded[s] : awarded' \in {awarded, [awarded EXCEPT ![s] = @ \ due]}
  <2>1. PICK m \in Mention(s) :
           LET due == {a \in awarded[s] : /\ a[1] = m.reference
                                          /\ IsFunded(s, m.reference, a[2])}
           IN awarded' \in {awarded, [awarded EXCEPT ![s] = @ \ due]}
    BY DEF CheckDeposit
  <2> QED
    BY <2>1
<1>3. /\ awarded' \in [Sellers -> SUBSET (Refs \X Nat)]
      /\ \A q \in Sellers : awarded'[q] \subseteq awarded[q]
  BY <1>2 DEF MarketInv, SellersOK
<1>4. s \in Agents
  BY DEF Agents
<1> QED
  BY <1>1, <1>3, <1>4, ReadingKeeps

(* What has been delivered for was being served.                           *)
LEMMA DeliverKeeps ==
    ASSUME MarketInv, ServingOK, NEW s \in Sellers, Deliver(s)
    PROVE  MarketInv'
<1> USE DEF MarketInv
<1>1. Buyer \in Agents /\ Sellers \subseteq Agents /\ s \in Agents /\ Buyer \notin Sellers
  BY PartiesAssumption DEF Agents
<1>2. UNCHANGED <<orderVars, mode, session, round, stage, bids, winner, terms, quoted, awarded,
                  deposited>>
  BY DEF Deliver
<1>3. PICK d \in serving[s] :
         \/ UNCHANGED <<work, mailbox>>
         \/ \E good \in BOOLEAN :
               /\ work' = [work EXCEPT ![d.reference] = @ \cup {<<s, good>>}]
               /\ mailbox' = Post(mailbox, {Buyer}, DeliveredMsg(d.round, good))
  BY DEF Deliver
<1>4. d.round \in Rounds /\ d.reference \in Refs /\ Serves(s, d)
  BY <1>3 DEF ServingOK
<1>5. CASE UNCHANGED <<work, mailbox>>
  <2>1. ChainOK' /\ UNCHANGED order
    BY <1>2, ChainKept DEF orderVars
  <2> QED
    BY <1>2, <1>5, <2>1, AgentsIdleKeeps DEF history
<1>6. ASSUME NEW good \in BOOLEAN,
             work' = [work EXCEPT ![d.reference] = @ \cup {<<s, good>>}],
             mailbox' = Post(mailbox, {Buyer}, DeliveredMsg(d.round, good))
      PROVE  MarketInv'
  <2> DEFINE e == DeliveredMsg(d.round, good)
  <2>1. e \in BuyerMail /\ e.type = "DELIVERED" /\ e.round = d.round /\ e.good = good
    BY <1>4 DEF DeliveredMsg, BuyerMail
  <2>2. mailbox' = Post(mailbox, {Buyer}, e) /\ e.round <= round
    BY <1>4, <1>6, <2>1 DEF Serves
  <2> HIDE DEF e
  <2>3. /\ MailOK'
        /\ \A q \in Sellers : \A type : Shrinks(q, type)
        /\ \A type : type # "DELIVERED" => Shrinks(Buyer, type)
        /\ Gains(Buyer, "DELIVERED", e)
    BY <1>2, <2>1, <2>2, Replies
  <2>4. \A r \in Refs : work'[r] = IF r = d.reference THEN work[r] \cup {<<s, good>>} ELSE work[r]
    BY <1>4, <1>6 DEF WorkOK
  <2>5. ChainOK'
    BY <1>2, ChainKept
  <2>6. BuyerOK'
    <3>1. stage \in Acting => AgreedTerms(terms)'
      BY <1>2 DEF BuyerOK, AgreedTerms, Reference, Read, PriceRange
    <3> QED
      BY <1>2, <3>1 DEF BuyerOK, Underway, Acting, Bidders
  <2>7. SellersOK'
    BY <1>2 DEF SellersOK, PriceRange, Reference, Read
  <2>8. stage \in Acting => terms.reference \in Refs
    BY DEF BuyerOK, Terms
  <2>9. WorkOK'
    <3>1. work' \in [Refs -> SUBSET (Sellers \X BOOLEAN)]
      BY <1>4, <1>6 DEF WorkOK
    <3>2. stage = "releasing" => <<winner, TRUE>> \in work'[terms.reference]
      BY <2>4, <2>8 DEF WorkOK, Acting
    <3> QED
      BY <1>2, <3>1, <3>2 DEF WorkOK, orderVars
  <2>10. WantsOK' /\ BidsOK' /\ AwardsOK'
    BY <1>2, <2>3, WantsKept, BidsKept, AwardsKept
  <2>11. TermsOK'
    <3>1. Sent(Buyer, "ESCROW_REQUIRED")' \subseteq Sent(Buyer, "ESCROW_REQUIRED")
      BY <2>3 DEF Shrinks
    <3> QED
      BY <1>2, <3>1 DEF TermsOK, AgreedTerms, Reference, Read, PriceRange
  <2>12. DepositsOK'
    <3> SUFFICES ASSUME NEW q \in Sellers, NEW m \in Sent(q, "DEPOSITED")'
                 PROVE  /\ m.reference[1] = m.round
                        /\ m.round = round => /\ q = winner /\ m.reference = terms.reference
                                              /\ stage \in {"delivery", "releasing", "idle"}
                        /\ \A x \in Sellers : \A b \in Sent(x, "DEPOSITED")' :
                              b.round = m.round => x = q /\ b = m
                        /\ \A a \in awarded'[q] : a[1] = m.reference => work'[m.reference] = {}
      BY <1>2 DEF DepositsOK
    <3>1. \A x \in Sellers : Sent(x, "DEPOSITED")' \subseteq Sent(x, "DEPOSITED")
      BY <2>3 DEF Shrinks
    <3>2. m \in Sent(q, "DEPOSITED") /\ m.reference \in Refs
      BY <3>1, MessageTypes
    <3>3. m.reference # d.reference
      BY <1>4, <3>2 DEF DepositsOK, Serves
    <3>4. work'[m.reference] = work[m.reference]
      BY <2>4, <3>2, <3>3
    <3> QED
      BY <1>2, <3>1, <3>2, <3>4 DEF DepositsOK
  <2>13. DeliveriesOK'
    <3> SUFFICES ASSUME NEW b \in Sent(Buyer, "DELIVERED")', b.round = round, b.good
                 PROVE  /\ stage \in {"delivery", "releasing", "idle"}
                        /\ <<winner, TRUE>> \in work'[terms.reference]
      BY <1>2 DEF DeliveriesOK
    <3>1. CASE b = e
      <4>1. /\ s = winner /\ d.reference = terms.reference
            /\ stage \in {"delivery", "releasing", "idle"}
        BY <1>4, <2>1, <3>1 DEF Serves
      <4>2. good = TRUE
        BY <2>1, <3>1
      <4> QED
        BY <1>4, <2>4, <4>1, <4>2
    <3>2. CASE b \in Sent(Buyer, "DELIVERED")
      <4>1. stage \in {"delivery", "releasing", "idle"} /\ <<winner, TRUE>> \in work[terms.reference]
        BY <3>2 DEF DeliveriesOK
      <4>2. work[terms.reference] \subseteq work'[terms.reference]
        BY <1>6, <2>4 DEF WorkOK
      <4> QED
        BY <4>1, <4>2
    <3> QED
      BY <2>3, <3>1, <3>2 DEF Gains
  <2> QED
    BY <2>3, <2>5, <2>6, <2>7, <2>9, <2>10, <2>11, <2>12, <2>13
<1> QED
  BY <1>3, <1>5, <1>6
-----------------------------------------------------------------------------
(* What is being delivered while something else happens: nothing touches   *)
(* its deposit before the deadline, and its round is not asked again.      *)

LEMMA Appended ==
    ASSUME MailOK, NEW to, NEW e \in BuyerMail \cup SellerMail, mailbox' = Post(mailbox, to, e),
           NEW q \in Sellers, NEW m \in Sent(q, "DEPOSITED")'
    PROVE  m \in Sent(q, "DEPOSITED") \/ m = e
<1>1. q \in Agents /\ mailbox[q] \in Seq(BuyerMail \cup SellerMail)
  BY DEF MailOK, Agents
<1>2. mailbox'[q] \in {mailbox[q], Append(mailbox[q], e)}
  BY <1>1 DEF Post
<1>3. Elems(Append(mailbox[q], e)) = Elems(mailbox[q]) \cup {e}
  BY <1>1, PutLast
<1> QED
  BY <1>2, <1>3 DEF Sent, Mail

LEMMA ServingKept ==
    ASSUME ServingOK, round <= round', round \in Nat, round' \in Nat, clock' = clock,
           UNCHANGED <<serving, work>>,
           \A q \in Sellers : \A d \in serving[q] : order'[d.reference] = order[d.reference],
           \/ UNCHANGED <<round, winner, terms>>
                /\ (stage' \in {stage, "delivery", "releasing", "idle"})
           \/ stage \notin {"delivery", "releasing", "idle"} \/ round' # round,
           \A q \in Sellers : \A m \in Sent(q, "DEPOSITED")' : m \in Sent(q, "DEPOSITED")
    PROVE  ServingOK'
<1> SUFFICES ASSUME NEW s \in Sellers, NEW d \in serving[s]
             PROVE  Serves(s, d)'
  BY DEF ServingOK, Rounds, Orders
<1>1. Serves(s, d) /\ d \in [round : Rounds, reference : Refs, deposit : Orders]
  BY DEF ServingOK
<1>2. d.round \in Nat
  BY <1>1, AmountsAssumption DEF Rounds
<1>3. d.round <= round'
  BY <1>1, <1>2 DEF Serves
<1>4. d.round = round' =>
         /\ s = winner' /\ d.reference = terms'.reference
         /\ stage' \in {"delivery", "releasing", "idle"}
  BY <1>1, <1>2 DEF Serves
<1> QED
  BY <1>1, <1>3, <1>4 DEF Serves

LEMMA CheckDepositServes ==
    ASSUME MarketInv, ServingOK, NEW s \in Sellers, serving[s] = {}, CheckDeposit(s)
    PROVE  ServingOK'
<1> USE DEF MarketInv
<1>1. PICK m \in Mention(s) :
         /\ m.type = "DEPOSITED"
         /\ LET due == {a \in awarded[s] : /\ a[1] = m.reference
                                           /\ IsFunded(s, m.reference, a[2])}
            IN \/ UNCHANGED serving
               \/ /\ due # {}
                  /\ serving' = [serving EXCEPT ![s] =
                                   {[round |-> m.round, reference |-> m.reference,
                                     deposit |-> order[m.reference]]}]
         /\ mailbox' = Consume(mailbox, s)
         /\ UNCHANGED <<orderVars, round, stage, winner, terms, work>>
  BY DEF CheckDeposit, history
<1>2. s \in Agents /\ round \in Nat /\ Sellers \subseteq Agents
  BY AmountsAssumption DEF Agents, BuyerOK
<1>3. /\ m \in Sent(s, "DEPOSITED") /\ m \notin Sent(s, "DEPOSITED")'
      /\ \A q \in Sellers : \A b \in Sent(q, "DEPOSITED")' : b \in Sent(q, "DEPOSITED")
  BY <1>1, <1>2, Reading DEF Sent, Mail
<1>4. m.round \in Rounds /\ m.reference \in Refs /\ m.round <= round
  <2>1. m \in Mail(s)
    BY <1>3 DEF Sent
  <2> QED
    BY <1>2, <1>3, <2>1, MessageTypes
<1>5. CASE UNCHANGED serving
  BY <1>1, <1>2, <1>3, <1>5, ServingKept DEF orderVars
<1>6. ASSUME NEW a \in awarded[s], a[1] = m.reference, IsFunded(s, m.reference, a[2]),
             serving' = [serving EXCEPT ![s] =
                           {[round |-> m.round, reference |-> m.reference,
                             deposit |-> order[m.reference]]}]
      PROVE  ServingOK'
  <2> DEFINE new == [round |-> m.round, reference |-> m.reference, deposit |-> order[m.reference]]
  <2>1. order[m.reference] \in Orders
    BY <1>4, <1>6 DEF IsFunded, ChainOK
  <2>2. /\ new \in [round : Rounds, reference : Refs, deposit : Orders]
        /\ new.round = m.round /\ new.reference = m.reference /\ new.deposit = order[m.reference]
    BY <1>4, <2>1
  <2>3. \A q \in Sellers : serving'[q] \subseteq IF q = s THEN {new} ELSE serving[q]
    BY <1>6
  <2> HIDE DEF new
  <2>4. m.reference[1] = m.round /\ work[m.reference] = {}
    BY <1>3, <1>6 DEF DepositsOK
  <2>5. /\ m.round = round => /\ s = winner /\ m.reference = terms.reference
                              /\ stage \in {"delivery", "releasing", "idle"}
        /\ \A q \in Sellers : \A b \in Sent(q, "DEPOSITED")' : b.round # m.round
    BY <1>3 DEF DepositsOK
  <2>6. m.reference[3] <= order[m.reference].amount
    <3>1. m.reference[3] = a[2] /\ order[m.reference].amount >= a[2]
      BY <1>6 DEF SellersOK, Reference, IsFunded
    <3>2. a[2] \in Nat /\ order[m.reference].amount \in Nat
      BY <1>6, <2>1 DEF SellersOK, Orders
    <3> QED
      BY <3>1, <3>2
  <2>7. order[m.reference].seller = Wallet[s]
    BY <1>6 DEF IsFunded
  <2>8. \A q \in Sellers : \A e \in serving[q] : e.round # m.round
    BY <1>3 DEF ServingOK, Serves
  <2>9. \A q \in Sellers : \A e \in serving'[q] : e.round = m.round => q = s /\ e = new
    BY <2>3, <2>8
  <2>10. ASSUME NEW d, d = new
         PROVE  Serves(s, d)'
    <3>1. d.round = m.round /\ d.reference = m.reference /\ d.deposit = order[m.reference]
      BY <2>2, <2>10
    <3>2. UNCHANGED <<order, clock, work, round, stage, winner, terms>>
      BY <1>1 DEF orderVars
    <3>3. \A q \in Sellers : \A e \in serving'[q] : e.round = d.round => q = s /\ e = d
      BY <2>9, <2>10, <3>1
    <3> QED
      BY <1>4, <2>4, <2>5, <2>6, <2>7, <3>1, <3>2, <3>3 DEF Serves
  <2>11. ASSUME NEW q \in Sellers, NEW d \in serving[q]
         PROVE  Serves(q, d)'
    <3>1. Serves(q, d) /\ d.round # m.round
      BY <2>8 DEF ServingOK
    <3>2. \A x \in Sellers : \A e \in serving'[x] : e.round = d.round => x = q /\ e = d
      BY <2>2, <2>3, <3>1 DEF Serves
    <3>3. \A x \in Sellers : \A b \in Sent(x, "DEPOSITED")' : b.round # d.round
      BY <1>3, <3>1 DEF Serves
    <3> QED
      BY <1>1, <3>1, <3>2, <3>3 DEF Serves, orderVars
  <2>12. ASSUME NEW q \in Sellers, NEW d \in serving'[q]
         PROVE  Serves(q, d)'
    <3>1. CASE q = s
      BY <2>3, <2>10, <2>12, <3>1
    <3>2. CASE q # s
      BY <2>3, <2>11, <2>12, <3>2
    <3> QED
      BY <3>1, <3>2
  <2>13. serving' \in [Sellers -> SUBSET [round : Rounds, reference : Refs, deposit : Orders]]
    BY <1>6, <2>2 DEF ServingOK, new
  <2> QED
    BY <2>12, <2>13 DEF ServingOK, Rounds, Orders
<1> QED
  BY <1>1, <1>5, <1>6

LEMMA DeliverServes ==
    ASSUME MarketInv, ServingOK, NEW s \in Sellers, Deliver(s)
    PROVE  ServingOK'
<1> USE DEF MarketInv
<1>1. PICK c \in serving[s] :
         \/ UNCHANGED <<work, mailbox>>
         \/ \E good \in BOOLEAN :
               /\ work' = [work EXCEPT ![c.reference] = @ \cup {<<s, good>>}]
               /\ mailbox' = Post(mailbox, {Buyer}, DeliveredMsg(c.round, good))
  BY DEF Deliver
<1>2. UNCHANGED <<orderVars, round, stage, winner, terms>> /\ serving' = [serving EXCEPT ![s] = {}]
  BY DEF Deliver
<1>3. c.round \in Rounds /\ c.reference \in Refs /\ Serves(s, c)
  BY <1>1 DEF ServingOK
<1>4. ASSUME NEW q \in Sellers, NEW m \in Sent(q, "DEPOSITED")'
      PROVE  m \in Sent(q, "DEPOSITED")
  <2>1. CASE UNCHANGED mailbox
    BY <2>1 DEF Sent, Mail
  <2>2. ASSUME NEW good \in BOOLEAN, mailbox' = Post(mailbox, {Buyer}, DeliveredMsg(c.round, good))
        PROVE  m \in Sent(q, "DEPOSITED")
    <3>1. /\ DeliveredMsg(c.round, good) \in BuyerMail \cup SellerMail
          /\ DeliveredMsg(c.round, good).type # "DEPOSITED"
      BY <1>3 DEF DeliveredMsg, BuyerMail
    <3>2. m \in Sent(q, "DEPOSITED") \/ m = DeliveredMsg(c.round, good)
      BY <2>2, <3>1, Appended
    <3> QED
      BY <3>1, <3>2 DEF Sent
  <2> QED
    BY <1>1, <2>1, <2>2
<1>5. ASSUME NEW q \in Sellers, NEW d \in serving'[q]
      PROVE  d \in serving[q] /\ q # s
  BY <1>2, <1>5 DEF ServingOK
<1>6. ASSUME NEW q \in Sellers, NEW d \in serving'[q]
      PROVE  Serves(q, d)'
  <2>1. Serves(q, d) /\ d \in serving[q] /\ q # s /\ d.reference \in Refs
    BY <1>5, <1>6 DEF ServingOK
  <2>2. d.reference # c.reference
    BY <1>1, <1>3, <2>1 DEF Serves
  <2>3. work'[d.reference] = {}
    BY <1>1, <2>1, <2>2 DEF Serves, WorkOK
  <2>4. \A x \in Sellers : \A e \in serving'[x] : e.round = d.round => x = q /\ e = d
    BY <1>5, <2>1 DEF Serves
  <2>5. \A x \in Sellers : \A b \in Sent(x, "DEPOSITED")' : b.round # d.round
    BY <1>4, <2>1 DEF Serves
  <2> QED
    BY <1>2, <2>1, <2>3, <2>4, <2>5 DEF Serves, orderVars
<1>7. serving' \in [Sellers -> SUBSET [round : Rounds, reference : Refs, deposit : Orders]]
  BY <1>2 DEF ServingOK
<1> QED
  BY <1>6, <1>7 DEF ServingOK, Rounds, Orders

(* Reading a mention, or losing it, announces no deposit.                  *)
LEMMA ReadsServe ==
    ASSUME MarketInv, ServingOK, NEW a \in Agents, mailbox[a] # <<>>, mailbox' = Consume(mailbox, a),
           UNCHANGED <<orderVars, round, winner, serving, work>>,
           stage \notin {"delivery", "releasing", "idle"}
             \/ (stage' \in {stage, "releasing", "idle"} /\ UNCHANGED terms)
    PROVE  ServingOK'
<1>1. Head(mailbox[a]) \in Mention(a) /\ Sellers \subseteq Agents
  BY DEF Mention, Agents
<1>2. \A q \in Sellers : \A m \in Sent(q, "DEPOSITED")' : m \in Sent(q, "DEPOSITED")
  BY <1>1, Reads DEF Shrinks, MarketInv
<1>3. round \in Nat
  BY AmountsAssumption DEF MarketInv, BuyerOK
<1> QED
  BY <1>2, <1>3, ServingKept DEF orderVars

(* Neither does a message that is not DEPOSITED.                           *)
LEMMA PostsServe ==
    ASSUME MarketInv, ServingOK, NEW to, NEW e \in BuyerMail \cup SellerMail, e.type # "DEPOSITED",
           \/ mailbox' = Post(mailbox, to, e)
           \/ \E a \in Sellers : mailbox[a] # <<>> /\ mailbox' = Post(Consume(mailbox, a), to, e),
           UNCHANGED <<orderVars, serving, work>>,
           \/ UNCHANGED <<round, winner, terms, stage>>
           \/ stage \notin {"delivery", "releasing", "idle"} /\ UNCHANGED round
           \/ round' = round + 1
    PROVE  ServingOK'
<1>1. round \in Nat /\ round' \in Nat /\ round <= round' /\ Sellers \subseteq Agents
  BY AmountsAssumption DEF MarketInv, BuyerOK, Agents
<1>2. ASSUME NEW q \in Sellers, NEW m \in Sent(q, "DEPOSITED")'
      PROVE  m \in Sent(q, "DEPOSITED")
  <2>1. CASE mailbox' = Post(mailbox, to, e)
    BY <1>2, <2>1, Appended DEF MarketInv, Sent
  <2>2. ASSUME NEW a \in Sellers, mailbox[a] # <<>>, mailbox' = Post(Consume(mailbox, a), to, e)
        PROVE  m \in Sent(q, "DEPOSITED")
    <3> DEFINE box == Consume(mailbox, a)
    <3>1. Head(mailbox[a]) \in Mention(a) /\ a \in Agents /\ q \in Agents
      BY <1>1, <2>2 DEF Mention
    <3>2. box \in [Agents -> Seq(BuyerMail \cup SellerMail)] /\ Elems(box[q]) \subseteq Mail(q)
      BY <3>1, Reading DEF MarketInv
    <3> HIDE DEF box
    <3>3. mailbox'[q] \in {box[q], Append(box[q], e)}
      <4>1. mailbox' = Post(box, to, e)
        BY <2>2 DEF box
      <4> QED
        BY <3>1, <4>1 DEF Post
    <3>4. Elems(Append(box[q], e)) = Elems(box[q]) \cup {e}
      BY <3>1, <3>2, PutLast
    <3> QED
      BY <1>2, <3>2, <3>3, <3>4 DEF Sent, Mail
  <2> QED
    BY <2>1, <2>2
<1> QED
  BY <1>1, <1>2, ServingKept DEF orderVars

(* The buyer goes on in its round, or ends it, and settles or not.         *)
LEMMA MovesServe ==
    ASSUME MarketInv, ServingOK, UNCHANGED <<round, winner, terms, serving, work, mailbox>>,
           clock' = clock,
           stage \notin {"delivery", "releasing", "idle"} \/ stage' \in {stage, "idle"},
           \A q \in Sellers : \A d \in serving[q] : order'[d.reference] = order[d.reference]
    PROVE  ServingOK'
<1>1. round \in Nat
  BY AmountsAssumption DEF MarketInv, BuyerOK
<1>2. \A q \in Sellers : \A m \in Sent(q, "DEPOSITED")' : m \in Sent(q, "DEPOSITED")
  BY DEF Sent, Mail
<1> QED
  BY <1>1, <1>2, ServingKept

(* A payment out is for work, so not for what is still being served.       *)
LEMMA ReleaseServes ==
    ASSUME MarketInv, ServingOK, Release
    PROVE  ServingOK'
<1>1. /\ stage = "releasing" /\ stage' = "idle"
      /\ UNCHANGED <<round, winner, terms, serving, work, mailbox>>
      /\ ArbitrateRelease \/ ReleaseDeposit \/ UNCHANGED orderVars
  BY DEF Release, history
<1>2. clock' = clock /\ order' \in {order, [order EXCEPT ![terms.reference] = NoOrder]}
  BY <1>1 DEF ArbitrateRelease, PaySeller, Settle, ReleaseDeposit, Close, orderVars
<1>3. work[terms.reference] # {}
  BY <1>1 DEF MarketInv, WorkOK
<1>4. ASSUME NEW q \in Sellers, NEW d \in serving[q]
      PROVE  order'[d.reference] = order[d.reference]
  <2>1. d.reference # terms.reference /\ d.reference \in Refs
    BY <1>3, <1>4 DEF ServingOK, Serves
  <2> QED
    BY <1>2, <2>1 DEF MarketInv, ChainOK
<1> QED
  BY <1>1, <1>2, <1>4, MovesServe

(* A new deposit is under a reference that holds none.                     *)
LEMMA OpenOrderServes ==
    ASSUME MarketInv, ServingOK, OpenOrder
    PROVE  ServingOK'
<1> DEFINE r == terms.reference
           e == DepositedMsg(round, r)
<1>1. /\ stage = "opening" /\ stage' \in {"delivery", "idle"}
      /\ UNCHANGED <<round, winner, terms, serving>>
      /\ UNCHANGED mailbox \/ mailbox' = Post(mailbox, {winner}, e)
      /\ \/ PayIn /\ work' = [work EXCEPT ![r] = {}]
         \/ UNCHANGED <<orderVars, work>>
  BY DEF OpenOrder, OpenArbitrated, Deposit, history
<1>2. r \in Refs /\ round \in Nat /\ round \in Rounds
  BY <1>1, AmountsAssumption DEF MarketInv, BuyerOK, Acting, Underway, Terms, Rounds
<1>3. e \in SellerMail /\ e.round = round
  BY <1>2 DEF DepositedMsg, SellerMail
<1> HIDE DEF e
<1>4. clock' = clock /\ (order' = order \/ (order[r] = NoOrder /\ \E o : order' = [order EXCEPT ![r] = o]))
  BY <1>1 DEF PayIn, Place, orderVars
<1>5. ASSUME NEW q \in Sellers, NEW m \in Sent(q, "DEPOSITED")'
      PROVE  m \in Sent(q, "DEPOSITED") \/ m.round = round
  <2>1. CASE UNCHANGED mailbox
    BY <1>5, <2>1 DEF Sent, Mail
  <2>2. CASE mailbox' = Post(mailbox, {winner}, e)
    BY <1>3, <1>5, <2>2, Appended DEF MarketInv
  <2> QED
    BY <1>1, <2>1, <2>2
<1>6. ASSUME NEW s \in Sellers, NEW d \in serving[s]
      PROVE  Serves(s, d)'
  <2>1. Serves(s, d) /\ d.reference \in Refs /\ d.deposit \in Orders /\ d.round # round
    BY <1>1, <1>6 DEF ServingOK, Serves
  <2>2. order'[d.reference] = d.deposit \/ clock' >= d.deposit.deadline
    <3>1. CASE d.reference = r
      <4>1. order' = order \/ clock >= d.deposit.deadline
        BY <1>4, <2>1, <3>1, AmountsAssumption DEF Serves
      <4> QED
        BY <1>4, <2>1, <4>1 DEF Serves
    <3>2. CASE d.reference # r
      <4>1. order'[d.reference] = order[d.reference]
        BY <1>4, <2>1, <3>2 DEF MarketInv, ChainOK
      <4> QED
        BY <1>4, <2>1, <4>1 DEF Serves
    <3> QED
      BY <3>1, <3>2
  <2>3. work'[d.reference] = {}
    BY <1>1, <1>2, <2>1 DEF Serves, MarketInv, WorkOK
  <2>4. \A q \in Sellers : \A m \in Sent(q, "DEPOSITED")' : m.round # d.round
    BY <1>5, <2>1 DEF Serves
  <2> QED
    BY <1>1, <2>1, <2>2, <2>3, <2>4 DEF Serves
<1> QED
  BY <1>1, <1>6 DEF ServingOK, Rounds, Orders

(* A deposit is taken back from its deadline on only.                      *)
LEMMA ChainServes ==
    ASSUME MarketInv, ServingOK, UNCHANGED agentVars, clock' \in Nat, clock <= clock',
           \A r \in Refs : \/ order'[r] = order[r]
                           \/ order[r] # NoOrder /\ clock >= order[r].deadline
    PROVE  ServingOK'
<1>1. UNCHANGED <<round, winner, terms, stage, serving, work, mailbox>> /\ clock \in Nat
  BY AmountsAssumption DEF agentVars, history, MarketInv, ChainOK
<1>2. \A q \in Sellers : \A m \in Sent(q, "DEPOSITED")' : m \in Sent(q, "DEPOSITED")
  BY <1>1 DEF Sent, Mail
<1>3. ASSUME NEW s \in Sellers, NEW d \in serving[s]
      PROVE  Serves(s, d)'
  <2>1. Serves(s, d) /\ d.reference \in Refs /\ d.deposit \in Orders /\ d.deposit.deadline \in Nat
    BY <1>3 DEF ServingOK, Orders
  <2>2. order'[d.reference] = d.deposit \/ clock' >= d.deposit.deadline
    BY <1>1, <2>1 DEF Serves
  <2> QED
    BY <1>1, <1>2, <2>1, <2>2 DEF Serves
<1> QED
  BY <1>1, <1>3 DEF ServingOK, Rounds, Orders

LEMMA ReclaimServes ==
    ASSUME MarketInv, ServingOK, NEW r \in Refs, Reclaim(r)
    PROVE  ServingOK'
<1>1. /\ UNCHANGED agentVars /\ clock' = clock /\ order' = [order EXCEPT ![r] = NoOrder]
      /\ order[r] # NoOrder /\ clock >= order[r].deadline
  BY DEF Reclaim, Reimburse, Refund, Close, Settle
<1>2. clock \in Nat /\ order \in [Refs -> Orders \cup {NoOrder}]
  BY AmountsAssumption DEF MarketInv, ChainOK
<1> QED
  BY <1>1, <1>2, ChainServes

LEMMA PassTimeServes ==
    ASSUME MarketInv, ServingOK, PassTime
    PROVE  ServingOK'
<1>1. clock \in Nat /\ clock' = clock + 1 /\ UNCHANGED <<order, agentVars>>
  BY AmountsAssumption DEF PassTime, Pass, MarketInv, ChainOK
<1> QED
  BY <1>1, ChainServes

LEMMA StepServes ==
    MarketInv /\ ServingOK /\ [MarketNext]_marketVars => ServingOK'
<1> SUFFICES ASSUME MarketInv, ServingOK, [MarketNext]_marketVars
             PROVE  ServingOK'
  OBVIOUS
<1>1. Buyer \in Agents /\ Sellers \subseteq Agents
  BY DEF Agents
<1>2. CASE Configure \/ FundArbiter \/ SetUpDirect \/ GiveUp
  <2>1. /\ UNCHANGED <<round, winner, terms, serving, work, mailbox, order>> /\ clock' = clock
        /\ stage \notin {"delivery", "releasing", "idle"} \/ stage' \in {stage, "idle"}
    BY <1>2 DEF Configure, FundArbiter, SetUpDirect, GiveUp, Begin, BeginFails, TimedWaits, history,
                orderVars
  <2> QED
    BY <2>1, MovesServe
<1>3. CASE Ask
  <2>1. WantMsg(round + 1) \in SellerMail /\ WantMsg(round + 1).type # "DEPOSITED"
    BY <1>3, AmountsAssumption DEF WantMsg, SellerMail, Ask, TurnsLeft, Rounds, MarketInv, BuyerOK
  <2> QED
    BY <1>3, <2>1, PostsServe DEF Ask, history
<1>4. CASE HearBid \/ HearTerms \/ HearDelivery
  <2>1. /\ mailbox[Buyer] # <<>> /\ mailbox' = Consume(mailbox, Buyer)
        /\ UNCHANGED <<orderVars, round, winner, serving, work>>
        /\ stage \notin {"delivery", "releasing", "idle"}
             \/ (stage' \in {stage, "releasing", "idle"} /\ UNCHANGED terms)
    BY <1>4 DEF HearBid, HearTerms, HearDelivery, Mention, history
  <2> QED
    BY <1>1, <2>1, ReadsServe
<1>5. CASE Award
  <2>1. CASE UNCHANGED <<winner, mailbox>>
    BY <1>5, <2>1, MovesServe DEF Award, history, orderVars
  <2>2. ASSUME NEW s \in Sellers, mailbox' = Post(mailbox, {s}, AwardMsg(round))
        PROVE  ServingOK'
    <3>1. AwardMsg(round) \in SellerMail /\ AwardMsg(round).type # "DEPOSITED"
      BY <1>5, AmountsAssumption
         DEF Award, AwardMsg, SellerMail, Rounds, MarketInv, BuyerOK, Underway
    <3> QED
      BY <1>5, <2>2, <3>1, PostsServe DEF Award, history
  <2> QED
    BY <1>5, <2>1, <2>2 DEF Award, Bidders
<1>6. ASSUME NEW s \in Sellers, HandleWant(s)
      PROVE  ServingOK'
  <2>1. PICK m \in Mention(s) :
           /\ m.type = "WANT"
           /\ \/ mailbox' = Consume(mailbox, s)
              \/ \E price \in DecideBid(s, m.budget) :
                    mailbox' = Post(Consume(mailbox, s), {Buyer}, BidMsg(m.round, s, price))
           /\ UNCHANGED <<orderVars, round, stage, winner, terms, serving, work>>
    BY <1>6 DEF HandleWant, history
  <2>2. m \in Sent(s, "WANT") /\ mailbox[s] # <<>>
    BY <1>1, <2>1, Reading DEF Sent, Mention, MarketInv
  <2>3. m.round \in Rounds /\ m.budget = Budget
    BY <2>2, MessageTypes DEF MarketInv
  <2>4. CASE mailbox' = Consume(mailbox, s)
    BY <1>1, <2>1, <2>2, <2>4, ReadsServe
  <2>5. ASSUME NEW price \in DecideBid(s, Budget),
               mailbox' = Post(Consume(mailbox, s), {Buyer}, BidMsg(m.round, s, price))
        PROVE  ServingOK'
    <3>1. Read(price) \in Nat
      BY <2>5, BidInRange, PricesRead
    <3>2. BidMsg(m.round, s, price) \in BuyerMail /\ BidMsg(m.round, s, price).type # "DEPOSITED"
      BY <2>3, <3>1 DEF BidMsg, BuyerMail
    <3> QED
      BY <2>1, <2>2, <2>5, <3>2, PostsServe
  <2> QED
    BY <2>1, <2>3, <2>4, <2>5
<1>7. ASSUME NEW s \in Sellers, HandleAward(s)
      PROVE  ServingOK'
  <2>1. PICK m \in Mention(s) :
           /\ m.type = "AWARD"
           /\ \/ mailbox' = Consume(mailbox, s)
              \/ /\ quoted[s][m.round] # NoPrice
                 /\ mailbox' = Post(Consume(mailbox, s), {Buyer},
                                    TermsMsg(m.round, Wallet[s], quoted[s][m.round]))
           /\ UNCHANGED <<orderVars, round, stage, winner, terms, serving, work>>
    BY <1>7 DEF HandleAward, history
  <2>2. m \in Sent(s, "AWARD") /\ mailbox[s] # <<>>
    BY <1>1, <2>1, Reading DEF Sent, Mention, MarketInv
  <2>3. m.round \in Rounds
    BY <2>2, MessageTypes DEF MarketInv
  <2>4. CASE mailbox' = Consume(mailbox, s)
    BY <1>1, <2>1, <2>2, <2>4, ReadsServe
  <2>5. CASE quoted[s][m.round] # NoPrice
             /\ mailbox' = Post(Consume(mailbox, s), {Buyer},
                                TermsMsg(m.round, Wallet[s], quoted[s][m.round]))
    <3> DEFINE p == quoted[s][m.round]
    <3>1. p \in PriceRange(s)
      BY <2>3, <2>5 DEF MarketInv, SellersOK
    <3>2. Read(p) \in Nat /\ Reference(m.round, Wallet[s], p) \in Refs /\ Wallet[s] \in Parties
      BY <2>3, <3>1, PricesRead, ReferencesAssumption, PartiesAssumption DEF PriceRange
    <3> HIDE DEF p
    <3>3. TermsMsg(m.round, Wallet[s], p) \in BuyerMail /\ TermsMsg(m.round, Wallet[s], p).type # "DEPOSITED"
      BY <2>3, <3>2 DEF TermsMsg, BuyerMail, Terms
    <3>4. mailbox' = Post(Consume(mailbox, s), {Buyer}, TermsMsg(m.round, Wallet[s], p))
      BY <2>5 DEF p
    <3> QED
      BY <2>1, <2>2, <3>3, <3>4, PostsServe
  <2> QED
    BY <2>1, <2>4, <2>5
<1>8. CASE \E a \in Agents : Lose(a)
  BY <1>8, ReadsServe DEF Lose, history
<1>9. CASE Relaunch
  BY <1>9 DEF Relaunch, NoWork, ServingOK
<1>10. CASE UNCHANGED marketVars
  BY <1>10, MovesServe DEF marketVars, agentVars, orderVars, history
<1> QED
  BY <1>2, <1>3, <1>4, <1>5, <1>6, <1>7, <1>8, <1>9, <1>10, OpenOrderServes, ReleaseServes,
     CheckDepositServes, DeliverServes, ReclaimServes, PassTimeServes
     DEF MarketNext, BuyerStep, SellerStep

(* No message is under way when a session begins.                          *)
LEMMA NothingSent ==
    mailbox = Silence /\ round \in Nat =>
       MailOK /\ WantsOK /\ BidsOK /\ AwardsOK /\ TermsOK /\ DepositsOK /\ DeliveriesOK
<1> SUFFICES ASSUME mailbox = Silence, round \in Nat
             PROVE  /\ MailOK /\ WantsOK /\ BidsOK /\ AwardsOK
                    /\ TermsOK /\ DepositsOK /\ DeliveriesOK
  OBVIOUS
<1>1. \A a \in Agents : mailbox[a] = <<>>
  BY DEF Silence
<1>2. \A a \in Agents : \A type : Mail(a) = {} /\ Sent(a, type) = {}
  <2>1. Elems(<<>>) = {}
    BY DEF Elems
  <2> QED
    BY <1>1, <2>1 DEF Mail, Sent
<1>3. Buyer \in Agents /\ Sellers \subseteq Agents
  BY DEF Agents
<1>4. MailOK
  <2>1. \A S : <<>> \in Seq(S)
    OBVIOUS
  <2>2. Once(<<>>)
    BY DEF Once
  <2> QED
    BY <1>1, <1>2, <1>3, <2>1, <2>2 DEF MailOK, Silence
<1> QED
  BY <1>2, <1>3, <1>4 DEF WantsOK, BidsOK, AwardsOK, TermsOK, DepositsOK, DeliveriesOK

LEMMA MarketBegins ==
    ASSUME MarketInit
    PROVE  MarketInv
<1>1. ChainOK
  BY PartiesAssumption, AmountsAssumption DEF MarketInit, ModeInit, ChainOK
<1>2. BuyerOK
  BY AmountsAssumption DEF MarketInit, BuyerOK, Underway, Acting, Bidders, NoBids, Prices
<1>3. SellersOK
  BY DEF MarketInit, SellersOK, NoQuotes, NoAwards, Prices
<1>4. WorkOK
  BY DEF MarketInit, WorkOK
<1>5. mailbox = Silence /\ round \in Nat
  BY DEF MarketInit
<1> QED
  BY <1>1, <1>2, <1>3, <1>4, <1>5, NothingSent DEF MarketInv

LEMMA RelaunchKeeps ==
    ASSUME MarketInv, Relaunch
    PROVE  MarketInv'
<1> USE DEF MarketInv
<1>1. ChainOK'
  BY ChainKept DEF Relaunch
<1>2. BuyerOK'
  <2>1. session' = session + 1 /\ session' \in 1..(MaxTurns + 1)
    BY AmountsAssumption DEF Relaunch, TurnsLeft, BuyerOK
  <2> QED
    BY <2>1, AmountsAssumption DEF Relaunch, BuyerOK, Underway, Acting, Bidders, NoBids, Prices
<1>3. SellersOK'
  BY DEF Relaunch, SellersOK, NoQuotes, NoAwards, Prices
<1>4. WorkOK'
  BY DEF Relaunch, WorkOK, history
<1>5. (mailbox = Silence /\ round \in Nat)'
  BY DEF Relaunch, Silence
<1>6. (MailOK /\ WantsOK /\ BidsOK /\ AwardsOK /\ TermsOK /\ DepositsOK /\ DeliveriesOK)'
  BY <1>5, NothingSent, PTL
<1> QED
  BY <1>1, <1>2, <1>3, <1>4, <1>6
-----------------------------------------------------------------------------
LEMMA StepKeeps ==
    MarketInv /\ ServingOK /\ [MarketNext]_marketVars => MarketInv'
<1> SUFFICES ASSUME MarketInv, ServingOK, [MarketNext]_marketVars
             PROVE  MarketInv'
  OBVIOUS
<1>1. CASE BuyerStep
  BY <1>1, ConfigureKeeps, FundArbiterKeeps, SetUpDirectKeeps, AskKeeps, HearBidKeeps, AwardKeeps,
     HearTermsKeeps, OpenOrderKeeps, HearDeliveryKeeps, GiveUpKeeps, ReleaseKeeps DEF BuyerStep
<1>2. CASE \E s \in Sellers : SellerStep(s)
  BY <1>2, HandleWantKeeps, HandleAwardKeeps, CheckDepositKeeps, DeliverKeeps DEF SellerStep
<1>3. CASE \E a \in Agents : Lose(a)
  BY <1>3, LoseKeeps
<1>4. CASE Relaunch
  BY <1>4, RelaunchKeeps
<1>5. CASE \E r \in Refs : Reclaim(r)
  BY <1>5, ReclaimKeeps
<1>6. CASE PassTime
  BY <1>6, PassTimeKeeps
<1>7. CASE UNCHANGED marketVars
  <2>1. UNCHANGED agentVars /\ UNCHANGED <<orderVars, mode>>
    BY <1>7 DEF marketVars, agentVars
  <2>2. ChainOK'
    BY <2>1, ChainKept DEF MarketInv
  <2> QED
    BY <2>1, <2>2, AgentsIdleKeeps DEF orderVars, agentVars
<1> QED
  BY <1>1, <1>2, <1>3, <1>4, <1>5, <1>6, <1>7 DEF MarketNext

(* Whatever the agents do and whatever is lost, what the messages, the     *)
(* agents and the chain say of a round fits together.                      *)
THEOREM MarketInvariant == MarketSpec => []MarketInv /\ []ServingOK
<1>1. MarketInit => MarketInv /\ ServingOK
  BY MarketBegins DEF MarketInit, ServingOK, NoWork
<1> QED
  BY <1>1, StepKeeps, StepServes, PTL DEF MarketSpec

(* The variables of the market keep their types.                           *)
THEOREM MarketTypes == MarketSpec => []MarketTypeOK
<1>1. MarketInv /\ ServingOK => MarketTypeOK
  BY DEF MarketInv, MarketTypeOK, ChainOK, BuyerOK, SellersOK, WorkOK, MailOK, ServingOK
<1> QED
  BY <1>1, MarketInvariant, PTL

(* Every floor is large enough to be printed without an exponent.          *)
PlainFloors == \A s \in Sellers : Floor[s] >= PlainFrom

(* No order is for more than the buyer's budget, if no seller goes below a *)
(* price that is read as it was meant (buyer index.ts:179, seller          *)
(* index.ts:62-79).                                                        *)
THEOREM OrdersWithinBudget ==
    ASSUME PlainFloors
    PROVE  MarketSpec => []WithinBudget
<1>1. MarketInv => WithinBudget
  <2> SUFFICES ASSUME ChainOK, NEW r \in Refs, order[r] # NoOrder
               PROVE  order[r].amount <= Budget
    BY DEF MarketInv, WithinBudget
  <2>1. PICK s \in Sellers : \E p \in PriceRange(s) : order[r].amount = Read(p)
    BY DEF ChainOK
  <2> PICK p \in PriceRange(s) : order[r].amount = Read(p)
    BY <2>1
  <2>2. Floor[s] \in Nat /\ PlainFrom \in Nat /\ Budget \in Nat /\ Floor[s] >= PlainFrom
    BY AmountsAssumption DEF PlainFloors
  <2>3. Read(p) = p /\ p <= Budget
    BY <2>2 DEF Read, PriceRange
  <2> QED
    BY <2>3
<1> QED
  BY <1>1, MarketInvariant, PTL

(* Only a payment into the agreed order opens one.                         *)
LEMMA OnlyPayInOpens ==
    ASSUME MarketInv, [MarketNext]_marketVars, NEW r \in Refs, Opens(r)
    PROVE  /\ stage = "opening" /\ PayIn /\ r = terms.reference
           /\ order'[r].seller = Wallet[winner] /\ order'[r].amount = bids[winner]
           /\ r[1] = round
<1>1. order \in [Refs -> Orders \cup {NoOrder}] /\ order[r] = NoOrder /\ order'[r] # NoOrder
  BY DEF MarketInv, ChainOK, Opens
<1>2. ~UNCHANGED orderVars
  BY <1>1 DEF orderVars
<1>3. ASSUME NEW q, order' = [order EXCEPT ![q] = NoOrder]
      PROVE  FALSE
  BY <1>1, <1>3
<1>4. \A q : ~Close(q, 0) /\ ~ReleaseDeposit /\ ~PaySeller(q) /\ ~Reimburse(q, Buyer)
  BY <1>3 DEF ReleaseDeposit, Close, PaySeller, Reimburse, Settle
<1>5. stage = "opening" /\ PayIn
  <2>1. ~Configure /\ ~FundArbiter
    BY <1>1 DEF Configure, FundArbiter, BeginFails, orderVars
  <2>2. ~Release /\ \A q \in Refs : ~Reclaim(q)
    BY <1>1, <1>2, <1>4 DEF Release, ArbitrateRelease, Reclaim, Refund
  <2>3. ~PassTime /\ ~UNCHANGED marketVars
    BY <1>1, <1>2 DEF PassTime, Pass, marketVars
  <2>4. OpenOrder
    BY <1>2, <2>1, <2>2, <2>3
       DEF MarketNext, BuyerStep, SetUpDirect, Ask, HearBid, Award, HearTerms, HearDelivery, GiveUp,
           SellerStep, HandleWant, HandleAward, CheckDeposit, Deliver, Lose, Relaunch
  <2> QED
    BY <1>2, <2>4 DEF OpenOrder, OpenArbitrated, Deposit
<1>6. terms \in Terms /\ terms.round = round /\ AgreedTerms(terms)
  BY <1>5 DEF MarketInv, BuyerOK, Acting
<1>7. order' = [order EXCEPT ![terms.reference] =
                  [seller |-> terms.seller, amount |-> terms.amount,
                   deadline |-> clock + DeadlineSecs]]
  BY <1>5 DEF PayIn
<1>8. r = terms.reference
  BY <1>1, <1>7
<1>9. order'[r].seller = terms.seller /\ order'[r].amount = terms.amount
  BY <1>1, <1>7, <1>8
<1> QED
  BY <1>5, <1>6, <1>8, <1>9 DEF AgreedTerms, Reference

(* A deposit is for the seller awarded in this round, at the price it bid  *)
(* in this round, whatever answers to earlier rounds still arrive (buyer   *)
(* index.ts:198-219).                                                      *)
THEOREM DepositsForAward == MarketSpec => OpensItsAward
<1>1. MarketInv /\ [MarketNext]_marketVars =>
         [\A r \in Refs : Opens(r) =>
             /\ r[1] = round
             /\ order'[r].seller = Wallet[winner]
             /\ order'[r].amount = bids[winner]]_marketVars
  BY OnlyPayInOpens
<1> QED
  BY <1>1, MarketInvariant, PTL DEF MarketSpec, OpensItsAward

(* A seller works only for a deposit it found open, naming it and covering *)
(* its price; alone and once, and while that deposit is there, unless the  *)
(* deadline has passed (seller index.ts:88-112).                           *)
THEOREM WorkIsDeposited == MarketSpec => WorksForDeposit
<1>1. ASSUME MarketInv, ServingOK, [MarketNext]_marketVars,
             NEW r \in Refs, NEW s \in Sellers, NEW good \in BOOLEAN,
             <<s, good>> \in work'[r] \ work[r]
      PROVE  /\ work[r] = {}
             /\ \A q \in Sellers \ {s} : \A d \in serving[q] : d.reference # r
             /\ \E d \in serving[s] :
                   /\ d.reference = r
                   /\ d.deposit # NoOrder /\ d.deposit.seller = Wallet[s] /\ r[3] <= d.deposit.amount
                   /\ order[r] = d.deposit \/ clock >= d.deposit.deadline
  <2>1. work \in [Refs -> SUBSET (Sellers \X BOOLEAN)]
    BY <1>1 DEF MarketInv, WorkOK
  <2>2. ~UNCHANGED work
    BY <1>1
  <2>3. ~OpenOrder
    BY <1>1, <2>1, <2>2 DEF OpenOrder, history
  <2>4. PICK q \in Sellers : Deliver(q)
    BY <1>1, <2>2, <2>3
       DEF MarketNext, BuyerStep, Configure, FundArbiter, Begin, BeginFails, SetUpDirect, Ask, HearBid,
           Award, HearTerms, HearDelivery, GiveUp, Release, SellerStep, HandleWant, HandleAward,
           CheckDeposit, Lose, Relaunch, Reclaim, PassTime, marketVars, agentVars, history
  <2>5. PICK d \in serving[q], g \in BOOLEAN : work' = [work EXCEPT ![d.reference] = @ \cup {<<q, g>>}]
    BY <2>2, <2>4 DEF Deliver
  <2>6. r = d.reference /\ s = q
    BY <1>1, <2>1, <2>5
  <2>7. Serves(s, d) /\ d.deposit \in Orders
    BY <1>1, <2>5, <2>6 DEF ServingOK
  <2>8. d.deposit # NoOrder
    BY <2>7, AmountsAssumption
  <2>9. \A p \in Sellers : \A e \in serving[p] : e.reference = r => p = s
    BY <1>1, <2>5, <2>6 DEF ServingOK, Serves
  <2> QED
    BY <2>5, <2>6, <2>7, <2>8, <2>9 DEF Serves
<1>2. MarketInv /\ ServingOK /\ [MarketNext]_marketVars =>
         [\A r \in Refs, s \in Sellers, good \in BOOLEAN :
             <<s, good>> \in work'[r] \ work[r] =>
                /\ work[r] = {}
                /\ \A q \in Sellers \ {s} : \A d \in serving[q] : d.reference # r
                /\ \E d \in serving[s] :
                      /\ d.reference = r
                      /\ d.deposit # NoOrder /\ d.deposit.seller = Wallet[s] /\ r[3] <= d.deposit.amount
                      /\ order[r] = d.deposit \/ clock >= d.deposit.deadline]_marketVars
  BY <1>1
<1> QED
  BY <1>2, MarketInvariant, PTL DEF MarketSpec, WorksForDeposit

(* The buyer's own wallet is no seller's payout wallet.                    *)
SellersAreOthers == \A s \in Sellers : Wallet[s] # Buyer

(* An order is paid out only for work: the seller it pays has delivered    *)
(* against this deposit, and what it delivered passed the checks (buyer    *)
(* index.ts:243-258).                                                      *)
THEOREM WorkIsPaid ==
    ASSUME SellersAreOthers
    PROVE  MarketSpec => PaysForWork
<1>1. ASSUME MarketInv, [MarketNext]_marketVars, NEW r \in Refs, Pays(r)
      PROVE  \E s \in Sellers : Wallet[s] = order[r].seller /\ <<s, TRUE>> \in work[r]
  <2>1. /\ order \in [Refs -> Orders \cup {NoOrder}] /\ purse \in [Parties -> Nat]
        /\ pot \in [Refs -> Nat]
        /\ order[r] # NoOrder /\ order'[r] = NoOrder
        /\ purse'[order[r].seller] > purse[order[r].seller]
    BY <1>1 DEF Pays, MarketInv, ChainOK
  <2>2. order[r].seller # Buyer /\ order[r].seller \in Parties
    <3>1. \E s \in Sellers : order[r].seller = Wallet[s]
      BY <1>1, <2>1 DEF MarketInv, ChainOK
    <3> QED
      BY <3>1, PartiesAssumption DEF SellersAreOthers
  <2>3. ~UNCHANGED orderVars
    BY <2>1 DEF orderVars
  <2>4. ASSUME NEW q \in Refs, NEW x, order' = [order EXCEPT ![q] = x]
        PROVE  q = r
    BY <2>1, <2>4
  <2>5. \A q \in Refs : ~Reclaim(q)
    <3> SUFFICES ASSUME NEW q \in Refs, Reclaim(q)
                 PROVE  FALSE
      OBVIOUS
    <3>1. CASE Reimburse(q, Buyer)
      <4>1. purse' = [purse EXCEPT ![Buyer] = @ + pot[q]]
        BY <3>1 DEF Reimburse
      <4> QED
        BY <2>1, <2>2, <4>1
    <3>2. CASE Close(q, 0)
      <4>1. q = r
        BY <2>4, <3>2 DEF Close
      <4>2. purse' = [purse EXCEPT ![order[r].seller] = @ + 0, ![Buyer] = @ + pot[r] - 0]
        BY <3>2, <4>1 DEF Close
      <4> QED
        BY <2>1, <2>2, <4>2
    <3> QED
      BY <3>1, <3>2 DEF Reclaim, Refund
  <2>6. ~OpenOrder
    <3>1. ASSUME OpenOrder
          PROVE  FALSE
      <4>1. PayIn /\ stage = "opening"
        BY <2>3, <3>1 DEF OpenOrder, OpenArbitrated, Deposit
      <4>2. terms.reference \in Refs
        BY <1>1, <4>1 DEF MarketInv, BuyerOK, Acting, Terms
      <4>3. terms.reference = r
        BY <2>4, <4>1, <4>2 DEF PayIn
      <4> QED
        BY <2>1, <4>1, <4>3 DEF PayIn, Place
    <3> QED
      BY <3>1
  <2>7. Release
    <3>1. ~Configure /\ ~FundArbiter
      BY <2>1 DEF Configure, FundArbiter, BeginFails, orderVars
    <3>2. ~PassTime /\ ~UNCHANGED marketVars
      BY <2>1, <2>3 DEF PassTime, Pass, marketVars
    <3> QED
      BY <1>1, <2>3, <2>5, <2>6, <3>1, <3>2
         DEF MarketNext, BuyerStep, SetUpDirect, Ask, HearBid, Award, HearTerms, HearDelivery, GiveUp,
             SellerStep, HandleWant, HandleAward, CheckDeposit, Deliver, Lose, Relaunch
  <2>8. stage = "releasing" /\ terms.reference \in Refs /\ winner \in Sellers
    BY <1>1, <2>7 DEF Release, MarketInv, BuyerOK, Acting, Terms, Bidders
  <2>9. terms.reference = r
    <3>1. order' = [order EXCEPT ![terms.reference] = NoOrder]
      BY <2>3, <2>7 DEF Release, ArbitrateRelease, PaySeller, Settle, ReleaseDeposit, Close
    <3> QED
      BY <2>4, <2>8, <3>1
  <2>10. <<winner, TRUE>> \in work[r] /\ order[r].seller = Wallet[winner]
    BY <1>1, <2>1, <2>8, <2>9 DEF MarketInv, WorkOK
  <2> QED
    BY <2>8, <2>10
<1>2. MarketInv /\ [MarketNext]_marketVars =>
         [\A r \in Refs : Pays(r) =>
             \E s \in Sellers : Wallet[s] = order[r].seller /\ <<s, TRUE>> \in work[r]]_marketVars
  BY <1>1
<1> QED
  BY <1>2, MarketInvariant, PTL DEF MarketSpec, PaysForWork
-----------------------------------------------------------------------------
(* In arbiter mode the market uses the chain as module Order promises it:  *)
(* what the arbiter program provides (ProgramProofs, ArbiterKeepsPromise).  *)

LEMMA OrderSteps ==
    ASSUME Modes = {"arbiter"}, MarketInv, MarketInv', [MarketNext]_marketVars
    PROVE  [OrderNext]_orderVars
<1>1. mode = "arbiter"
  BY DEF MarketInv, ChainOK
<1>2. /\ order \in [Refs -> Orders \cup {NoOrder}] /\ pot' \in [Refs -> Nat]
      /\ pot \in [Refs -> Nat] /\ purse' \in [Parties -> Nat]
      /\ Buyer \in Parties /\ ArbiterKey \in Parties
  BY PartiesAssumption DEF MarketInv, ChainOK
<1>3. CASE UNCHANGED orderVars
  BY <1>3
<1>4. CASE Configure /\ ~UNCHANGED orderVars
  <2>1. Appoint /\ signer' = Buyer
    BY <1>2, <1>4 DEF Configure, BeginFails, Appoint
  <2> QED
    BY <1>2, <2>1 DEF OrderNext, Signed
<1>5. CASE FundArbiter /\ ~UNCHANGED orderVars
  <2>1. UNCHANGED <<order, pot, arbiter, clock>> /\ signer' = Buyer
    BY <1>5 DEF FundArbiter, BeginFails
  <2>2. Outside
    BY <1>2, <2>1 DEF Outside
  <2> QED
    BY <1>2, <2>1, <2>2 DEF OrderNext, Signed
<1>6. CASE OpenOrder /\ ~UNCHANGED orderVars
  <2>1. PayIn /\ terms.reference \in Refs
    BY <1>6 DEF OpenOrder, OpenArbitrated, Deposit, MarketInv, BuyerOK, Acting, Terms
  <2> QED
    BY <1>2, <2>1 DEF PayIn, OrderNext, Signed
<1>7. CASE Release /\ ~UNCHANGED orderVars
  <2>1. ArbitrateRelease /\ terms.reference \in Refs
    BY <1>1, <1>7 DEF Release, ReleaseDeposit, Close, MarketInv, BuyerOK, Acting, Terms
  <2> QED
    BY <1>2, <2>1 DEF ArbitrateRelease, OrderNext, Signed
<1>8. ASSUME NEW r \in Refs, Reclaim(r)
      PROVE  OrderNext
  BY <1>1, <1>2, <1>8 DEF Reclaim, Refund, Close, OrderNext, Signed
<1>9. CASE PassTime
  BY <1>9 DEF PassTime, OrderNext
<1> QED
  BY <1>3, <1>4, <1>5, <1>6, <1>7, <1>8, <1>9
     DEF MarketNext, BuyerStep, SetUpDirect, Ask, HearBid, Award, HearTerms, HearDelivery, GiveUp,
         SellerStep, HandleWant, HandleAward, CheckDeposit, Deliver, Lose, Relaunch, marketVars

(* A market that settles by the arbiter implements module Order: every     *)
(* step of its agents is a step of an order, or leaves the chain alone.    *)
THEOREM ImplementsOrder ==
    ASSUME Modes = {"arbiter"}
    PROVE  MarketSpec => OrderSpec
<1>1. MarketInit => OrderInit
  BY PartiesAssumption DEF MarketInit, OrderInit
<1>2. MarketInv /\ MarketInv' /\ [MarketNext]_marketVars => [OrderNext]_orderVars
  BY OrderSteps
<1> QED
  BY <1>1, <1>2, MarketInvariant, PTL DEF MarketSpec, OrderSpec
=============================================================================
