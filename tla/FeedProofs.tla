----------------------------- MODULE FeedProofs -----------------------------
(***************************************************************************)
(* Proofs about what the feed makes of a session, for any sellers, number  *)
(* of rounds, polls, faults and restarts.                                  *)
(*                                                                         *)
(* All rest on TalkInv: the record that foldRounds keeps of a round says   *)
(* exactly which messages of that round were sent (Hears), and whatever    *)
(* order the late ones come in, each of its facts is only there after the  *)
(* one before it (Ordered).  The statuses and stages follow from the       *)
(* facts, and so do the graph and the records written.                     *)
(***************************************************************************)
EXTENDS Archive, ListProofs, SequenceTheorems

-----------------------------------------------------------------------------
(* The talk.                                                               *)

Verdicts == {"PASS", "FAIL"}
TalkStages == {"idle", "bidding", "terms", "delivery", "releasing"}
RoundStatuses == {"bidding", "awarded", "deposited", "delivered", "verified", "settled"}

RoundRecords ==
    [want : BOOLEAN, bids : Seq(Sellers), award : Sellers \cup {NoSeller}, escrow : BOOLEAN,
     deposit : BOOLEAN, delivered : BOOLEAN, verified : Verdicts \cup {"none"},
     release : BOOLEAN, refunded : {FALSE}, status : RoundStatuses]

StatusOf(r) ==
    IF r.release THEN "settled"
    ELSE IF r.verified = "PASS" THEN "verified"
    ELSE IF r.delivered THEN "delivered"
    ELSE IF r.deposit THEN "deposited"
    ELSE IF r.award # NoSeller THEN "awarded" ELSE "bidding"

BidBy(r, s) == \E i \in DOMAIN r.bids : r.bids[i] = s

Ordered(r) ==
    /\ r.want
    /\ r.award # NoSeller => BidBy(r, r.award)
    /\ r.escrow => r.award # NoSeller
    /\ r.deposit => r.escrow
    /\ r.delivered => r.deposit
    /\ r.verified # "none" => r.delivered
    /\ r.release => r.verified = "PASS"
    /\ r.status = StatusOf(r)

Hears(r, n, T) ==
    /\ \A s \in Sellers :
          /\ Msg("BID", n, s) \in T <=> BidBy(r, s)
          /\ Msg("AWARD", n, s) \in T <=> r.award = s
          /\ Msg("ESCROW_REQUIRED", n, s) \in T <=> r.escrow /\ r.award = s
          /\ Msg("DEPOSITED", n, s) \in T <=> r.deposit /\ r.award = s
          /\ Msg("DELIVERED", n, s) \in T <=> r.delivered /\ r.award = s
    /\ \A v \in Verdicts : Msg("VERIFIED", n, v) \in T <=> r.verified = v
    /\ Msg("RELEASED", n, NoSeller) \in T <=> r.release

IsRound(r, n, T) == r \in RoundRecords /\ Ordered(r) /\ Hears(r, n, T)

(* How far the buyer's own round is.                                       *)
StageFits(at, r) ==
    /\ at = "bidding" => r.award = NoSeller
    /\ at = "terms" => r.award # NoSeller /\ ~r.deposit
    /\ at = "delivery" => r.deposit /\ r.verified = "none"
    /\ at = "releasing" => r.verified = "PASS" /\ ~r.release

TalkInv ==
    /\ asked \in 0..MaxRounds
    /\ stage \in TalkStages
    /\ DOMAIN rounds = 1..asked
    /\ \A m \in thread : m.verb \in Verbs /\ m.round \in 1..asked
    /\ \A n \in 1..asked : IsRound(rounds[n], n, thread)
    /\ stage # "idle" => asked > 0 /\ StageFits(stage, rounds[asked])

LEMMA MsgIs ==
    ASSUME NEW verb, NEW n, NEW about
    PROVE  /\ Msg(verb, n, about).verb = verb /\ Msg(verb, n, about).round = n
           /\ Msg(verb, n, about).about = about
BY DEF Msg

(* A message about another round, or one that says nothing a round hears.  *)
LEMMA OthersHear ==
    ASSUME NEW r, NEW n, NEW T, NEW m, IsRound(r, n, T), m.round # n
    PROVE  IsRound(r, n, T \cup {m})
<1>1. \A verb, about : Msg(verb, n, about) \in T \cup {m} <=> Msg(verb, n, about) \in T
  BY MsgIs
<1> QED
  BY <1>1 DEF IsRound, Hears

(* What each message does to its round.                                    *)

LEMMA WantHeard ==
    ASSUME NEW n, NEW T, \A m \in T : m.round # n
    PROVE  IsRound(Absorb(NewRound, Msg("WANT", n, NoSeller)), n,
                   T \cup {Msg("WANT", n, NoSeller)})
<1> DEFINE m == Msg("WANT", n, NoSeller)
           r == [NewRound EXCEPT !.want = TRUE]
<1>1. Absorb(NewRound, m) = r
  BY MsgIs DEF Absorb
<1>2. /\ r.want = TRUE /\ r.bids = <<>> /\ r.award = NoSeller /\ r.escrow = FALSE
      /\ r.deposit = FALSE /\ r.delivered = FALSE /\ r.verified = "none" /\ r.release = FALSE
      /\ r.status = "bidding"
  BY DEF NewRound
<1>3. r \in RoundRecords
  <2>1. /\ <<>> \in Seq(Sellers) /\ NoSeller \in Sellers \cup {NoSeller}
        /\ "none" \in Verdicts \cup {"none"} /\ "bidding" \in RoundStatuses
    BY DEF RoundStatuses
  <2>2. NewRound \in RoundRecords
    BY <2>1 DEF NewRound, RoundRecords
  <2> QED
    BY <2>2 DEF RoundRecords
<1>4. Ordered(r)
  BY <1>2 DEF Ordered, StatusOf
<1>5. \A verb, about : verb # "WANT" => Msg(verb, n, about) \notin T \cup {m}
  BY MsgIs
<1>6. Hears(r, n, T \cup {m})
  BY <1>2, <1>5, TranscriptAssumption DEF Hears, Verdicts, BidBy
<1> QED
  BY <1>1, <1>3, <1>4, <1>6 DEF IsRound

LEMMA BidHeard ==
    ASSUME NEW r, NEW n, NEW T, NEW s \in Sellers, IsRound(r, n, T), Msg("BID", n, s) \notin T
    PROVE  LET m == Msg("BID", n, s)
               next == Absorb(r, m)
           IN IsRound(next, n, T \cup {m}) /\ \A at : StageFits(at, r) => StageFits(at, next)
<1> DEFINE m == Msg("BID", n, s)
           next == [r EXCEPT !.bids = Append(r.bids, s)]
<1>1. r \in RoundRecords /\ Ordered(r) /\ Hears(r, n, T)
  BY DEF IsRound
<1>2. ~BidBy(r, s)
  BY <1>1 DEF Hears
<1>3. Absorb(r, m) = next
  BY <1>2, MsgIs DEF Absorb, HeardBid, BidBy, ToSet
<1>4. r.bids \in Seq(Sellers)
  BY <1>1 DEF RoundRecords
<1>5. Append(r.bids, s) \in Seq(Sellers)
      /\ \A x : (\E i \in DOMAIN Append(r.bids, s) : Append(r.bids, s)[i] = x)
                   <=> BidBy(r, x) \/ x = s
  <2>1. PICK bids : bids = r.bids
    OBVIOUS
  <2>2. /\ bids \in Seq(Sellers) /\ DOMAIN bids = 1..Len(bids) /\ Len(bids) \in Nat
        /\ Append(bids, s) \in Seq(Sellers) /\ DOMAIN Append(bids, s) = 1..(Len(bids) + 1)
        /\ Append(bids, s)[Len(bids) + 1] = s
        /\ \A i \in 1..Len(bids) : Append(bids, s)[i] = bids[i]
    BY <1>4, <2>1
  <2>3. \A x : (\E i \in DOMAIN Append(bids, s) : Append(bids, s)[i] = x)
                  <=> (\E i \in DOMAIN bids : bids[i] = x) \/ x = s
    BY <2>2
  <2> QED
    BY <2>1, <2>2, <2>3 DEF BidBy
<1>6. /\ next \in RoundRecords /\ next.bids = Append(r.bids, s)
      /\ next.want = r.want /\ next.award = r.award /\ next.escrow = r.escrow
      /\ next.deposit = r.deposit /\ next.delivered = r.delivered
      /\ next.verified = r.verified /\ next.release = r.release /\ next.status = r.status
  BY <1>1, <1>5 DEF RoundRecords
<1>7. \A x : BidBy(next, x) <=> BidBy(r, x) \/ x = s
  BY <1>5, <1>6 DEF BidBy
<1>8. Ordered(next)
  BY <1>1, <1>6, <1>7 DEF Ordered, StatusOf
<1>9. /\ \A verb, about : verb # "BID" =>
           (Msg(verb, n, about) \in T \cup {m} <=> Msg(verb, n, about) \in T)
      /\ \A x : Msg("BID", n, x) \in T \cup {m} <=> Msg("BID", n, x) \in T \/ x = s
  BY MsgIs
<1>10. Hears(next, n, T \cup {m})
  BY <1>1, <1>6, <1>7, <1>9 DEF Hears
<1>11. \A at : StageFits(at, r) => StageFits(at, next)
  BY <1>6 DEF StageFits
<1> QED
  BY <1>3, <1>6, <1>8, <1>10, <1>11 DEF IsRound

(* Of the messages that are not bids each sets one fact, and the status.   *)
LEMMA AwardHeard ==
    ASSUME NEW r, NEW n, NEW T, NEW s \in Sellers, IsRound(r, n, T),
           Msg("BID", n, s) \in T, r.award = NoSeller
    PROVE  LET m == Msg("AWARD", n, s)
               next == Absorb(r, m)
           IN IsRound(next, n, T \cup {m}) /\ StageFits("terms", next)
<1> DEFINE m == Msg("AWARD", n, s)
           next == [r EXCEPT !.award = s, !.status = IF @ = "bidding" THEN "awarded" ELSE @]
<1>1. r \in RoundRecords /\ Ordered(r) /\ Hears(r, n, T) /\ s # NoSeller
  BY TranscriptAssumption DEF IsRound
<1>2. Absorb(r, m) = next
  <2>1. m.verb = "AWARD" /\ m.about = s
    BY MsgIs
  <2> HIDE DEF m
  <2> QED
    BY <2>1 DEF Absorb
<1>3. ~r.escrow /\ ~r.deposit /\ ~r.delivered /\ r.verified = "none" /\ ~r.release
      /\ r.status = "bidding"
  BY <1>1 DEF Ordered, StatusOf
<1>4. next \in RoundRecords /\ next.award = s /\ next.status = "awarded"
      /\ next.want = r.want /\ next.bids = r.bids /\ next.escrow = r.escrow
      /\ next.deposit = r.deposit /\ next.delivered = r.delivered
      /\ next.verified = r.verified /\ next.release = r.release
  BY <1>1, <1>3 DEF RoundRecords, RoundStatuses
<1>5. \A x : BidBy(next, x) <=> BidBy(r, x)
  BY <1>4 DEF BidBy
<1>6. BidBy(r, s)
  BY <1>1 DEF Hears
<1>7. Ordered(next)
  BY <1>1, <1>3, <1>4, <1>5, <1>6 DEF Ordered, StatusOf
<1>8. /\ \A verb, about : verb # "AWARD" =>
            (Msg(verb, n, about) \in T \cup {m} <=> Msg(verb, n, about) \in T)
      /\ \A x : Msg("AWARD", n, x) \in T \cup {m} <=> Msg("AWARD", n, x) \in T \/ x = s
  BY MsgIs
<1>9. \A x \in Sellers : r.award # x
  BY <1>1, TranscriptAssumption
<1>10. Hears(next, n, T \cup {m})
  BY <1>1, <1>3, <1>4, <1>5, <1>8, <1>9 DEF Hears
<1> QED
  BY <1>1, <1>2, <1>3, <1>4, <1>7, <1>10 DEF IsRound, StageFits

LEMMA EscrowHeard ==
    ASSUME NEW r, NEW n, NEW T, NEW s \in Sellers, IsRound(r, n, T), Msg("AWARD", n, s) \in T
    PROVE  LET m == Msg("ESCROW_REQUIRED", n, s)
               next == Absorb(r, m)
           IN IsRound(next, n, T \cup {m}) /\ \A at : StageFits(at, r) => StageFits(at, next)
<1> DEFINE m == Msg("ESCROW_REQUIRED", n, s)
           next == [r EXCEPT !.escrow = TRUE]
<1>1. r \in RoundRecords /\ Ordered(r) /\ Hears(r, n, T) /\ s # NoSeller
  BY TranscriptAssumption DEF IsRound
<1>2. Absorb(r, m) = next
  <2>1. m.verb = "ESCROW_REQUIRED" /\ m.about = s
    BY MsgIs
  <2> HIDE DEF m
  <2> QED
    BY <2>1 DEF Absorb
<1>3. r.award = s
  BY <1>1 DEF Hears
<1>4. next \in RoundRecords /\ next.escrow = TRUE /\ next.status = r.status
      /\ next.want = r.want /\ next.bids = r.bids /\ next.award = r.award
      /\ next.deposit = r.deposit /\ next.delivered = r.delivered
      /\ next.verified = r.verified /\ next.release = r.release
  BY <1>1 DEF RoundRecords
<1>5. \A x : BidBy(next, x) <=> BidBy(r, x)
  BY <1>4 DEF BidBy
<1>6. Ordered(next)
  BY <1>1, <1>3, <1>4, <1>5 DEF Ordered, StatusOf
<1>7. /\ \A verb, about : verb # "ESCROW_REQUIRED" =>
            (Msg(verb, n, about) \in T \cup {m} <=> Msg(verb, n, about) \in T)
      /\ \A x : Msg("ESCROW_REQUIRED", n, x) \in T \cup {m}
                   <=> Msg("ESCROW_REQUIRED", n, x) \in T \/ x = s
  BY MsgIs
<1>8. Hears(next, n, T \cup {m})
  BY <1>1, <1>3, <1>4, <1>5, <1>7 DEF Hears
<1>9. \A at : StageFits(at, r) => StageFits(at, next)
  BY <1>4 DEF StageFits
<1> QED
  BY <1>2, <1>4, <1>6, <1>8, <1>9 DEF IsRound

LEMMA DepositHeard ==
    ASSUME NEW r, NEW n, NEW T, NEW s \in Sellers, IsRound(r, n, T),
           Msg("ESCROW_REQUIRED", n, s) \in T, ~r.deposit
    PROVE  LET m == Msg("DEPOSITED", n, s)
               next == Absorb(r, m)
           IN IsRound(next, n, T \cup {m}) /\ StageFits("delivery", next)
<1> DEFINE m == Msg("DEPOSITED", n, s)
           next == [r EXCEPT !.deposit = TRUE, !.status = Unsettled(r, "deposited")]
<1>1. r \in RoundRecords /\ Ordered(r) /\ Hears(r, n, T) /\ s # NoSeller
  BY TranscriptAssumption DEF IsRound
<1>2. Absorb(r, m) = next
  <2>1. m.verb = "DEPOSITED" /\ m.about = s
    BY MsgIs
  <2> HIDE DEF m
  <2> QED
    BY <2>1 DEF Absorb
<1>3. /\ r.award = s /\ r.escrow /\ ~r.delivered /\ r.verified = "none" /\ ~r.release
      /\ r.status = "awarded"
  BY <1>1 DEF Hears, Ordered, StatusOf
<1>4. next \in RoundRecords /\ next.deposit = TRUE /\ next.status = "deposited"
      /\ next.want = r.want /\ next.bids = r.bids /\ next.award = r.award
      /\ next.escrow = r.escrow /\ next.delivered = r.delivered
      /\ next.verified = r.verified /\ next.release = r.release
  BY <1>1, <1>3 DEF RoundRecords, RoundStatuses, Unsettled
<1>5. \A x : BidBy(next, x) <=> BidBy(r, x)
  BY <1>4 DEF BidBy
<1>6. Ordered(next)
  BY <1>1, <1>3, <1>4, <1>5 DEF Ordered, StatusOf
<1>7. /\ \A verb, about : verb # "DEPOSITED" =>
            (Msg(verb, n, about) \in T \cup {m} <=> Msg(verb, n, about) \in T)
      /\ \A x : Msg("DEPOSITED", n, x) \in T \cup {m} <=> Msg("DEPOSITED", n, x) \in T \/ x = s
  BY MsgIs
<1>8. Hears(next, n, T \cup {m})
  BY <1>1, <1>3, <1>4, <1>5, <1>7 DEF Hears
<1> QED
  BY <1>2, <1>3, <1>4, <1>6, <1>8 DEF IsRound, StageFits

LEMMA DeliveryHeard ==
    ASSUME NEW r, NEW n, NEW T, NEW s \in Sellers, IsRound(r, n, T),
           Msg("DEPOSITED", n, s) \in T, Msg("DELIVERED", n, s) \notin T
    PROVE  LET m == Msg("DELIVERED", n, s)
               next == Absorb(r, m)
           IN IsRound(next, n, T \cup {m}) /\ \A at : StageFits(at, r) => StageFits(at, next)
<1> DEFINE m == Msg("DELIVERED", n, s)
           next == [r EXCEPT !.delivered = TRUE, !.status = Unsettled(r, "delivered")]
<1>1. r \in RoundRecords /\ Ordered(r) /\ Hears(r, n, T) /\ s # NoSeller
  BY TranscriptAssumption DEF IsRound
<1>2. Absorb(r, m) = next
  <2>1. m.verb = "DELIVERED" /\ m.about = s
    BY MsgIs
  <2> HIDE DEF m
  <2> QED
    BY <2>1 DEF Absorb
<1>3. /\ r.award = s /\ r.deposit /\ ~r.delivered /\ r.verified = "none" /\ ~r.release
      /\ r.status = "deposited"
  BY <1>1 DEF Hears, Ordered, StatusOf
<1>4. next \in RoundRecords /\ next.delivered = TRUE /\ next.status = "delivered"
      /\ next.want = r.want /\ next.bids = r.bids /\ next.award = r.award
      /\ next.escrow = r.escrow /\ next.deposit = r.deposit
      /\ next.verified = r.verified /\ next.release = r.release
  BY <1>1, <1>3 DEF RoundRecords, RoundStatuses, Unsettled
<1>5. \A x : BidBy(next, x) <=> BidBy(r, x)
  BY <1>4 DEF BidBy
<1>6. Ordered(next)
  BY <1>1, <1>3, <1>4, <1>5 DEF Ordered, StatusOf
<1>7. /\ \A verb, about : verb # "DELIVERED" =>
            (Msg(verb, n, about) \in T \cup {m} <=> Msg(verb, n, about) \in T)
      /\ \A x : Msg("DELIVERED", n, x) \in T \cup {m} <=> Msg("DELIVERED", n, x) \in T \/ x = s
  BY MsgIs
<1>8. Hears(next, n, T \cup {m})
  BY <1>1, <1>3, <1>4, <1>5, <1>7 DEF Hears
<1>9. \A at : StageFits(at, r) => StageFits(at, next)
  BY <1>4 DEF StageFits
<1> QED
  BY <1>2, <1>4, <1>6, <1>8, <1>9 DEF IsRound

LEMMA VerdictHeard ==
    ASSUME NEW r, NEW n, NEW T, NEW s \in Sellers, NEW v \in Verdicts, IsRound(r, n, T),
           Msg("DELIVERED", n, s) \in T, r.verified = "none"
    PROVE  LET m == Msg("VERIFIED", n, v)
               next == Absorb(r, m)
           IN IsRound(next, n, T \cup {m}) /\ (v = "PASS" => StageFits("releasing", next))
<1> DEFINE m == Msg("VERIFIED", n, v)
           next == [r EXCEPT !.verified = v,
                             !.status = Unsettled(r, IF v = "PASS" THEN "verified"
                                                     ELSE "delivered")]
<1>1. r \in RoundRecords /\ Ordered(r) /\ Hears(r, n, T) /\ v # "none"
  BY DEF IsRound, Verdicts
<1>2. Absorb(r, m) = next
  <2>1. m.verb = "VERIFIED" /\ m.about = v
    BY MsgIs
  <2> HIDE DEF m
  <2> QED
    BY <2>1 DEF Absorb
<1>3. r.award = s /\ r.delivered /\ ~r.release /\ r.status = "delivered"
  BY <1>1 DEF Hears, Ordered, StatusOf
<1>4. next \in RoundRecords /\ next.verified = v
      /\ next.status = (IF v = "PASS" THEN "verified" ELSE "delivered")
      /\ next.want = r.want /\ next.bids = r.bids /\ next.award = r.award
      /\ next.escrow = r.escrow /\ next.deposit = r.deposit
      /\ next.delivered = r.delivered /\ next.release = r.release
  BY <1>1, <1>3 DEF RoundRecords, RoundStatuses, Unsettled
<1>5. \A x : BidBy(next, x) <=> BidBy(r, x)
  BY <1>4 DEF BidBy
<1>6. Ordered(next)
  BY <1>1, <1>3, <1>4, <1>5 DEF Ordered, StatusOf
<1>7. /\ \A verb, about : verb # "VERIFIED" =>
            (Msg(verb, n, about) \in T \cup {m} <=> Msg(verb, n, about) \in T)
      /\ \A x : Msg("VERIFIED", n, x) \in T \cup {m} <=> Msg("VERIFIED", n, x) \in T \/ x = v
  BY MsgIs
<1>8. \A x \in Verdicts : r.verified # x
  BY DEF Verdicts
<1>9. Hears(next, n, T \cup {m})
  BY <1>1, <1>3, <1>4, <1>5, <1>7, <1>8 DEF Hears
<1> QED
  BY <1>2, <1>3, <1>4, <1>6, <1>9 DEF IsRound, StageFits

LEMMA ReleaseHeard ==
    ASSUME NEW r, NEW n, NEW T, IsRound(r, n, T), r.verified = "PASS"
    PROVE  LET m == Msg("RELEASED", n, NoSeller) IN IsRound(Absorb(r, m), n, T \cup {m})
<1> DEFINE m == Msg("RELEASED", n, NoSeller)
           next == [r EXCEPT !.release = TRUE, !.status = "settled"]
<1>1. r \in RoundRecords /\ Ordered(r) /\ Hears(r, n, T)
  BY DEF IsRound
<1>2. Absorb(r, m) = next
  <2>1. m.verb = "RELEASED" /\ m.about = NoSeller
    BY MsgIs
  <2> HIDE DEF m
  <2> QED
    BY <2>1 DEF Absorb
<1>3. next \in RoundRecords /\ next.release = TRUE /\ next.status = "settled"
      /\ next.want = r.want /\ next.bids = r.bids /\ next.award = r.award
      /\ next.escrow = r.escrow /\ next.deposit = r.deposit
      /\ next.delivered = r.delivered /\ next.verified = r.verified
  BY <1>1 DEF RoundRecords, RoundStatuses
<1>4. \A x : BidBy(next, x) <=> BidBy(r, x)
  BY <1>3 DEF BidBy
<1>5. Ordered(next)
  BY <1>1, <1>3, <1>4 DEF Ordered, StatusOf
<1>6. /\ \A verb, about : verb # "RELEASED" =>
            (Msg(verb, n, about) \in T \cup {m} <=> Msg(verb, n, about) \in T)
      /\ Msg("RELEASED", n, NoSeller) \in T \cup {m}
  BY MsgIs
<1>7. Hears(next, n, T \cup {m})
  BY <1>1, <1>3, <1>4, <1>6 DEF Hears
<1> QED
  BY <1>2, <1>3, <1>5, <1>7 DEF IsRound

(* A message of a round that was asked for is heard by that round only.    *)
LEMMA SayHeard ==
    ASSUME TalkInv, NEW m, m.verb \in Verbs, m.round \in 1..asked, Say(m),
           IsRound(Absorb(rounds[m.round], m), m.round, thread \cup {m})
    PROVE  /\ DOMAIN rounds' = 1..asked
           /\ rounds'[m.round] = Absorb(rounds[m.round], m)
           /\ \A k \in 1..asked : k # m.round => rounds'[k] = rounds[k]
           /\ \A x \in thread' : x.verb \in Verbs /\ x.round \in 1..asked
           /\ \A k \in 1..asked : IsRound(rounds'[k], k, thread')
           /\ thread \subseteq thread'
<1>1. /\ DOMAIN rounds = 1..asked /\ \A x \in thread : x.verb \in Verbs /\ x.round \in 1..asked
      /\ \A k \in 1..asked : IsRound(rounds[k], k, thread)
  BY DEF TalkInv
<1>2. thread' = thread \cup {m} /\ rounds' = With(rounds, m.round, Absorb(rounds[m.round], m))
  BY <1>1 DEF Say, Fold
<1>3. /\ DOMAIN rounds' = 1..asked /\ rounds'[m.round] = Absorb(rounds[m.round], m)
      /\ \A k \in 1..asked : k # m.round => rounds'[k] = rounds[k]
  <2>1. PICK n, next : n = m.round /\ next = Absorb(rounds[m.round], m)
    OBVIOUS
  <2>2. rounds' = With(rounds, n, next)
    BY <1>2, <2>1
  <2>3. /\ DOMAIN rounds' = DOMAIN rounds \cup {n} /\ rounds'[n] = next
        /\ \A k \in DOMAIN rounds : k # n => rounds'[k] = rounds[k]
    BY <2>2 DEF With
  <2> QED
    BY <1>1, <2>1, <2>3
<1>4. ASSUME NEW k \in 1..asked, k # m.round
      PROVE  IsRound(rounds'[k], k, thread')
  <2>1. IsRound(rounds[k], k, thread \cup {m})
    BY <1>1, <1>4, OthersHear
  <2> QED
    BY <1>2, <1>3, <1>4, <2>1
<1> QED
  BY <1>1, <1>2, <1>3, <1>4

LEMMA BuyerKeeps ==
    ASSUME TalkInv, NEW from, NEW to \in TalkStages, NEW m, m.verb \in Verbs,
           m.round = asked, from # "idle", Buyer(from, to, m),
           IsRound(Absorb(rounds[asked], m), asked, thread \cup {m}),
           to # "idle" => StageFits(to, Absorb(rounds[asked], m))
    PROVE  TalkInv' /\ thread \subseteq thread' /\ asked <= asked'
<1>1. Say(m) /\ asked' = asked /\ stage' = to /\ stage # "idle"
  BY DEF Buyer
<1>2. asked > 0 /\ asked \in 0..MaxRounds /\ MaxRounds \in Nat
  BY <1>1, TranscriptAssumption DEF TalkInv
<1>3. m.round \in 1..asked
  BY <1>2
<1>4. /\ DOMAIN rounds' = 1..asked /\ rounds'[asked] = Absorb(rounds[asked], m)
      /\ \A x \in thread' : x.verb \in Verbs /\ x.round \in 1..asked
      /\ \A k \in 1..asked : IsRound(rounds'[k], k, thread')
      /\ thread \subseteq thread'
  BY <1>1, <1>3, SayHeard
<1>5. TalkInv'
  BY <1>1, <1>2, <1>4 DEF TalkInv
<1> QED
  BY <1>1, <1>2, <1>4, <1>5

LEMMA SellerKeeps ==
    ASSUME TalkInv, NEW m, m.verb \in Verbs, m.round \in 1..asked, Say(m),
           UNCHANGED <<asked, stage>>,
           LET next == Absorb(rounds[m.round], m)
           IN /\ IsRound(next, m.round, thread \cup {m})
              /\ \A at : StageFits(at, rounds[m.round]) => StageFits(at, next)
    PROVE  TalkInv' /\ thread \subseteq thread' /\ asked <= asked'
<1>1. asked' = asked /\ stage' = stage
  OBVIOUS
<1>2. /\ DOMAIN rounds' = 1..asked /\ rounds'[m.round] = Absorb(rounds[m.round], m)
      /\ \A k \in 1..asked : k # m.round => rounds'[k] = rounds[k]
      /\ \A x \in thread' : x.verb \in Verbs /\ x.round \in 1..asked
      /\ \A k \in 1..asked : IsRound(rounds'[k], k, thread')
      /\ thread \subseteq thread'
  BY SayHeard
<1>3. /\ asked \in 0..MaxRounds /\ MaxRounds \in Nat /\ stage \in TalkStages
      /\ stage # "idle" => asked > 0 /\ StageFits(stage, rounds[asked])
  BY TranscriptAssumption DEF TalkInv
<1>4. stage # "idle" => StageFits(stage, rounds'[asked])
  <2> SUFFICES ASSUME stage # "idle" PROVE StageFits(stage, rounds'[asked])
    OBVIOUS
  <2>1. asked \in 1..asked
    BY <1>3
  <2>2. CASE m.round = asked
    BY <1>2, <1>3, <2>2
  <2>3. CASE m.round # asked
    BY <1>2, <1>3, <2>1, <2>3
  <2> QED
    BY <2>2, <2>3
<1>5. TalkInv'
  BY <1>1, <1>2, <1>3, <1>4 DEF TalkInv
<1> QED
  BY <1>1, <1>2, <1>3, <1>5

LEMMA AskKeeps ==
    ASSUME TalkInv, Ask
    PROVE  TalkInv' /\ thread \subseteq thread' /\ asked <= asked'
<1> DEFINE n == asked + 1
           m == Msg("WANT", n, NoSeller)
<1>1. asked < MaxRounds /\ asked' = n /\ stage' = "bidding" /\ Say(m)
  BY DEF Ask
<1>2. /\ asked \in 0..MaxRounds /\ MaxRounds \in Nat /\ DOMAIN rounds = 1..asked
      /\ \A x \in thread : x.verb \in Verbs /\ x.round \in 1..asked
      /\ \A k \in 1..asked : IsRound(rounds[k], k, thread)
  BY TranscriptAssumption DEF TalkInv
<1>3. m.verb = "WANT" /\ m.round = n /\ "WANT" \in Verbs
  BY MsgIs DEF Verbs
<1>4. n \notin 1..asked /\ n \in 1..n /\ 1..n = 1..asked \cup {n} /\ n \in 0..MaxRounds
  BY <1>1, <1>2
<1>5. IsRound(Absorb(NewRound, m), n, thread \cup {m})
  <2>1. \A x \in thread : x.round # n
    BY <1>2, <1>4
  <2> QED
    BY <2>1, WantHeard
<1> HIDE DEF m, n
<1>6. thread' = thread \cup {m} /\ rounds' = With(rounds, n, Absorb(NewRound, m))
  BY <1>1, <1>2, <1>3, <1>4 DEF Say, Fold
<1>7. /\ DOMAIN rounds' = 1..n /\ rounds'[n] = Absorb(NewRound, m)
      /\ \A k \in 1..asked : rounds'[k] = rounds[k]
  <2>1. PICK next : next = Absorb(NewRound, m)
    OBVIOUS
  <2>2. rounds' = With(rounds, n, next)
    BY <1>6, <2>1
  <2>3. /\ DOMAIN rounds' = DOMAIN rounds \cup {n} /\ rounds'[n] = next
        /\ \A k \in DOMAIN rounds : k # n => rounds'[k] = rounds[k]
    BY <2>2 DEF With
  <2> QED
    BY <1>2, <1>4, <2>1, <2>3
<1>8. ASSUME NEW k \in 1..n PROVE IsRound(rounds'[k], k, thread')
  <2>1. CASE k = n
    BY <1>5, <1>6, <1>7, <2>1
  <2>2. CASE k \in 1..asked
    <3>1. m.round # k
      BY <1>3, <1>4, <2>2
    <3>2. IsRound(rounds[k], k, thread \cup {m})
      BY <1>2, <2>2, <3>1, OthersHear
    <3> QED
      BY <1>6, <1>7, <2>2, <3>2
  <2> QED
    BY <1>4, <2>1, <2>2
<1>9. \A x \in thread' : x.verb \in Verbs /\ x.round \in 1..n
  BY <1>2, <1>3, <1>4, <1>6
<1>10. StageFits("bidding", rounds'[n])
  <2>1. Absorb(NewRound, m).award = NoSeller
    BY <1>3 DEF Absorb, NewRound
  <2> QED
    BY <1>7, <2>1 DEF StageFits
<1>11. asked' > 0 /\ asked <= asked' /\ asked' = n
  BY <1>1, <1>2 DEF n
<1>12. TalkInv'
  BY <1>1, <1>4, <1>7, <1>8, <1>9, <1>10, <1>11 DEF TalkInv, TalkStages
<1> QED
  BY <1>6, <1>11, <1>12

(* Who awards, deposits, verifies and releases has read what it answers.   *)
LEMMA TalkKeeps ==
    ASSUME TalkInv, Talk
    PROVE  TalkInv' /\ thread \subseteq thread' /\ asked <= asked'
<1> DEFINE Goal == TalkInv' /\ thread \subseteq thread' /\ asked <= asked'
<1>1. /\ asked \in 0..MaxRounds /\ MaxRounds \in Nat /\ asked \in Int
      /\ stage \in TalkStages
      /\ \A x \in thread : x.round \in 1..asked
      /\ \A k \in 1..asked : IsRound(rounds[k], k, thread)
      /\ stage # "idle" => asked \in 1..asked /\ StageFits(stage, rounds[asked])
  BY TranscriptAssumption DEF TalkInv
<1>2. /\ {"AWARD", "DEPOSITED", "VERIFIED", "RELEASED", "BID", "ESCROW_REQUIRED",
           "DELIVERED"} \subseteq Verbs
      /\ {"idle", "terms", "delivery", "releasing"} \subseteq TalkStages
  BY DEF Verbs, TalkStages
<1>3. ASSUME NEW s \in Sellers, Award(s) PROVE Goal
  <2> DEFINE m == Msg("AWARD", asked, s)
  <2>1. Msg("BID", asked, s) \in thread /\ stage = "bidding" /\ Buyer("bidding", "terms", m)
    BY <1>3 DEF Award, Said, Buyer
  <2>2. asked \in 1..asked /\ rounds[asked].award = NoSeller
    BY <1>1, <2>1 DEF StageFits
  <2>3. /\ IsRound(Absorb(rounds[asked], m), asked, thread \cup {m})
        /\ StageFits("terms", Absorb(rounds[asked], m))
    BY <1>1, <2>1, <2>2, AwardHeard
  <2>4. m.verb = "AWARD" /\ m.round = asked
    BY MsgIs
  <2> HIDE DEF m
  <2> QED
    BY <1>2, <2>1, <2>3, <2>4, BuyerKeeps
<1>4. ASSUME Deposit PROVE Goal
  <2>1. PICK s \in Sellers : /\ Msg("ESCROW_REQUIRED", asked, s) \in thread
                             /\ Buyer("terms", "delivery", Msg("DEPOSITED", asked, s))
    BY <1>4 DEF Deposit, Said
  <2> DEFINE m == Msg("DEPOSITED", asked, s)
  <2>2. stage = "terms"
    BY <2>1 DEF Buyer
  <2>3. asked \in 1..asked /\ ~rounds[asked].deposit
    BY <1>1, <2>2 DEF StageFits
  <2>4. /\ IsRound(Absorb(rounds[asked], m), asked, thread \cup {m})
        /\ StageFits("delivery", Absorb(rounds[asked], m))
    BY <1>1, <2>1, <2>3, DepositHeard
  <2>5. m.verb = "DEPOSITED" /\ m.round = asked /\ Buyer("terms", "delivery", m)
    BY <2>1, MsgIs
  <2> HIDE DEF m
  <2> QED
    BY <1>2, <2>4, <2>5, BuyerKeeps
<1>5. ASSUME Verify PROVE Goal
  <2>1. PICK s \in Sellers, v \in Verdicts :
               /\ Msg("DELIVERED", asked, s) \in thread
               /\ Buyer("delivery", IF v = "PASS" THEN "releasing" ELSE "idle",
                        Msg("VERIFIED", asked, v))
    BY <1>5 DEF Verify, Said, Verdicts
  <2> DEFINE m == Msg("VERIFIED", asked, v)
             to == IF v = "PASS" THEN "releasing" ELSE "idle"
  <2>2. stage = "delivery"
    BY <2>1 DEF Buyer
  <2>3. asked \in 1..asked /\ rounds[asked].verified = "none"
    BY <1>1, <2>2 DEF StageFits
  <2>4. /\ IsRound(Absorb(rounds[asked], m), asked, thread \cup {m})
        /\ v = "PASS" => StageFits("releasing", Absorb(rounds[asked], m))
    BY <1>1, <2>1, <2>3, VerdictHeard
  <2>5. m.verb = "VERIFIED" /\ m.round = asked /\ Buyer("delivery", to, m)
    BY <2>1, MsgIs
  <2> HIDE DEF m
  <2>6. to \in TalkStages /\ (to # "idle" => StageFits(to, Absorb(rounds[asked], m)))
    BY <1>2, <2>4
  <2> HIDE DEF to
  <2> QED
    BY <1>2, <2>4, <2>5, <2>6, BuyerKeeps
<1>6. ASSUME Release PROVE Goal
  <2> DEFINE m == Msg("RELEASED", asked, NoSeller)
  <2>1. stage = "releasing" /\ Buyer("releasing", "idle", m)
    BY <1>6 DEF Release, Buyer
  <2>2. asked \in 1..asked /\ rounds[asked].verified = "PASS"
    BY <1>1, <2>1 DEF StageFits
  <2>3. IsRound(Absorb(rounds[asked], m), asked, thread \cup {m})
    BY <1>1, <2>2, ReleaseHeard
  <2>4. m.verb = "RELEASED" /\ m.round = asked
    BY MsgIs
  <2> HIDE DEF m
  <2> QED
    BY <1>2, <2>1, <2>3, <2>4, BuyerKeeps
<1>7. ASSUME NEW s \in Sellers, Bid(s) PROVE Goal
  <2>1. PICK n \in Rounds : /\ Msg("WANT", n, NoSeller) \in thread /\ Msg("BID", n, s) \notin thread
                            /\ Say(Msg("BID", n, s)) /\ UNCHANGED <<asked, stage>>
    BY <1>7 DEF Bid, Answer, Said
  <2> DEFINE m == Msg("BID", n, s)
  <2>2. n \in 1..asked
    BY <1>1, <2>1, MsgIs
  <2>3. /\ IsRound(Absorb(rounds[n], m), n, thread \cup {m})
        /\ \A at : StageFits(at, rounds[n]) => StageFits(at, Absorb(rounds[n], m))
    BY <1>1, <2>1, <2>2, BidHeard
  <2>4. m.verb = "BID" /\ m.round = n /\ Say(m)
    BY <2>1, MsgIs
  <2> HIDE DEF m
  <2> QED
    BY <1>2, <2>1, <2>2, <2>3, <2>4, SellerKeeps
<1>8. ASSUME NEW s \in Sellers, SendTerms(s) PROVE Goal
  <2>1. PICK n \in Rounds : /\ Msg("AWARD", n, s) \in thread /\ Say(Msg("ESCROW_REQUIRED", n, s))
                            /\ UNCHANGED <<asked, stage>>
    BY <1>8 DEF SendTerms, Answer, Said
  <2> DEFINE m == Msg("ESCROW_REQUIRED", n, s)
  <2>2. n \in 1..asked
    BY <1>1, <2>1, MsgIs
  <2>3. /\ IsRound(Absorb(rounds[n], m), n, thread \cup {m})
        /\ \A at : StageFits(at, rounds[n]) => StageFits(at, Absorb(rounds[n], m))
    BY <1>1, <2>1, <2>2, EscrowHeard
  <2>4. m.verb = "ESCROW_REQUIRED" /\ m.round = n /\ Say(m)
    BY <2>1, MsgIs
  <2> HIDE DEF m
  <2> QED
    BY <1>2, <2>1, <2>2, <2>3, <2>4, SellerKeeps
<1>9. ASSUME NEW s \in Sellers, Deliver(s) PROVE Goal
  <2>1. PICK n \in Rounds : /\ Msg("DEPOSITED", n, s) \in thread
                            /\ Msg("DELIVERED", n, s) \notin thread
                            /\ Say(Msg("DELIVERED", n, s)) /\ UNCHANGED <<asked, stage>>
    BY <1>9 DEF Deliver, Answer, Said
  <2> DEFINE m == Msg("DELIVERED", n, s)
  <2>2. n \in 1..asked
    BY <1>1, <2>1, MsgIs
  <2>3. /\ IsRound(Absorb(rounds[n], m), n, thread \cup {m})
        /\ \A at : StageFits(at, rounds[n]) => StageFits(at, Absorb(rounds[n], m))
    BY <1>1, <2>1, <2>2, DeliveryHeard
  <2>4. m.verb = "DELIVERED" /\ m.round = n /\ Say(m)
    BY <2>1, MsgIs
  <2> HIDE DEF m
  <2> QED
    BY <1>2, <2>1, <2>2, <2>3, <2>4, SellerKeeps
<1>10. ASSUME MoveOn PROVE Goal
  <2>1. stage' = "idle" /\ thread' = thread /\ rounds' = rounds /\ asked' = asked
    BY <1>10 DEF MoveOn
  <2>2. TalkInv'
    BY <2>1 DEF TalkInv, TalkStages
  <2> QED
    BY <1>1, <2>1, <2>2
<1>11. ASSUME Ask PROVE Goal
  BY <1>11, AskKeeps
<1> SUFFICES Goal
  OBVIOUS
<1> HIDE DEF Goal
<1>12. ASSUME NEW s \in Sellers, Award(s) \/ Bid(s) \/ SendTerms(s) \/ Deliver(s) PROVE Goal
  BY <1>3, <1>7, <1>8, <1>9, <1>12, Zenon
<1> QED
  BY <1>4, <1>5, <1>6, <1>10, <1>11, <1>12, Zenon DEF Talk

LEMMA TalkRests ==
    ASSUME TalkInv, UNCHANGED talkVars
    PROVE  TalkInv' /\ thread \subseteq thread' /\ asked <= asked'
<1>1. thread' = thread /\ rounds' = rounds /\ asked' = asked /\ stage' = stage
  BY DEF talkVars
<1>2. asked \in Int
  BY TranscriptAssumption DEF TalkInv
<1> QED
  BY <1>1, <1>2 DEF TalkInv

LEMMA TalkStarts == ASSUME TalkInit PROVE TalkInv
<1>1. thread = {} /\ asked = 0 /\ stage = "idle" /\ DOMAIN rounds = {} /\ 1..0 = {}
  BY DEF TalkInit
<1> QED
  BY <1>1, TranscriptAssumption DEF TalkInv, TalkStages

-----------------------------------------------------------------------------
(* How far a round is.                                                     *)

LEMMA FurthestIs ==
    ASSUME NEW facts, NEW names, NEW default, NEW n \in Nat, DOMAIN facts = 1..n,
           NEW k \in 1..n, facts[k], \A i \in 1..n : i > k => ~facts[i]
    PROVE  Furthest(facts, names, default) = names[k]
<1> DEFINE held == {i \in DOMAIN facts : facts[i]}
<1>1. k \in held /\ \A y \in held : k >= y /\ y \in Int
  OBVIOUS
<1> HIDE DEF held
<1>2. Max(held) \in held /\ \A y \in held : Max(held) >= y
  BY <1>1 DEF Max
<1>3. Max(held) = k
  <2>1. PICK top : top = Max(held)
    OBVIOUS
  <2>2. top \in Int /\ k >= top /\ top >= k
    BY <1>1, <1>2, <2>1
  <2> QED
    BY <2>1, <2>2
<1> QED
  BY <1>1, <1>3 DEF Furthest, held

ShownPlace(r) ==
    IF r.release THEN 8
    ELSE IF r.verified # "none" THEN 7
    ELSE IF r.delivered THEN 6
    ELSE IF r.deposit THEN 5
    ELSE IF r.escrow THEN 4
    ELSE IF r.award # NoSeller THEN 3
    ELSE IF r.bids # <<>> THEN 2 ELSE 1

StatusPlace(r) ==
    IF r.release THEN 6
    ELSE IF r.verified = "PASS" THEN 5
    ELSE IF r.delivered THEN 4
    ELSE IF r.deposit THEN 3
    ELSE IF r.award # NoSeller THEN 2 ELSE 1

LEMMA SomeoneBid ==
    ASSUME NEW r \in RoundRecords
    PROVE  r.bids # <<>> <=> \E s : BidBy(r, s)
<1>1. r.bids \in Seq(Sellers)
  BY DEF RoundRecords
<1>2. PICK bids : bids = r.bids
  OBVIOUS
<1>3. bids # <<>> <=> \E i \in DOMAIN bids : TRUE
  <2>1. Len(bids) \in Nat /\ DOMAIN bids = 1..Len(bids) /\ (bids = <<>> <=> Len(bids) = 0)
    BY <1>1, <1>2
  <2>2. Len(bids) # 0 => 1 \in DOMAIN bids
    BY <2>1
  <2>3. Len(bids) = 0 => DOMAIN bids = {}
    BY <2>1
  <2> QED
    BY <2>1, <2>2, <2>3
<1>4. (\E s : BidBy(r, s)) <=> \E i \in DOMAIN bids : TRUE
  BY <1>2 DEF BidBy
<1> QED
  BY <1>2, <1>3, <1>4

LEMMA ShownStageIs ==
    ASSUME NEW r \in RoundRecords, Ordered(r)
    PROVE  ShownStage(r) = Stages[ShownPlace(r)] /\ ShownPlace(r) \in 1..9
<1> DEFINE facts == <<r.want, r.bids # <<>>, r.award # NoSeller, r.escrow, r.deposit, r.delivered,
                      r.verified # "none", r.release, r.refunded>>
           k == ShownPlace(r)
<1>1. ShownStage(r) = Furthest(facts, Stages, "SESSION_CREATED")
  BY DEF ShownStage, Ordered
<1>2. DOMAIN facts = 1..9
  OBVIOUS
<1>3. k \in 1..8
  BY DEF ShownPlace
<1>4. r.award # NoSeller => r.bids # <<>>
  BY SomeoneBid DEF Ordered
<1>5. facts[k]
  BY <1>4 DEF ShownPlace, Ordered, RoundRecords
<1>6. \A i \in 1..9 : i > k => ~facts[i]
  <2>1. ~r.refunded
    BY DEF RoundRecords
  <2>2. /\ facts[1] = r.want /\ facts[2] = (r.bids # <<>>) /\ facts[3] = (r.award # NoSeller)
        /\ facts[4] = r.escrow /\ facts[5] = r.deposit /\ facts[6] = r.delivered
        /\ facts[7] = (r.verified # "none") /\ facts[8] = r.release /\ facts[9] = r.refunded
    OBVIOUS
  <2> HIDE DEF facts
  <2> QED
    BY <1>4, <2>1, <2>2 DEF ShownPlace, Ordered, RoundRecords
<1> HIDE DEF facts, k
<1>7. Furthest(facts, Stages, "SESSION_CREATED") = Stages[k]
  <2>1. k \in 1..9 /\ 9 \in Nat
    BY <1>3
  <2> QED
    BY <1>2, <1>5, <1>6, <2>1, FurthestIs
<1> QED
  BY <1>1, <1>3, <1>7 DEF k

RecordedPlace(r) ==
    IF r.release THEN 8
    ELSE IF r.verified # "none" THEN 6
    ELSE IF r.delivered THEN 5
    ELSE IF r.deposit THEN 4
    ELSE IF r.award # NoSeller THEN 3
    ELSE IF r.bids # <<>> THEN 2 ELSE 1

RecordedNames(r) ==
    <<"WANT_BROADCAST", "BIDS_RECEIVED", "WINNER_SELECTED", "SETTLEMENT_INITIATED",
      "MEMO_GENERATED",
      IF r.verified = "PASS" THEN "VERIFICATION_PASSED" ELSE "VERIFICATION_FAILED",
      "REFUNDED", "PAYMENT_RELEASED">>

LEMMA RecordedStageIs ==
    ASSUME NEW r \in RoundRecords, Ordered(r)
    PROVE  RecordedStage(r) = RecordedNames(r)[RecordedPlace(r)]
<1> DEFINE facts == <<r.want, r.bids # <<>>, r.award # NoSeller, r.deposit, r.delivered,
                      r.verified # "none", r.refunded, r.release>>
           k == RecordedPlace(r)
<1>1. RecordedStage(r) = Furthest(facts, RecordedNames(r), "SESSION_CREATED")
  BY DEF RecordedStage, RecordedNames
<1>2. DOMAIN facts = 1..8
  OBVIOUS
<1>3. k \in 1..8
  BY DEF RecordedPlace
<1>4. r.award # NoSeller => r.bids # <<>>
  BY SomeoneBid DEF Ordered
<1>5. facts[k]
  BY <1>4 DEF RecordedPlace, Ordered, RoundRecords
<1>6. \A i \in 1..8 : i > k => ~facts[i]
  <2>1. ~r.refunded
    BY DEF RoundRecords
  <2>2. /\ facts[1] = r.want /\ facts[2] = (r.bids # <<>>) /\ facts[3] = (r.award # NoSeller)
        /\ facts[4] = r.deposit /\ facts[5] = r.delivered
        /\ facts[6] = (r.verified # "none") /\ facts[7] = r.refunded /\ facts[8] = r.release
    OBVIOUS
  <2> HIDE DEF facts
  <2> QED
    BY <1>4, <2>1, <2>2 DEF RecordedPlace, Ordered, RoundRecords
<1> HIDE DEF facts, k
<1>7. Furthest(facts, RecordedNames(r), "SESSION_CREATED") = RecordedNames(r)[k]
  <2>1. 8 \in Nat
    OBVIOUS
  <2> QED
    BY <1>2, <1>3, <1>5, <1>6, <2>1, FurthestIs
<1> QED
  BY <1>1, <1>7 DEF k

LEMMA SettlementStatusIs ==
    ASSUME NEW r \in RoundRecords, Ordered(r)
    PROVE  SettlementStatus(r) =
              IF r.release THEN "RELEASED"
              ELSE IF r.verified # "none" THEN "VERIFIED"
              ELSE IF r.deposit THEN "DEPOSITED"
              ELSE IF r.escrow THEN "REQUESTED" ELSE "none"
<1> DEFINE facts == <<r.escrow, r.deposit, r.verified # "none", r.refunded, r.release>>
           names == <<"REQUESTED", "DEPOSITED", "VERIFIED", "REFUNDED", "RELEASED">>
           k == IF r.release THEN 5 ELSE IF r.verified # "none" THEN 3
                ELSE IF r.deposit THEN 2 ELSE 1
<1>1. SettlementStatus(r) = Furthest(facts, names, "none")
  BY DEF SettlementStatus
<1>2. /\ DOMAIN facts = 1..5 /\ facts[1] = r.escrow /\ facts[2] = r.deposit
      /\ facts[3] = (r.verified # "none") /\ facts[4] = r.refunded /\ facts[5] = r.release
  OBVIOUS
<1>3. ~r.refunded
  BY DEF RoundRecords
<1>4. CASE r.escrow
  <2>1. k \in 1..5
    OBVIOUS
  <2>2. facts[k]
    BY <1>4 DEF Ordered, RoundRecords
  <2>3. \A i \in 1..5 : i > k => ~facts[i]
    <3> HIDE DEF facts
    <3> QED
      BY <1>2, <1>3 DEF Ordered, RoundRecords
  <2>4. names[k] = IF r.release THEN "RELEASED"
                   ELSE IF r.verified # "none" THEN "VERIFIED"
                   ELSE IF r.deposit THEN "DEPOSITED" ELSE "REQUESTED"
    OBVIOUS
  <2>5. DOMAIN facts = 1..5 /\ 5 \in Nat
    OBVIOUS
  <2> HIDE DEF facts, names, k
  <2>6. Furthest(facts, names, "none") = names[k]
    BY <2>1, <2>2, <2>3, <2>5, FurthestIs
  <2> QED
    BY <1>1, <1>4, <2>4, <2>6
<1>5. CASE ~r.escrow
  <2>1. ~r.release /\ r.verified = "none" /\ ~r.deposit
    BY <1>5 DEF Ordered
  <2>2. \A i \in 1..5 : ~facts[i]
    <3>1. ~facts[1] /\ ~facts[2] /\ ~facts[3] /\ ~facts[4] /\ ~facts[5]
      BY <1>3, <1>5, <2>1
    <3> HIDE DEF facts, k, names
    <3> QED
      BY <3>1
  <2>3. {i \in DOMAIN facts : facts[i]} = {}
    <3> HIDE DEF facts
    <3> QED
      BY <1>2, <2>2
  <2> HIDE DEF facts, names
  <2> QED
    BY <1>1, <1>5, <2>1, <2>3 DEF Furthest
<1> QED
  BY <1>4, <1>5

(* The status of a round, the stage shown and what is recorded fit.        *)
LEMMA RoundAgrees ==
    ASSUME NEW r \in RoundRecords, Ordered(r)
    PROVE  <<r.status, ShownStage(r), RecordedStage(r), SettlementStatus(r)>> \in Consistent
<1>1. ShownStage(r) = Stages[ShownPlace(r)]
  BY ShownStageIs
<1>2. RecordedStage(r) = RecordedNames(r)[RecordedPlace(r)]
  BY RecordedStageIs
<1>3. /\ r.status = StatusOf(r)
      /\ r.verified \in {"PASS", "FAIL", "none"}
      /\ r.award # NoSeller => r.bids # <<>>
      /\ r.escrow => r.award # NoSeller
      /\ r.deposit => r.escrow
      /\ r.delivered => r.deposit
      /\ r.verified # "none" => r.delivered
      /\ r.release => r.verified = "PASS"
  BY SomeoneBid DEF Ordered, RoundRecords, Verdicts
<1>4. CASE r.release
  BY <1>1, <1>2, <1>3, <1>4, SettlementStatusIs
     DEF ShownPlace, RecordedPlace, StatusOf, RecordedNames, Stages, Consistent
<1>5. CASE ~r.release /\ r.verified = "PASS"
  BY <1>1, <1>2, <1>3, <1>5, SettlementStatusIs
     DEF ShownPlace, RecordedPlace, StatusOf, RecordedNames, Stages, Consistent
<1>6. CASE ~r.release /\ r.verified = "FAIL"
  BY <1>1, <1>2, <1>3, <1>6, SettlementStatusIs
     DEF ShownPlace, RecordedPlace, StatusOf, RecordedNames, Stages, Consistent
<1>7. CASE ~r.release /\ r.verified = "none" /\ r.delivered
  BY <1>1, <1>2, <1>3, <1>7, SettlementStatusIs
     DEF ShownPlace, RecordedPlace, StatusOf, RecordedNames, Stages, Consistent
<1>8. CASE ~r.release /\ r.verified = "none" /\ ~r.delivered /\ r.deposit
  BY <1>1, <1>2, <1>3, <1>8, SettlementStatusIs
     DEF ShownPlace, RecordedPlace, StatusOf, RecordedNames, Stages, Consistent
<1>9. CASE ~r.release /\ r.verified = "none" /\ ~r.delivered /\ ~r.deposit /\ r.escrow
  BY <1>1, <1>2, <1>3, <1>9, SettlementStatusIs
     DEF ShownPlace, RecordedPlace, StatusOf, RecordedNames, Stages, Consistent
<1>10. CASE /\ ~r.release /\ r.verified = "none" /\ ~r.delivered /\ ~r.deposit /\ ~r.escrow
            /\ r.award # NoSeller
  BY <1>1, <1>2, <1>3, <1>10, SettlementStatusIs
     DEF ShownPlace, RecordedPlace, StatusOf, RecordedNames, Stages, Consistent
<1>11. CASE /\ ~r.release /\ r.verified = "none" /\ ~r.delivered /\ ~r.deposit /\ ~r.escrow
            /\ r.award = NoSeller
  BY <1>1, <1>2, <1>3, <1>11, SettlementStatusIs
     DEF ShownPlace, RecordedPlace, StatusOf, RecordedNames, Stages, Consistent
<1> QED
  BY <1>3, <1>4, <1>5, <1>6, <1>7, <1>8, <1>9, <1>10, <1>11

LEMMA TalkAgrees == ASSUME TalkInv PROVE DerivationsAgree
<1>1. ASSUME NEW n \in DOMAIN rounds
      PROVE  LET r == rounds[n]
             IN <<r.status, ShownStage(r), RecordedStage(r), SettlementStatus(r)>> \in Consistent
  <2>1. rounds[n] \in RoundRecords /\ Ordered(rounds[n])
    BY DEF TalkInv, IsRound
  <2> QED
    BY <2>1, RoundAgrees
<1> QED
  BY <1>1 DEF DerivationsAgree

(* In which order, once more: what is sent stays sent, so that a round     *)
(* keeps each of its facts.                                                *)
LEMMA PlaceIs ==
    ASSUME NEW list, NEW n, DOMAIN list = 1..n,
           \A i, j \in 1..n : list[i] = list[j] => i = j, NEW k \in 1..n
    PROVE  Place(list, list[k]) = k
<1>1. \A i \in DOMAIN list : list[i] = list[k] <=> i = k
  OBVIOUS
<1> QED
  BY <1>1 DEF Place

LEMMA RoundKeeps ==
    ASSUME NEW n, NEW T, NEW U, T \subseteq U, NEW r, NEW next,
           IsRound(r, n, T), IsRound(next, n, U)
    PROVE  /\ r.bids # <<>> => next.bids # <<>>
           /\ r.award # NoSeller => next.award = r.award
           /\ r.escrow => next.escrow
           /\ r.deposit => next.deposit
           /\ r.delivered => next.delivered
           /\ r.verified # "none" => next.verified = r.verified
           /\ r.release => next.release
<1>1. /\ r \in RoundRecords /\ Ordered(r) /\ Hears(r, n, T)
      /\ next \in RoundRecords /\ Ordered(next) /\ Hears(next, n, U)
  BY DEF IsRound
<1>2. r.award \in Sellers \cup {NoSeller} /\ r.verified \in Verdicts \cup {"none"}
  BY <1>1 DEF RoundRecords
<1>3. r.award # NoSeller => next.award = r.award
  BY <1>1, <1>2 DEF Hears
<1>4. r.bids # <<>> => next.bids # <<>>
  <2> SUFFICES ASSUME r.bids # <<>> PROVE next.bids # <<>>
    OBVIOUS
  <2>1. PICK s : BidBy(r, s)
    BY <1>1, SomeoneBid
  <2>2. s \in Sellers
    <3>1. PICK bids : bids = r.bids
      OBVIOUS
    <3>2. bids \in Seq(Sellers) /\ \E i \in DOMAIN bids : bids[i] = s
      BY <1>1, <2>1, <3>1 DEF BidBy, RoundRecords
    <3> QED
      BY <3>2
  <2>3. BidBy(next, s)
    BY <1>1, <2>1, <2>2 DEF Hears
  <2> QED
    BY <1>1, <2>3, SomeoneBid
<1>5. (r.escrow => next.escrow) /\ (r.deposit => next.deposit) /\ (r.delivered => next.delivered)
  <2>1. r.escrow \/ r.deposit \/ r.delivered => r.award \in Sellers
    BY <1>1, <1>2 DEF Ordered
  <2> QED
    BY <1>1, <2>1 DEF Hears
<1>6. r.verified # "none" => next.verified = r.verified
  BY <1>1, <1>2 DEF Hears
<1>7. r.release => next.release
  BY <1>1 DEF Hears
<1> QED
  BY <1>3, <1>4, <1>5, <1>6, <1>7

LEMMA StatusPlaceIs ==
    ASSUME NEW r \in RoundRecords, Ordered(r)
    PROVE  StatusPlace(r) \in 1..6 /\ Place(Statuses, r.status) = StatusPlace(r)
<1>1. StatusPlace(r) \in 1..6 /\ r.status = Statuses[StatusPlace(r)]
  BY DEF StatusPlace, Ordered, StatusOf, Statuses
<1>2. DOMAIN Statuses = 1..6 /\ \A i, j \in 1..6 : Statuses[i] = Statuses[j] => i = j
  BY DEF Statuses
<1> QED
  BY <1>1, <1>2, PlaceIs

LEMMA ShownPlaceIs ==
    ASSUME NEW r \in RoundRecords, Ordered(r)
    PROVE  ShownPlace(r) \in 1..9 /\ Place(Stages, ShownStage(r)) = ShownPlace(r)
<1>1. ShownPlace(r) \in 1..9 /\ ShownStage(r) = Stages[ShownPlace(r)]
  BY ShownStageIs
<1>2. DOMAIN Stages = 1..9 /\ \A i, j \in 1..9 : Stages[i] = Stages[j] => i = j
  BY DEF Stages
<1> QED
  BY <1>1, <1>2, PlaceIs

RoundStep ==
    /\ \A n \in DOMAIN rounds :
          LET r == rounds[n]
              next == rounds'[n]
          IN /\ Place(Statuses, r.status) <= Place(Statuses, next.status)
             /\ Place(Stages, ShownStage(r)) <= Place(Stages, ShownStage(next))
    /\ asked' = asked /\ asked > 0 => Latest' = Latest

LEMMA TalkAdvances ==
    ASSUME TalkInv, TalkInv', thread \subseteq thread', asked <= asked'
    PROVE  RoundStep
<1>1. ASSUME NEW n \in DOMAIN rounds
      PROVE  LET r == rounds[n]
                 next == rounds'[n]
             IN /\ Place(Statuses, r.status) <= Place(Statuses, next.status)
                /\ Place(Stages, ShownStage(r)) <= Place(Stages, ShownStage(next))
  <2>1. PICK r, next : r = rounds[n] /\ next = rounds'[n]
    OBVIOUS
  <2>2. n \in 1..asked /\ n \in 1..asked'
    <3>1. DOMAIN rounds = 1..asked /\ asked \in 0..MaxRounds /\ asked' \in 0..MaxRounds
      BY DEF TalkInv
    <3> QED
      BY <3>1, TranscriptAssumption
  <2>3. IsRound(r, n, thread) /\ IsRound(next, n, thread')
    BY <2>1, <2>2 DEF TalkInv
  <2>4. /\ r.bids # <<>> => next.bids # <<>>
        /\ r.award # NoSeller => next.award = r.award
        /\ r.escrow => next.escrow
        /\ r.deposit => next.deposit
        /\ r.delivered => next.delivered
        /\ r.verified # "none" => next.verified = r.verified
        /\ r.release => next.release
    BY <2>3, RoundKeeps
  <2>5. r \in RoundRecords /\ Ordered(r) /\ next \in RoundRecords /\ Ordered(next)
    BY <2>3 DEF IsRound
  <2>6. StatusPlace(r) <= StatusPlace(next)
    BY <2>4, <2>5 DEF StatusPlace, Ordered
  <2>7. ShownPlace(r) <= ShownPlace(next)
    BY <2>4, <2>5 DEF ShownPlace, Ordered
  <2>8. /\ Place(Statuses, r.status) = StatusPlace(r) /\
             Place(Statuses, next.status) = StatusPlace(next)
        /\ Place(Stages, ShownStage(r)) = ShownPlace(r)
        /\ Place(Stages, ShownStage(next)) = ShownPlace(next)
    BY <2>5, StatusPlaceIs, ShownPlaceIs
  <2> QED
    BY <2>1, <2>6, <2>7, <2>8
<1>2. asked' = asked => Latest' = Latest
  <2>1. DOMAIN rounds = 1..asked /\ DOMAIN rounds' = 1..asked'
    BY DEF TalkInv
  <2> QED
    BY <2>1 DEF Latest
<1> QED
  BY <1>1, <1>2 DEF RoundStep

LEMMA FeedTalks ==
    ASSUME TalkInv, [FeedNext]_allVars
    PROVE  TalkInv' /\ thread \subseteq thread' /\ asked <= asked'
<1>1. Talk \/ UNCHANGED talkVars
  BY DEF FeedNext, allVars, PollStep, Poll, WriteOnce, AppendFile, Restart
<1> QED
  BY <1>1, TalkKeeps, TalkRests

(* Statuses, stages and what goes on record tell one story, for any number *)
(* of sellers and rounds.                                                  *)
THEOREM DerivationsHold == FeedSpec => []DerivationsAgree
<1>1. FeedInit => TalkInv
  BY TalkStarts DEF FeedInit
<1>2. TalkInv /\ [FeedNext]_allVars => TalkInv'
  BY FeedTalks
<1>3. TalkInv => DerivationsAgree
  BY TalkAgrees
<1> QED
  BY <1>1, <1>2, <1>3, PTL DEF FeedSpec

(* No round ever seems to go back.                                         *)
THEOREM RoundsAdvance == FeedSpec => RoundAdvances
<1>1. FeedInit => TalkInv
  BY TalkStarts DEF FeedInit
<1>2. TalkInv /\ [FeedNext]_allVars => TalkInv' /\ [RoundStep]_rounds
  BY FeedTalks, TalkAdvances
<1>3. FeedSpec => [][RoundStep]_rounds
  BY <1>1, <1>2, PTL DEF FeedSpec
<1> QED
  BY <1>3 DEF RoundAdvances, RoundStep

-----------------------------------------------------------------------------
(* The passes.  What an entry claims was said when its pass began, and     *)
(* what was said stays said.                                               *)

Kinds == {"memo", "settlement", "reputation"}
Subjects == Sellers \cup {"", "REQUESTED", "DEPOSITED", "VERIFIED", "RELEASED"}
Counts == [wins : {0, 1}, jobs : {0, 1}]
Entries == [key : Kinds \X Rounds \X Subjects, value : Counts]

Claims(e, T) ==
    LET n == e.key[2]
        about == e.key[3]
    IN /\ e.key[1] = "memo" => \E s \in Sellers : Msg("DELIVERED", n, s) \in T
       /\ e.key[1] = "settlement" /\ about = "RELEASED" => Msg("RELEASED", n, NoSeller) \in T
       /\ e.key[1] = "settlement" /\ about = "VERIFIED" =>
             \E v \in Verdicts : Msg("VERIFIED", n, v) \in T
       /\ e.key[1] = "reputation" =>
             /\ e.value.wins = 1 => Msg("AWARD", n, about) \in T
             /\ e.value.jobs = 1 =>
                   Msg("AWARD", n, about) \in T /\ Msg("RELEASED", n, NoSeller) \in T

FactsOf(T) == {e \in Entries : Claims(e, T)}

LEMMA FactsStay ==
    ASSUME NEW T, NEW U, T \subseteq U
    PROVE  FactsOf(T) \subseteq FactsOf(U)
BY DEF FactsOf, Claims

LEMMA IfIs ==
    ASSUME NEW A, NEW cond \in BOOLEAN, NEW entry, cond => entry \in A
    PROVE  If(cond, entry) \in Seq(A)
<1>1. CASE cond
  BY <1>1 DEF If
<1>2. CASE ~cond
  BY <1>2 DEF If
<1> QED
  BY <1>1, <1>2

LEMMA EntryIs ==
    ASSUME NEW kind, NEW n, NEW of, NEW value
    PROVE  LET e == Entry(kind, n, of, value)
           IN /\ e.key = <<kind, n, of>> /\ e.value = value
              /\ e.key[1] = kind /\ e.key[2] = n /\ e.key[3] = of
BY DEF Entry

LEMMA RoundIsRecorded ==
    ASSUME NEW n \in Rounds, NEW r, NEW T, IsRound(r, n, T)
    PROVE  RoundEntries(n, r) \in Seq(FactsOf(T))
<1>1. r \in RoundRecords /\ Ordered(r) /\ Hears(r, n, T)
  BY DEF IsRound
<1>2. NoValue \in Counts
  BY DEF NoValue, Counts
<1>3. If(r.delivered, Entry("memo", n, "", NoValue)) \in Seq(FactsOf(T))
  <2>1. ASSUME r.delivered PROVE Entry("memo", n, "", NoValue) \in FactsOf(T)
    <3>1. r.award \in Sellers
      BY <1>1, <2>1 DEF Ordered, RoundRecords
    <3>2. Msg("DELIVERED", n, r.award) \in T
      BY <1>1, <2>1, <3>1 DEF Hears
    <3>3. PICK e : e = Entry("memo", n, "", NoValue)
      OBVIOUS
    <3>4. e \in Entries
      BY <1>2, <3>3 DEF Entry, Entries, Kinds, Subjects
    <3>5. e.key[1] = "memo" /\ e.key[2] = n
      BY <3>3 DEF Entry
    <3>6. e \in FactsOf(T)
      BY <3>1, <3>2, <3>4, <3>5 DEF FactsOf, Claims
    <3> QED
      BY <3>3, <3>6
  <2>2. r.delivered \in BOOLEAN
    BY <1>1 DEF RoundRecords
  <2> QED
    BY <2>1, <2>2, IfIs
<1>4. If(SettlementStatus(r) # "none", SettlementEntry(n, r)) \in Seq(FactsOf(T))
  <2>1. PICK status : status = SettlementStatus(r)
    OBVIOUS
  <2>2. status = IF r.release THEN "RELEASED"
                 ELSE IF r.verified # "none" THEN "VERIFIED"
                 ELSE IF r.deposit THEN "DEPOSITED"
                 ELSE IF r.escrow THEN "REQUESTED" ELSE "none"
    BY <1>1, <2>1, SettlementStatusIs
  <2>3. PICK e : e = SettlementEntry(n, r)
    OBVIOUS
  <2>4. ASSUME status # "none" PROVE e \in FactsOf(T)
    <3>1. e = Entry("settlement", n, status, NoValue)
      BY <2>1, <2>3 DEF SettlementEntry
    <3>2. e \in Entries
      BY <1>2, <2>2, <2>4, <3>1 DEF Entry, Entries, Kinds, Subjects
    <3>3. status = "RELEASED" => Msg("RELEASED", n, NoSeller) \in T
      BY <1>1, <2>2 DEF Hears
    <3>4. status = "VERIFIED" => \E v \in Verdicts : Msg("VERIFIED", n, v) \in T
      <4> SUFFICES ASSUME status = "VERIFIED" PROVE \E v \in Verdicts : Msg("VERIFIED", n, v) \in T
        OBVIOUS
      <4>1. r.verified \in Verdicts
        BY <1>1, <2>2 DEF RoundRecords
      <4>2. Msg("VERIFIED", n, r.verified) \in T
        BY <1>1, <4>1 DEF Hears
      <4> QED
        BY <4>1, <4>2
    <3>5. e.key[1] = "settlement" /\ e.key[2] = n /\ e.key[3] = status
      BY <3>1, EntryIs
    <3> QED
      BY <3>2, <3>3, <3>4, <3>5 DEF FactsOf, Claims
  <2>5. (SettlementStatus(r) # "none") \in BOOLEAN
    OBVIOUS
  <2> QED
    BY <2>1, <2>3, <2>4, <2>5, IfIs
<1>5. Standing(n, r) \in Seq(FactsOf(T))
  <2>1. PICK bids : bids = r.bids
    OBVIOUS
  <2>2. bids \in Seq(Sellers)
    BY <1>1, <2>1 DEF RoundRecords
  <2>3. ASSUME NEW i \in DOMAIN bids
        PROVE  Entry("reputation", n, bids[i], Reputation(r, bids[i])) \in FactsOf(T)
    <3>1. PICK s : s = bids[i]
      OBVIOUS
    <3>2. s \in Sellers
      BY <2>2, <3>1
    <3>3. PICK value : value = Reputation(r, s)
      OBVIOUS
    <3>4. /\ value \in Counts
          /\ value.wins = 1 => r.award = s
          /\ value.jobs = 1 => r.award = s /\ r.release
      BY <3>3 DEF Reputation, Won, Counts
    <3>5. PICK e : e = Entry("reputation", n, s, value)
      OBVIOUS
    <3>6. e \in Entries
      BY <3>2, <3>4, <3>5 DEF Entry, Entries, Kinds, Subjects
    <3>7. e.key[1] = "reputation" /\ e.key[2] = n /\ e.key[3] = s /\ e.value = value
      BY <3>5, EntryIs
    <3>8. /\ r.award = s => Msg("AWARD", n, s) \in T
          /\ r.release => Msg("RELEASED", n, NoSeller) \in T
      BY <1>1, <3>2 DEF Hears
    <3>9. e \in FactsOf(T)
      BY <3>4, <3>6, <3>7, <3>8 DEF FactsOf, Claims
    <3> QED
      BY <3>1, <3>3, <3>5, <3>9
  <2>4. Standing(n, r) =
           [i \in DOMAIN bids |-> Entry("reputation", n, bids[i], Reputation(r, bids[i]))]
    BY <2>1 DEF Standing
  <2>5. Len(bids) \in Nat /\ DOMAIN bids = 1..Len(bids)
    BY <2>2
  <2>6. Standing(n, r) \in [1..Len(bids) -> FactsOf(T)]
    BY <2>3, <2>4, <2>5
  <2> QED
    BY <2>5, <2>6
<1>6. PICK a, b, c : /\ a = If(r.delivered, Entry("memo", n, "", NoValue))
                    /\ b = If(SettlementStatus(r) # "none", SettlementEntry(n, r))
                    /\ c = Standing(n, r)
  OBVIOUS
<1>7. RoundEntries(n, r) = a \o b \o c
  BY <1>6 DEF RoundEntries
<1>8. PICK A : A = FactsOf(T)
  OBVIOUS
<1>9. a \in Seq(A) /\ b \in Seq(A) /\ c \in Seq(A)
  BY <1>3, <1>4, <1>5, <1>6, <1>8
<1>10. a \o b \o c \in Seq(A)
  BY <1>9
<1> QED
  BY <1>7, <1>8, <1>10

LEMMA PassIsTrue == ASSUME TalkInv PROVE Pass \in Seq(FactsOf(thread))
<1> DEFINE lists == [n \in 1..MaxRounds |->
                       IF n \in DOMAIN rounds THEN RoundEntries(n, rounds[n]) ELSE <<>>]
<1>1. ASSUME NEW n \in 1..MaxRounds PROVE lists[n] \in Seq(FactsOf(thread))
  <2>1. CASE n \in DOMAIN rounds
    <3>1. IsRound(rounds[n], n, thread) /\ n \in Rounds
      BY <2>1 DEF TalkInv, Rounds
    <3> QED
      BY <2>1, <3>1, RoundIsRecorded
  <2>2. CASE n \notin DOMAIN rounds
    BY <2>2
  <2> QED
    BY <2>1, <2>2
<1>2. lists \in [1..MaxRounds -> Seq(FactsOf(thread))]
  BY <1>1
<1>3. Pass = FlattenSeq(lists)
  BY DEF Pass
<1>4. MaxRounds \in Nat
  BY TranscriptAssumption
<1> HIDE DEF lists
<1> QED
  BY <1>2, <1>3, <1>4, FlattenSeqType

(* The queues of the passes.  Whoever waits for an append has marked its   *)
(* key, and no two wait for the same one.                                  *)
QueuesOK(A) ==
    /\ todo \in [Polls -> Seq(A)]
    /\ writing \in [Polls -> BOOLEAN]
    /\ \A p \in Polls : writing[p] => todo[p] # <<>> /\ Head(todo[p]).key \in seen
    /\ \A p, q \in Polls :
          writing[p] /\ writing[q] /\ p # q => Head(todo[p]).key # Head(todo[q]).key

LEMMA MinIsIn ==
    ASSUME NEW S \in SUBSET Nat, S # {}
    PROVE  Min(S) \in S
<1>1. IsWellFoundedOn(OpToRel(<, Nat), Nat)
  BY NatLessThanWellFounded
<1>2. \E x \in S : \A y \in S : ~ (<<y, x>> \in OpToRel(<, Nat))
  BY <1>1, WFMin
<1>3. PICK x \in S : \A y \in S : ~ (y < x)
  BY <1>2 DEF OpToRel
<1>4. \A y \in S : x <= y
  BY <1>3
<1> QED
  BY <1>3, <1>4 DEF Min

(* A pass goes on to its first entry whose key is not marked.              *)
LEMMA WriteOnceIs ==
    ASSUME NEW A, NEW p \in Polls, todo \in [Polls -> Seq(A)], WriteOnce(p)
    PROVE  /\ ~writing[p]
           /\ \E left \in Seq(A) :
                 /\ todo' = [todo EXCEPT ![p] = left]
                 /\ \/ left = <<>> /\ seen' = seen /\ writing' = writing
                    \/ /\ left # <<>> /\ Head(left).key \notin seen
                       /\ seen' = seen \cup {Head(left).key}
                       /\ writing' = [writing EXCEPT ![p] = TRUE]
<1> DEFINE fresh == {i \in DOMAIN todo[p] : todo[p][i].key \notin seen}
           next == IF fresh = {} THEN Len(todo[p]) + 1 ELSE Min(fresh)
<1>1. /\ ~writing[p]
      /\ todo' = [todo EXCEPT ![p] = SubSeq(todo[p], next, Len(todo[p]))]
      /\ IF fresh = {} THEN UNCHANGED <<seen, writing>>
         ELSE Mark(todo[p][next].key) /\ writing' = [writing EXCEPT ![p] = TRUE]
  BY DEF WriteOnce
<1>2. PICK list : list = todo[p]
  OBVIOUS
<1>3. list \in Seq(A)
  BY <1>2
<1>4. Len(list) \in Nat /\ DOMAIN list = 1..Len(list)
  BY <1>3
<1>5. CASE fresh = {}
  <2>1. next = Len(list) + 1
    BY <1>2, <1>5
  <2>2. SubSeq(list, next, Len(list)) = <<>>
    <3> HIDE DEF next
    <3> QED
      BY <1>4, <2>1, SubSeqEmpty
  <2>3. todo' = [todo EXCEPT ![p] = <<>>] /\ seen' = seen /\ writing' = writing
    BY <1>1, <1>2, <1>5, <2>2
  <2>4. <<>> \in Seq(A)
    OBVIOUS
  <2> QED
    BY <1>1, <2>3, <2>4
<1>6. CASE fresh # {}
  <2>1. fresh \in SUBSET Nat
    BY <1>2, <1>4
  <2>2. next \in fresh
    BY <1>6, <2>1, MinIsIn
  <2>3. next \in 1..Len(list) /\ list[next].key \notin seen
    BY <1>2, <1>4, <2>2
  <2>4. /\ todo' = [todo EXCEPT ![p] = SubSeq(list, next, Len(list))]
        /\ seen' = seen \cup {list[next].key} /\ writing' = [writing EXCEPT ![p] = TRUE]
    BY <1>1, <1>2, <1>6 DEF Mark
  <2> HIDE DEF next, fresh
  <2>5. PICK left : left = SubSeq(list, next, Len(list))
    OBVIOUS
  <2>6. Len(list) \in next..Len(list) /\ next \in Int /\ Len(list) \in Int
    BY <1>4, <2>3
  <2>7. Head(left) = list[next]
    BY <1>3, <2>3, <2>5, <2>6, HeadTailOfSubSeq
  <2>8. left \in Seq(A) /\ Len(left) > 0
    <3>1. \A i \in next..Len(list) : list[i] \in A
      BY <1>3, <2>3
    <3>2. left \in Seq(A) /\ Len(left) = IF next <= Len(list) THEN Len(list) - next + 1 ELSE 0
      BY <2>5, <2>6, <3>1, SubSeqProperties
    <3> QED
      BY <2>3, <2>6, <3>2
  <2>9. left # <<>>
    BY <2>8
  <2> QED
    BY <1>1, <2>3, <2>4, <2>5, <2>7, <2>8, <2>9
<1> QED
  BY <1>5, <1>6

LEMMA WriteOnceQueues ==
    ASSUME NEW A, NEW p \in Polls, QueuesOK(A), WriteOnce(p)
    PROVE  QueuesOK(A)'
<1>1. /\ todo \in [Polls -> Seq(A)] /\ writing \in [Polls -> BOOLEAN]
      /\ \A q \in Polls : writing[q] => todo[q] # <<>> /\ Head(todo[q]).key \in seen
      /\ \A x, y \in Polls :
            writing[x] /\ writing[y] /\ x # y => Head(todo[x]).key # Head(todo[y]).key
  BY DEF QueuesOK
<1>2. PICK left \in Seq(A) :
             /\ todo' = [todo EXCEPT ![p] = left]
             /\ \/ left = <<>> /\ seen' = seen /\ writing' = writing
                \/ /\ left # <<>> /\ Head(left).key \notin seen
                   /\ seen' = seen \cup {Head(left).key}
                   /\ writing' = [writing EXCEPT ![p] = TRUE]
  BY <1>1, WriteOnceIs
<1>3. ~writing[p]
  BY <1>1, WriteOnceIs
<1>4. /\ todo' \in [Polls -> Seq(A)] /\ writing' \in [Polls -> BOOLEAN]
      /\ todo'[p] = left /\ seen \subseteq seen'
      /\ \A q \in Polls : q # p => todo'[q] = todo[q] /\ writing'[q] = writing[q]
      /\ writing'[p] => left # <<>> /\ Head(left).key \notin seen /\ Head(left).key \in seen'
  BY <1>1, <1>2, <1>3
<1>5. ASSUME NEW q \in Polls, writing'[q]
      PROVE  todo'[q] # <<>> /\ Head(todo'[q]).key \in seen'
  BY <1>1, <1>4, <1>5
<1>6. ASSUME NEW x \in Polls, NEW y \in Polls, writing'[x], writing'[y], x # y
      PROVE  Head(todo'[x]).key # Head(todo'[y]).key
  <2>1. CASE x = p
    <3>1. Head(todo'[y]).key \in seen
      BY <1>1, <1>4, <1>6, <2>1
    <3> QED
      BY <1>4, <1>6, <2>1, <3>1
  <2>2. CASE y = p
    <3>1. Head(todo'[x]).key \in seen
      BY <1>1, <1>4, <1>6, <2>2
    <3> QED
      BY <1>4, <1>6, <2>2, <3>1
  <2>3. CASE x # p /\ y # p
    BY <1>1, <1>4, <1>6, <2>3
  <2> QED
    BY <2>1, <2>2, <2>3
<1> QED
  BY <1>4, <1>5, <1>6 DEF QueuesOK

(* A pass whose write is done or given up leaves the others alone.         *)
LEMMA PassQueues ==
    ASSUME NEW A, NEW p \in Polls, QueuesOK(A), NEW left \in Seq(A),
           todo' = [todo EXCEPT ![p] = left],
           writing' = [writing EXCEPT ![p] = FALSE] \/ (writing' = writing /\ ~writing[p]),
           seen' = seen
    PROVE  QueuesOK(A)'
<1>1. /\ todo \in [Polls -> Seq(A)] /\ writing \in [Polls -> BOOLEAN]
      /\ \A q \in Polls : writing[q] => todo[q] # <<>> /\ Head(todo[q]).key \in seen
      /\ \A x, y \in Polls :
            writing[x] /\ writing[y] /\ x # y => Head(todo[x]).key # Head(todo[y]).key
  BY DEF QueuesOK
<1>2. /\ todo' \in [Polls -> Seq(A)] /\ writing' \in [Polls -> BOOLEAN] /\ ~writing'[p]
      /\ \A q \in Polls : q # p => todo'[q] = todo[q] /\ writing'[q] = writing[q]
  BY <1>1
<1>3. \A q \in Polls : writing'[q] => q # p /\ writing[q] /\ todo'[q] = todo[q]
  BY <1>2
<1> QED
  BY <1>1, <1>2, <1>3 DEF QueuesOK

(* The files: under each key, the values of entries that were appended.    *)
ValuesOf(k, A) == {e.value : e \in {x \in A : x.key = k}}

FilesOK(A) == \A k \in DOMAIN files : files[k] # <<>> /\ files[k] \in Seq(ValuesOf(k, A))

LEMMA RecordsAre ==
    ASSUME NEW A, FilesOK(A), NEW k
    PROVE  /\ Records(k) \in Seq(ValuesOf(k, A))
           /\ Len(Records(k)) \in Nat /\ DOMAIN Records(k) = 1..Len(Records(k))
<1>1. Records(k) \in Seq(ValuesOf(k, A))
  BY DEF Records, FilesOK
<1>2. PICK values : values = Records(k)
  OBVIOUS
<1>3. Len(values) \in Nat /\ DOMAIN values = 1..Len(values)
  BY <1>1, <1>2
<1> QED
  BY <1>1, <1>2, <1>3

LEMMA PutIs ==
    ASSUME NEW A, FilesOK(A), NEW e \in A, Put(e)
    PROVE  /\ FilesOK(A)'
           /\ DOMAIN files' = DOMAIN files \cup {e.key}
           /\ files'[e.key] = Append(Records(e.key), e.value)
           /\ Len(files'[e.key]) = Len(Records(e.key)) + 1
           /\ \A k \in DOMAIN files : k # e.key => files'[k] = files[k]
<1>1. PICK key, value, old : key = e.key /\ value = e.value /\ old = Records(key)
  OBVIOUS
<1>2. files' = With(files, key, Append(old, value))
  BY <1>1 DEF Put
<1>3. /\ DOMAIN files' = DOMAIN files \cup {key} /\ files'[key] = Append(old, value)
      /\ \A k \in DOMAIN files : k # key => files'[k] = files[k]
  BY <1>2 DEF With
<1>4. old \in Seq(ValuesOf(key, A)) /\ value \in ValuesOf(key, A)
  BY <1>1, RecordsAre DEF ValuesOf
<1>5. PICK B : B = ValuesOf(key, A)
  OBVIOUS
<1>6. Append(old, value) \in Seq(B) /\ Append(old, value) # <<>> /\
        Len(Append(old, value)) = Len(old) + 1
  BY <1>4, <1>5
<1>7. FilesOK(A)'
  BY <1>3, <1>5, <1>6 DEF FilesOK
<1> QED
  BY <1>1, <1>3, <1>6, <1>7

LEMMA FilesStay ==
    ASSUME NEW A, NEW B, A \subseteq B, FilesOK(A)
    PROVE  FilesOK(B)
<1>1. ASSUME NEW k \in DOMAIN files PROVE files[k] # <<>> /\ files[k] \in Seq(ValuesOf(k, B))
  <2>1. ValuesOf(k, A) \subseteq ValuesOf(k, B)
    BY DEF ValuesOf
  <2>2. files[k] # <<>> /\ files[k] \in Seq(ValuesOf(k, A))
    BY DEF FilesOK
  <2> QED
    BY <2>1, <2>2, SeqMonotonic
<1> QED
  BY <1>1 DEF FilesOK

LEMMA QueuesStay ==
    ASSUME NEW A, NEW B, A \subseteq B, QueuesOK(A)
    PROVE  QueuesOK(B)
<1>1. \A p \in Polls : todo[p] \in Seq(B)
  BY SeqMonotonic DEF QueuesOK
<1>2. DOMAIN todo = Polls /\ todo = [p \in Polls |-> todo[p]]
  BY DEF QueuesOK
<1>3. todo \in [Polls -> Seq(B)]
  BY <1>1, <1>2
<1> QED
  BY <1>3 DEF QueuesOK

(* A key that is marked and whose append no pass waits for is done: it may *)
(* be on file once more than the server was restarted, others no more than *)
(* that.                                                                   *)
Done(k) == k \in seen /\ \A p \in Polls : writing[p] => Head(todo[p]).key # k

Once ==
    /\ restarts \in Nat
    /\ \A k \in DOMAIN files : Len(files[k]) <= restarts + (IF Done(k) THEN 1 ELSE 0)

FeedInv ==
    /\ TalkInv
    /\ QueuesOK(FactsOf(thread))
    /\ FilesOK(FactsOf(thread))
    /\ Once

LEMMA PollKeeps ==
    ASSUME FeedInv, NEW p \in Polls, Poll(p)
    PROVE  FeedInv'
<1>1. /\ todo[p] = <<>> /\ todo' = [todo EXCEPT ![p] = Pass] /\ UNCHANGED talkVars
      /\ thread' = thread /\ seen' = seen /\ writing' = writing /\ files' = files
      /\ restarts' = restarts
  BY DEF Poll, talkVars
<1>2. TalkInv'
  BY <1>1, TalkRests DEF FeedInv
<1>3. todo \in [Polls -> Seq(FactsOf(thread))] /\ ~writing[p]
  BY <1>1 DEF FeedInv, QueuesOK
<1>4. Pass \in Seq(FactsOf(thread))
  BY PassIsTrue DEF FeedInv
<1>5. QueuesOK(FactsOf(thread))'
  <2>1. PICK A : A = FactsOf(thread)
    OBVIOUS
  <2>2. QueuesOK(A)'
    BY <1>1, <1>3, <1>4, <2>1, PassQueues DEF FeedInv
  <2>3. FactsOf(thread)' = A
    BY <1>1, <2>1 DEF FactsOf, Claims
  <2> QED
    BY <2>2, <2>3 DEF QueuesOK
<1>6. FilesOK(FactsOf(thread))'
  BY <1>1 DEF FeedInv, FilesOK, ValuesOf, FactsOf, Claims
<1>7. Once'
  <2>1. \A k \in DOMAIN files : Done(k) => Done(k)'
    BY <1>1, <1>3 DEF Done
  <2>2. /\ restarts \in Nat
        /\ \A k \in DOMAIN files : Len(files[k]) <= restarts + (IF Done(k) THEN 1 ELSE 0)
        /\ \A k \in DOMAIN files : Len(files[k]) \in Nat
    BY DEF FeedInv, Once, FilesOK
  <2> QED
    BY <1>1, <2>1, <2>2 DEF Once
<1> QED
  BY <1>2, <1>5, <1>6, <1>7 DEF FeedInv

LEMMA WriteOnceKeeps ==
    ASSUME FeedInv, NEW p \in Polls, WriteOnce(p)
    PROVE  FeedInv'
<1>1. UNCHANGED talkVars /\ thread' = thread /\ files' = files /\ restarts' = restarts
  BY DEF WriteOnce, talkVars
<1>2. PICK A : A = FactsOf(thread)
  OBVIOUS
<1>3. FactsOf(thread)' = A
  BY <1>1, <1>2 DEF FactsOf, Claims
<1>4. TalkInv /\ QueuesOK(A) /\ FilesOK(A) /\ Once
  BY <1>2 DEF FeedInv
<1>5. TalkInv'
  BY <1>1, <1>4, TalkRests
<1>6. QueuesOK(A)'
  BY <1>4, WriteOnceQueues
<1>7. FilesOK(A)'
  BY <1>1, <1>4 DEF FilesOK
<1>8. todo \in [Polls -> Seq(A)] /\ writing \in [Polls -> BOOLEAN]
  BY <1>4 DEF QueuesOK
<1>9. PICK left \in Seq(A) :
             /\ todo' = [todo EXCEPT ![p] = left]
             /\ \/ left = <<>> /\ seen' = seen /\ writing' = writing
                \/ /\ left # <<>> /\ Head(left).key \notin seen
                   /\ seen' = seen \cup {Head(left).key}
                   /\ writing' = [writing EXCEPT ![p] = TRUE]
  BY <1>8, WriteOnceIs
<1>10. ~writing[p]
  BY <1>8, WriteOnceIs
<1>11. ASSUME NEW k, Done(k) PROVE Done(k)'
  <2>1. k \in seen /\ \A q \in Polls : writing[q] => Head(todo[q]).key # k
    BY <1>11 DEF Done
  <2>2. k \in seen'
    BY <1>9, <2>1
  <2>3. ASSUME NEW q \in Polls, writing'[q] PROVE Head(todo'[q]).key # k
    <3>1. CASE q = p
      <4>1. Head(left).key \notin seen /\ todo'[p] = left
        BY <1>8, <1>9, <1>10, <2>3, <3>1
      <4> QED
        BY <2>1, <3>1, <4>1
    <3>2. CASE q # p
      <4>1. writing[q] /\ todo'[q] = todo[q]
        BY <1>8, <1>9, <2>3, <3>2
      <4> QED
        BY <2>1, <4>1
    <3> QED
      BY <3>1, <3>2
  <2> QED
    BY <2>2, <2>3 DEF Done
<1>12. Once'
  <2>1. /\ restarts \in Nat
        /\ \A k \in DOMAIN files : Len(files[k]) <= restarts + (IF Done(k) THEN 1 ELSE 0)
        /\ \A k \in DOMAIN files : Len(files[k]) \in Nat
    BY <1>4 DEF Once, FilesOK
  <2> QED
    BY <1>1, <1>11, <2>1 DEF Once
<1> QED
  BY <1>3, <1>5, <1>6, <1>7, <1>12 DEF FeedInv, QueuesOK, FilesOK

LEMMA AppendFileKeeps ==
    ASSUME FeedInv, NEW p \in Polls, AppendFile(p)
    PROVE  FeedInv'
<1>0. PICK entry : entry = Head(todo[p])
  OBVIOUS
<1>1. /\ UNCHANGED talkVars /\ thread' = thread /\ seen' = seen /\ restarts' = restarts
      /\ writing[p] /\ writing' = [writing EXCEPT ![p] = FALSE]
      /\ \/ Put(entry) /\ todo' = [todo EXCEPT ![p] = Tail(todo[p])]
         \/ todo' = [todo EXCEPT ![p] = <<>>] /\ (files' = files \/ Put(entry))
  BY <1>0 DEF AppendFile, talkVars
<1>2. PICK A : A = FactsOf(thread)
  OBVIOUS
<1>3. FactsOf(thread)' = A
  BY <1>1, <1>2 DEF FactsOf, Claims
<1>4. TalkInv /\ QueuesOK(A) /\ FilesOK(A) /\ Once
  BY <1>2 DEF FeedInv
<1>5. TalkInv'
  BY <1>1, <1>4, TalkRests
<1>6. /\ todo \in [Polls -> Seq(A)] /\ writing \in [Polls -> BOOLEAN] /\ todo[p] # <<>>
      /\ entry.key \in seen
      /\ \A q \in Polls : writing[q] /\ q # p => Head(todo[q]).key # entry.key
  BY <1>1, <1>4, <1>0 DEF QueuesOK
<1>7. entry \in A /\ Tail(todo[p]) \in Seq(A) /\ <<>> \in Seq(A)
  <2>1. PICK list : list = todo[p]
    OBVIOUS
  <2>2. list \in Seq(A) /\ list # <<>>
    BY <1>6, <2>1
  <2> QED
    BY <1>0, <2>1, <2>2, HeadTailProperties
<1>8. PICK left \in Seq(A) : todo' = [todo EXCEPT ![p] = left]
  BY <1>1, <1>7
<1>9. QueuesOK(A)'
  BY <1>1, <1>4, <1>8, PassQueues
<1>10. /\ ~writing'[p] /\ \A q \in Polls : q # p => writing'[q] = writing[q] /\ todo'[q] = todo[q]
  BY <1>1, <1>6, <1>8
<1>11. ASSUME NEW k, Done(k) PROVE Done(k)'
  BY <1>1, <1>10, <1>11 DEF Done
<1>12. Done(entry.key)'
  BY <1>1, <1>6, <1>10 DEF Done
<1>13. ~Done(entry.key)
  BY <1>1, <1>0 DEF Done
<1>14. /\ restarts \in Nat
       /\ \A k \in DOMAIN files : Len(files[k]) <= restarts + (IF Done(k) THEN 1 ELSE 0)
       /\ \A k \in DOMAIN files : Len(files[k]) \in Nat
  BY <1>4 DEF Once, FilesOK
<1>15. CASE files' = files
  <2>1. FilesOK(A)'
    BY <1>4, <1>15 DEF FilesOK
  <2>2. Once'
    BY <1>1, <1>11, <1>14, <1>15 DEF Once
  <2> QED
    BY <1>3, <1>5, <1>9, <2>1, <2>2 DEF FeedInv, QueuesOK, FilesOK
<1>16. CASE Put(entry)
  <2>1. /\ FilesOK(A)'
        /\ DOMAIN files' = DOMAIN files \cup {entry.key}
        /\ Len(files'[entry.key]) = Len(Records(entry.key)) + 1
        /\ \A k \in DOMAIN files : k # entry.key => files'[k] = files[k]
    BY <1>4, <1>7, <1>16, PutIs
  <2>2. Len(Records(entry.key)) <= restarts /\ Len(Records(entry.key)) \in Nat
    BY <1>13, <1>14 DEF Records
  <2>3. ASSUME NEW k \in DOMAIN files'
        PROVE  Len(files'[k]) <= restarts' + (IF Done(k)' THEN 1 ELSE 0)
    <3>1. CASE k = entry.key
      BY <1>1, <1>12, <1>14, <2>1, <2>2, <3>1
    <3>2. CASE k # entry.key
      <4>1. k \in DOMAIN files /\ files'[k] = files[k]
        BY <2>1, <3>2
      <4> QED
        BY <1>1, <1>11, <1>14, <4>1
    <3> QED
      BY <3>1, <3>2
  <2>4. Once'
    BY <1>1, <1>14, <2>3 DEF Once
  <2> QED
    BY <1>3, <1>5, <1>9, <2>1, <2>4 DEF FeedInv, QueuesOK, FilesOK
<1> QED
  BY <1>1, <1>15, <1>16

LEMMA RestartKeeps == ASSUME FeedInv, Restart PROVE FeedInv'
<1>1. /\ UNCHANGED talkVars /\ thread' = thread /\ files' = files /\ restarts' = restarts + 1
      /\ seen' = {} /\ todo' = [p \in Polls |-> <<>>] /\ writing' = [p \in Polls |-> FALSE]
  BY DEF Restart, talkVars
<1>2. PICK A : A = FactsOf(thread)
  OBVIOUS
<1>3. FactsOf(thread)' = A
  BY <1>1, <1>2 DEF FactsOf, Claims
<1>4. TalkInv /\ QueuesOK(A) /\ FilesOK(A) /\ Once
  BY <1>2 DEF FeedInv
<1>5. TalkInv'
  BY <1>1, <1>4, TalkRests
<1>6. QueuesOK(A)'
  <2>1. <<>> \in Seq(A)
    OBVIOUS
  <2> QED
    BY <1>1, <2>1 DEF QueuesOK
<1>7. FilesOK(A)'
  BY <1>1, <1>4 DEF FilesOK
<1>8. Once'
  <2>1. /\ restarts \in Nat
        /\ \A k \in DOMAIN files : Len(files[k]) <= restarts + (IF Done(k) THEN 1 ELSE 0)
        /\ \A k \in DOMAIN files : Len(files[k]) \in Nat
    BY <1>4 DEF Once, FilesOK
  <2>2. \A k : ~Done(k)'
    BY <1>1 DEF Done
  <2> QED
    BY <1>1, <2>1, <2>2 DEF Once
<1> QED
  BY <1>3, <1>5, <1>6, <1>7, <1>8 DEF FeedInv, QueuesOK, FilesOK

LEMMA FeedTalkKeeps ==
    ASSUME FeedInv, [Talk]_talkVars, UNCHANGED feedVars
    PROVE  FeedInv'
<1>1. /\ seen' = seen /\ todo' = todo /\ writing' = writing /\ files' = files
      /\ restarts' = restarts
  BY DEF feedVars
<1>2. TalkInv' /\ thread \subseteq thread'
  BY TalkKeeps, TalkRests DEF FeedInv
<1>3. PICK A, B : A = FactsOf(thread) /\ B = FactsOf(thread')
  OBVIOUS
<1>4. A \subseteq B
  BY <1>2, <1>3, FactsStay
<1>5. QueuesOK(B) /\ FilesOK(B)
  BY <1>3, <1>4, QueuesStay, FilesStay DEF FeedInv
<1>6. QueuesOK(B)'
  BY <1>1, <1>5 DEF QueuesOK
<1>7. FilesOK(B)'
  BY <1>1, <1>5 DEF FilesOK
<1>8. Once'
  BY <1>1 DEF FeedInv, Once, Done
<1>9. FactsOf(thread)' = B
  BY <1>3 DEF FactsOf, Claims
<1> QED
  BY <1>2, <1>6, <1>7, <1>8, <1>9 DEF FeedInv, QueuesOK, FilesOK

LEMMA FeedStarts == ASSUME FeedInit PROVE FeedInv
<1>1. /\ TalkInit /\ seen = {} /\ todo = [p \in Polls |-> <<>>]
      /\ writing = [p \in Polls |-> FALSE] /\ DOMAIN files = {} /\ restarts = 0
  BY DEF FeedInit
<1>2. PICK A : A = FactsOf(thread)
  OBVIOUS
<1>3. QueuesOK(A)
  <2>1. <<>> \in Seq(A)
    OBVIOUS
  <2> QED
    BY <1>1, <2>1 DEF QueuesOK
<1> QED
  BY <1>1, <1>2, <1>3, TalkStarts DEF FeedInv, FilesOK, Once

LEMMA FeedKeeps == FeedInv /\ [FeedNext]_allVars => FeedInv'
<1> SUFFICES ASSUME FeedInv, [FeedNext]_allVars PROVE FeedInv'
  OBVIOUS
<1>1. CASE Talk /\ UNCHANGED feedVars
  BY <1>1, FeedTalkKeeps
<1>2. ASSUME NEW p \in Polls, PollStep(p) PROVE FeedInv'
  BY <1>2, PollKeeps, WriteOnceKeeps, AppendFileKeeps DEF PollStep
<1>3. CASE Restart
  BY <1>3, RestartKeeps
<1>4. CASE UNCHANGED allVars
  BY <1>4, FeedTalkKeeps DEF allVars
<1> QED
  BY <1>1, <1>2, <1>3, <1>4 DEF FeedNext

THEOREM FeedInvariant == FeedSpec => []FeedInv
<1>1. FeedInit => FeedInv
  BY FeedStarts
<1> QED
  BY <1>1, FeedKeeps, PTL DEF FeedSpec

(* Nothing is put on record twice by one process, however passes overlap.  *)
THEOREM DedupeHolds == FeedSpec => []DedupedPerProcess
<1>1. FeedInv => DedupedPerProcess
  <2> SUFFICES ASSUME FeedInv, NEW k \in DOMAIN files
               PROVE  Len(files[k]) <= restarts + 1
    BY DEF DedupedPerProcess
  <2>1. /\ restarts \in Nat /\ Len(files[k]) \in Nat
        /\ Len(files[k]) <= restarts + (IF Done(k) THEN 1 ELSE 0)
    BY DEF FeedInv, Once, FilesOK
  <2> QED
    BY <2>1
<1> QED
  BY <1>1, FeedInvariant, PTL

(* What the values under a key claim.                                      *)
LEMMA FileClaims ==
    ASSUME NEW T, FilesOK(FactsOf(T)), NEW k, NEW i \in DOMAIN Records(k)
    PROVE  /\ Records(k)[i] \in Counts
           /\ Claims([key |-> k, value |-> Records(k)[i]], T)
<1>1. PICK values : values = Records(k)
  OBVIOUS
<1>2. values \in Seq(ValuesOf(k, FactsOf(T)))
  BY <1>1, RecordsAre
<1>3. values[i] \in ValuesOf(k, FactsOf(T))
  BY <1>1, <1>2
<1>4. PICK e \in FactsOf(T) : e.key = k /\ e.value = values[i]
  BY <1>3 DEF ValuesOf
<1>5. e \in Entries /\ Claims(e, T)
  BY <1>4 DEF FactsOf
<1>6. e = [key |-> k, value |-> values[i]]
  BY <1>4, <1>5 DEF Entries
<1>7. e.value \in Counts
  BY <1>5 DEF Entries
<1> QED
  BY <1>1, <1>4, <1>5, <1>6, <1>7

(* Under each key that a round and an agent have, one job at most counts,  *)
(* and once for each run of the server.                                    *)
LEMMA JobsOfRound ==
    ASSUME FeedInv, NEW n \in Rounds, NEW s \in Sellers
    PROVE  LET v == Jobs(Records(<<"reputation", n, s>>))
           IN /\ Total(v) \in Int
              /\ Total(v) <= IF Said(Msg("AWARD", n, s)) /\ Said(Msg("RELEASED", n, NoSeller))
                             THEN restarts + 1 ELSE 0
<1>1. PICK k, values : k = <<"reputation", n, s>> /\ values = Records(k)
  OBVIOUS
<1>2. FilesOK(FactsOf(thread)) /\ restarts \in Nat
  BY DEF FeedInv, Once
<1>3. Len(values) \in Nat /\ DOMAIN values = 1..Len(values)
  BY <1>1, <1>2, RecordsAre
<1>4. ASSUME NEW i \in DOMAIN values
      PROVE  /\ values[i].jobs \in {0, 1}
             /\ values[i].jobs = 1 => Said(Msg("AWARD", n, s)) /\ Said(Msg("RELEASED", n, NoSeller))
  <2>1. values[i] \in Counts /\ Claims([key |-> k, value |-> values[i]], thread)
    BY <1>1, <1>2, FileClaims
  <2>2. PICK e : e = [key |-> k, value |-> values[i]]
    OBVIOUS
  <2>3. /\ e.key[1] = "reputation" /\ e.key[2] = n /\ e.key[3] = s /\ e.value = values[i]
        /\ Claims(e, thread)
    BY <1>1, <2>1, <2>2
  <2> QED
    BY <2>1, <2>3 DEF Claims, Counts, Said
<1>5. PICK size : size = Len(values)
  OBVIOUS
<1>6. size \in Nat /\ size <= restarts + 1
  <2>1. k \in DOMAIN files => Len(files[k]) <= restarts + 1
    BY <1>2 DEF FeedInv, Once, FilesOK
  <2>2. k \notin DOMAIN files => values = <<>>
    BY <1>1 DEF Records
  <2> QED
    BY <1>1, <1>2, <1>3, <1>5, <2>1, <2>2 DEF Records
<1>7. PICK v : v = Jobs(values)
  OBVIOUS
<1>8. v \in [1..size -> Int] /\ \A i \in 1..size : v[i] = values[i].jobs
  BY <1>3, <1>4, <1>5, <1>7 DEF Jobs
<1>9. Total(v) \in Int
  BY <1>6, <1>8, TotalIsInt
<1>10. CASE Said(Msg("AWARD", n, s)) /\ Said(Msg("RELEASED", n, NoSeller))
  <2>1. PICK S : S = 1..size
    OBVIOUS
  <2>2. \A i \in 1..size : v[i] <= IF i \in S THEN 1 ELSE 0
    BY <1>3, <1>4, <1>5, <1>8, <2>1
  <2>3. Total(v) <= 1 * Cardinality(S)
    BY <1>6, <1>8, <2>1, <2>2, TotalIsBounded
  <2>4. Cardinality(S) = size
    BY <1>6, <2>1, FS_Interval
  <2> QED
    BY <1>1, <1>2, <1>6, <1>7, <1>9, <1>10, <2>3, <2>4
<1>11. CASE ~(Said(Msg("AWARD", n, s)) /\ Said(Msg("RELEASED", n, NoSeller)))
  <2>1. \A i \in 1..size : v[i] <= IF i \in {} THEN 1 ELSE 0
    BY <1>3, <1>4, <1>5, <1>8, <1>11
  <2>2. Total(v) <= 1 * Cardinality({})
    BY <1>6, <1>8, <2>1, TotalIsBounded
  <2> QED
    BY <1>1, <1>7, <1>9, <1>11, <2>2, FS_EmptySet
<1> QED
  BY <1>10, <1>11

LEMMA ListedJobsHold ==
    ASSUME FeedInv, NEW s \in Sellers
    PROVE  ListedJobs(s) <=
             (restarts + 1) * Cardinality({n \in Rounds : Said(Msg("AWARD", n, s))
                                                        /\ Said(Msg("RELEASED", n, NoSeller))})
<1> DEFINE v == [n \in Rounds |-> Total(Jobs(Records(<<"reputation", n, s>>)))]
           S == {n \in Rounds : Said(Msg("AWARD", n, s)) /\ Said(Msg("RELEASED", n, NoSeller))}
<1>1. PICK c, size : c = restarts + 1 /\ size = MaxRounds
  OBVIOUS
<1>2. c \in Nat /\ size \in Nat /\ Rounds = 1..size
  BY <1>1, TranscriptAssumption DEF FeedInv, Once, Rounds
<1>3. \A n \in Rounds : v[n] \in Int /\ v[n] <= IF n \in S THEN c ELSE 0
  BY <1>1, JobsOfRound
<1>4. v \in [1..size -> Int] /\ S \in SUBSET (1..size)
  BY <1>2, <1>3
<1>5. ListedJobs(s) = Total(v)
  BY DEF ListedJobs
<1> HIDE DEF v, S
<1>6. Total(v) <= c * Cardinality(S)
  BY <1>2, <1>3, <1>4, TotalIsBounded
<1> QED
  BY <1>1, <1>5, <1>6 DEF S

LEMMA RecordsAreTrue == ASSUME FeedInv PROVE RecordsHold
<1>1. ASSUME NEW k \in DOMAIN files
      PROVE  LET n == k[2]
                 about == k[3]
             IN /\ k[1] = "memo" => \E s \in Sellers : Said(Msg("DELIVERED", n, s))
                /\ k[1] = "settlement" /\ about = "RELEASED" => Said(Msg("RELEASED", n, NoSeller))
                /\ k[1] = "settlement" /\ about = "VERIFIED" =>
                      \E v \in {"PASS", "FAIL"} : Said(Msg("VERIFIED", n, v))
                /\ k[1] \in {"reputation", "profile"} =>
                      \A i \in DOMAIN files[k] :
                         /\ files[k][i].wins = 1 => Said(Msg("AWARD", n, about))
                         /\ files[k][i].jobs = 1 =>
                               Said(Msg("AWARD", n, about)) /\ Said(Msg("RELEASED", n, NoSeller))
  <2>1. FilesOK(FactsOf(thread))
    BY DEF FeedInv
  <2>2. Records(k) = files[k] /\ files[k] # <<>> /\ files[k] \in Seq(ValuesOf(k, FactsOf(thread)))
    BY <2>1 DEF Records, FilesOK
  <2>3. ASSUME NEW i \in DOMAIN files[k]
        PROVE  \E e \in Entries : e.key = k /\ e.value = files[k][i] /\ Claims(e, thread)
    <3>1. files[k][i] \in ValuesOf(k, FactsOf(thread))
      BY <2>2
    <3> QED
      BY <3>1 DEF ValuesOf, FactsOf
  <2>4. PICK i \in DOMAIN files[k] : TRUE
    <3>1. PICK values : values = files[k]
      OBVIOUS
    <3>2. Len(values) \in Nat \ {0} /\ DOMAIN values = 1..Len(values)
      BY <2>2, <3>1
    <3> QED
      BY <3>1, <3>2
  <2>5. PICK e \in Entries : e.key = k /\ Claims(e, thread)
    BY <2>3, <2>4
  <2>6. k[1] \in Kinds
    BY <2>5 DEF Entries
  <2>7. ASSUME k[1] = "reputation", NEW j \in DOMAIN files[k]
        PROVE  /\ files[k][j].wins = 1 => Said(Msg("AWARD", k[2], k[3]))
               /\ files[k][j].jobs = 1 =>
                     Said(Msg("AWARD", k[2], k[3])) /\ Said(Msg("RELEASED", k[2], NoSeller))
    <3>1. PICK f \in Entries : f.key = k /\ f.value = files[k][j] /\ Claims(f, thread)
      BY <2>3
    <3> QED
      BY <2>7, <3>1 DEF Claims, Said
  <2>8. "profile" \notin Kinds
    BY DEF Kinds
  <2>9. /\ k[1] = "memo" => \E s \in Sellers : Said(Msg("DELIVERED", k[2], s))
        /\ k[1] = "settlement" /\ k[3] = "RELEASED" => Said(Msg("RELEASED", k[2], NoSeller))
        /\ k[1] = "settlement" /\ k[3] = "VERIFIED" =>
              \E v \in {"PASS", "FAIL"} : Said(Msg("VERIFIED", k[2], v))
    BY <2>5 DEF Claims, Said, Verdicts
  <2> QED
    BY <2>6, <2>7, <2>8, <2>9
<1> QED
  BY <1>1, ListedJobsHold DEF RecordsHold

(* What is on record happened: memos, settlements, wins and jobs done, and *)
(* no agent is listed with more jobs than it was paid for, but for         *)
(* restarts.                                                               *)
THEOREM RecordsAreKept == FeedSpec => []RecordsHold
<1>1. FeedInv => RecordsHold
  BY RecordsAreTrue
<1> QED
  BY <1>1, FeedInvariant, PTL

-----------------------------------------------------------------------------
(* The graph of a round.                                                   *)

LEMMA BidsAre ==
    ASSUME NEW r
    PROVE  \A s : s \in ToSet(r.bids) <=> BidBy(r, s)
BY DEF ToSet, BidBy

LEMMA NodesAre ==
    ASSUME NEW n, NEW r, r.want
    PROVE  /\ {<<"session">>, <<n, "request">>, <<"buyer">>, <<"snapshot">>} \subseteq Nodes(n, r)
           /\ \A s : BidBy(r, s) => <<s>> \in Nodes(n, r) /\ <<n, "bid", s>> \in Nodes(n, r)
           /\ r.award # NoSeller => <<n, "winner">> \in Nodes(n, r)
           /\ r.delivered => <<n, "memo">> \in Nodes(n, r)
           /\ r.verified # "none" => <<n, "verification">> \in Nodes(n, r)
           /\ Settling(r) => <<n, "settlement">> \in Nodes(n, r)
<1>1. \A e \in {<<"session">>, <<n, "request">>, <<"buyer">>, <<"snapshot">>} : e \in Nodes(n, r)
  <2> TAKE e \in {<<"session">>, <<n, "request">>, <<"buyer">>, <<"snapshot">>}
  <2>1. e \in Node(r.want, e)
    BY DEF Node
  <2> QED
    BY <2>1 DEF Nodes
<1>2. ASSUME NEW s, BidBy(r, s) PROVE <<s>> \in Nodes(n, r) /\ <<n, "bid", s>> \in Nodes(n, r)
  <2>1. s \in ToSet(r.bids)
    BY <1>2, BidsAre
  <2>2. <<s>> \in {<<s>>, <<n, "bid", s>>} /\ <<n, "bid", s>> \in {<<s>>, <<n, "bid", s>>}
    OBVIOUS
  <2> QED
    BY <2>1, <2>2 DEF Nodes
<1> DEFINE Fixed == UNION {Node(r.want, e) : e \in {<<"session">>, <<n, "request">>, <<"buyer">>,
                                                    <<"snapshot">>}}
           OfBids == UNION {{<<s>>, <<n, "bid", s>>} : s \in ToSet(r.bids)}
<1>3. Nodes(n, r) = Fixed \cup OfBids
                    \cup Node(r.award # NoSeller, <<n, "winner">>)
                    \cup Node(r.delivered, <<n, "memo">>)
                    \cup VerifiedNode(n, r)
                    \cup Node(Settling(r), <<n, "settlement">>)
  BY DEF Nodes
<1> HIDE DEF Fixed, OfBids
<1>4. \A cond, e : cond => e \in Node(cond, e)
  BY DEF Node
<1>5. r.verified # "none" => <<n, "verification">> \in VerifiedNode(n, r)
  BY <1>4 DEF VerifiedNode
<1>6. /\ r.award # NoSeller => <<n, "winner">> \in Nodes(n, r)
      /\ r.delivered => <<n, "memo">> \in Nodes(n, r)
      /\ r.verified # "none" => <<n, "verification">> \in Nodes(n, r)
      /\ Settling(r) => <<n, "settlement">> \in Nodes(n, r)
  BY <1>3, <1>4, <1>5
<1> QED
  BY <1>1, <1>2, <1>6

LEMMA EdgesAre ==
    ASSUME NEW n, NEW r, NEW e \in Edges(n, r)
    PROVE  \/ e \in {<<<<"session">>, <<n, "request">>>>, <<<<n, "request">>, <<"snapshot">>>>,
                     <<<<"buyer">>, <<n, "request">>>>}
           \/ \E s : /\ BidBy(r, s)
                    /\ e \in {<<<<n, "request">>, <<s>>>>, <<<<s>>, <<n, "bid", s>>>>,
                              <<<<n, "bid", s>>, <<n, "request">>>>}
           \/ /\ r.award # NoSeller
              /\ e \in {<<<<"buyer">>, <<n, "winner">>>>, <<<<n, "winner">>, <<r.award>>>>}
           \/ /\ r.delivered
              /\ e \in {<<<<r.award>>, <<n, "memo">>>>, <<<<n, "memo">>, <<n, "request">>>>}
           \/ r.verified # "none" /\ e = <<<<n, "memo">>, <<n, "verification">>>>
           \/ Settling(r) /\ e = <<<<n, "memo">>, <<n, "settlement">>>>
           \/ Settling(r) /\ r.award # NoSeller /\ e = <<<<n, "settlement">>, <<r.award>>>>
<1>1. \A cond, from, to : e \in Edge(cond, from, to) => cond /\ e = <<from, to>>
  BY DEF Edge
<1> DEFINE Fixed == {<<<<"session">>, <<n, "request">>>>, <<<<n, "request">>, <<"snapshot">>>>,
                     <<<<"buyer">>, <<n, "request">>>>}
           OfBid(s) == {<<<<n, "request">>, <<s>>>>, <<<<s>>, <<n, "bid", s>>>>,
                        <<<<n, "bid", s>>, <<n, "request">>>>}
           OfBids == UNION {OfBid(s) : s \in ToSet(r.bids)}
<1>2. Edges(n, r) = Fixed \cup OfBids
                    \cup Edge(r.award # NoSeller, <<"buyer">>, <<n, "winner">>)
                    \cup Edge(r.award # NoSeller, <<n, "winner">>, <<r.award>>)
                    \cup Edge(r.delivered, <<r.award>>, <<n, "memo">>)
                    \cup Edge(r.delivered, <<n, "memo">>, <<n, "request">>)
                    \cup Edge(r.verified # "none", <<n, "memo">>, <<n, "verification">>)
                    \cup Edge(Settling(r), <<n, "memo">>, <<n, "settlement">>)
                    \cup Edge(Settling(r) /\ r.award # NoSeller, <<n, "settlement">>, <<r.award>>)
  BY DEF Edges
<1>3. e \in OfBids => \E s : BidBy(r, s) /\ e \in OfBid(s)
  <2> HIDE DEF OfBid
  <2> QED
    BY BidsAre
<1> HIDE DEF Fixed, OfBid, OfBids
<1>4. \/ e \in Fixed
      \/ e \in OfBids
      \/ e \in Edge(r.award # NoSeller, <<"buyer">>, <<n, "winner">>)
      \/ e \in Edge(r.award # NoSeller, <<n, "winner">>, <<r.award>>)
      \/ e \in Edge(r.delivered, <<r.award>>, <<n, "memo">>)
      \/ e \in Edge(r.delivered, <<n, "memo">>, <<n, "request">>)
      \/ e \in Edge(r.verified # "none", <<n, "memo">>, <<n, "verification">>)
      \/ e \in Edge(Settling(r), <<n, "memo">>, <<n, "settlement">>)
      \/ e \in Edge(Settling(r) /\ r.award # NoSeller, <<n, "settlement">>, <<r.award>>)
  BY <1>2
<1>5. \/ e \in Fixed
      \/ \E s : BidBy(r, s) /\ e \in OfBid(s)
      \/ r.award # NoSeller /\ e = <<<<"buyer">>, <<n, "winner">>>>
      \/ r.award # NoSeller /\ e = <<<<n, "winner">>, <<r.award>>>>
      \/ r.delivered /\ e = <<<<r.award>>, <<n, "memo">>>>
      \/ r.delivered /\ e = <<<<n, "memo">>, <<n, "request">>>>
      \/ r.verified # "none" /\ e = <<<<n, "memo">>, <<n, "verification">>>>
      \/ Settling(r) /\ e = <<<<n, "memo">>, <<n, "settlement">>>>
      \/ Settling(r) /\ r.award # NoSeller /\ e = <<<<n, "settlement">>, <<r.award>>>>
  BY <1>1, <1>3, <1>4, Zenon
<1> QED
  BY <1>5 DEF Fixed, OfBid

LEMMA EdgesClose ==
    ASSUME NEW n, NEW r \in RoundRecords, Ordered(r), NEW e \in Edges(n, r)
    PROVE  \/ e[1] \in Nodes(n, r) /\ e[2] \in Nodes(n, r)
           \/ e = <<<<n, "memo">>, <<n, "settlement">>>> /\ ~r.delivered
<1>1. r.want /\ (r.award # NoSeller => BidBy(r, r.award))
      /\ (r.delivered => r.award # NoSeller) /\ (r.verified # "none" => r.delivered)
  BY DEF Ordered
<1>2. /\ {<<"session">>, <<n, "request">>, <<"buyer">>, <<"snapshot">>} \subseteq Nodes(n, r)
      /\ \A s : BidBy(r, s) => <<s>> \in Nodes(n, r) /\ <<n, "bid", s>> \in Nodes(n, r)
      /\ r.award # NoSeller => <<n, "winner">> \in Nodes(n, r)
      /\ r.delivered => <<n, "memo">> \in Nodes(n, r)
      /\ r.verified # "none" => <<n, "verification">> \in Nodes(n, r)
      /\ Settling(r) => <<n, "settlement">> \in Nodes(n, r)
  BY <1>1, NodesAre
<1>3. r.award # NoSeller => <<r.award>> \in Nodes(n, r)
  BY <1>1, <1>2
<1>4. CASE e \in {<<<<"session">>, <<n, "request">>>>, <<<<n, "request">>, <<"snapshot">>>>,
                  <<<<"buyer">>, <<n, "request">>>>}
  BY <1>2, <1>4
<1>5. ASSUME NEW s, BidBy(r, s),
             e \in {<<<<n, "request">>, <<s>>>>, <<<<s>>, <<n, "bid", s>>>>,
                    <<<<n, "bid", s>>, <<n, "request">>>>}
      PROVE  e[1] \in Nodes(n, r) /\ e[2] \in Nodes(n, r)
  <2>1. /\ <<n, "request">> \in Nodes(n, r)
        /\ <<s>> \in Nodes(n, r) /\ <<n, "bid", s>> \in Nodes(n, r)
    BY <1>2, <1>5
  <2>2. \/ e[1] = <<n, "request">> /\ e[2] = <<s>>
        \/ e[1] = <<s>> /\ e[2] = <<n, "bid", s>>
        \/ e[1] = <<n, "bid", s>> /\ e[2] = <<n, "request">>
    BY <1>5
  <2> QED
    BY <2>1, <2>2
<1>6. CASE r.award # NoSeller /\
             e \in {<<<<"buyer">>, <<n, "winner">>>>, <<<<n, "winner">>, <<r.award>>>>}
  BY <1>2, <1>3, <1>6
<1>7. CASE r.delivered /\
             e \in {<<<<r.award>>, <<n, "memo">>>>, <<<<n, "memo">>, <<n, "request">>>>}
  BY <1>1, <1>2, <1>3, <1>7
<1>8. CASE r.verified # "none" /\ e = <<<<n, "memo">>, <<n, "verification">>>>
  BY <1>1, <1>2, <1>8
<1>9. CASE Settling(r) /\ e = <<<<n, "memo">>, <<n, "settlement">>>>
  BY <1>2, <1>9
<1>10. CASE Settling(r) /\ r.award # NoSeller /\ e = <<<<n, "settlement">>, <<r.award>>>>
  BY <1>2, <1>3, <1>10
<1> QED
  BY <1>4, <1>5, <1>6, <1>7, <1>8, <1>9, <1>10, EdgesAre

LEMMA GraphIsClosed == ASSUME TalkInv PROVE GraphCloses
<1> SUFFICES ASSUME NEW n \in DOMAIN rounds
             PROVE  LET r == rounds[n]
                        missing == {e \in Edges(n, r) : ~({e[1], e[2]} \subseteq Nodes(n, r))}
                    IN /\ r.delivered => missing = {}
                       /\ missing \subseteq {<<<<n, "memo">>, <<n, "settlement">>>>}
  BY DEF GraphCloses
<1>1. rounds[n] \in RoundRecords /\ Ordered(rounds[n])
  BY DEF TalkInv, IsRound
<1>2. PICK r : r = rounds[n]
  OBVIOUS
<1>3. ASSUME NEW e \in Edges(n, r), ~({e[1], e[2]} \subseteq Nodes(n, r))
      PROVE  e = <<<<n, "memo">>, <<n, "settlement">>>> /\ ~r.delivered
  BY <1>1, <1>2, <1>3, EdgesClose
<1> QED
  BY <1>2, <1>3

(* The edges of a delivered round end in nodes that are written, for any   *)
(* sellers and however far the passes are.                                 *)
THEOREM GraphIsWhole == ArchiveSpec => []GraphCloses
<1>1. ArchiveInit => TalkInv
  BY TalkStarts DEF ArchiveInit, FeedInit
<1>2. TalkInv /\ [ArchiveNext]_archiveVars => TalkInv'
  <2> SUFFICES ASSUME TalkInv, [ArchiveNext]_archiveVars PROVE TalkInv'
    OBVIOUS
  <2>1. Talk \/ UNCHANGED talkVars
    BY DEF ArchiveNext, archiveVars, allVars, ArchiveStep, StartPass, Claim, WriteOnce, AppendRecord,
           MirrorAgent, MirrorRow
  <2> QED
    BY <2>1, TalkKeeps, TalkRests
<1>3. TalkInv => GraphCloses
  BY GraphIsClosed
<1> QED
  BY <1>1, <1>2, <1>3, PTL DEF ArchiveSpec

-----------------------------------------------------------------------------
(* The records of a session and their copy.  An archive entry, whatever    *)
(* pass it is in, says what was said when the pass began (ArchiveFacts).   *)

StageNames ==
    {"WANT_BROADCAST", "BIDS_RECEIVED", "WINNER_SELECTED", "SETTLEMENT_INITIATED",
     "MEMO_GENERATED", "VERIFICATION_PASSED", "VERIFICATION_FAILED", "PAYMENT_RELEASED"}
SettlementNames == {"REQUESTED", "DEPOSITED", "VERIFIED", "RELEASED"}

RowColumns ==
    [stage : StageNames, winner : Sellers \cup {Absent},
     settlement : SettlementNames \cup {Absent}, completed : {Absent, "now"}]

(* What the columns of a session say.                                      *)
SessionClaims(row, T) ==
    /\ row.winner # Absent => \E n \in Rounds : Msg("AWARD", n, row.winner) \in T
    /\ row.completed # Absent => \E n \in Rounds : Msg("RELEASED", n, NoSeller) \in T
    /\ row.settlement = "VERIFIED" =>
          \E n \in Rounds, v \in Verdicts : Msg("VERIFIED", n, v) \in T

SessionValues ==
    [stage : StageNames, of : Rounds, read : Nat, winner : Sellers \cup {Absent},
     settlement : SettlementNames \cup {Absent}, completed : {Absent, "now"}]

SessionFacts(T) ==
    {Entry("session", 0, v.stage, v) : v \in {x \in SessionValues : SessionClaims(x, T)}}
RequestFacts == {Entry("request", n, "", [round |-> n]) : n \in Rounds}
AgentFacts ==
    {Entry(kind, n, s, [agent |-> s]) : kind \in {"bid", "reputation"}, n \in Rounds, s \in Sellers}
MemoFacts(T) ==
    {Entry("memo", x[1], "", [agent |-> x[2]]) :
        x \in {y \in Rounds \X Sellers : Msg("AWARD", y[1], y[2]) \in T}}
SettledFacts ==
    {Entry("settlement", n, status, [status |-> status]) : n \in Rounds, status \in SettlementNames}

OtherFacts(T) == RequestFacts \cup AgentFacts \cup MemoFacts(T) \cup SettledFacts
ArchiveFacts(T) == SessionFacts(T) \cup OtherFacts(T)

LEMMA ArchiveFactsStay ==
    ASSUME NEW T, NEW U, T \subseteq U
    PROVE  ArchiveFacts(T) \subseteq ArchiveFacts(U)
<1>1. SessionFacts(T) \subseteq SessionFacts(U)
  <2>1. \A row : SessionClaims(row, T) => SessionClaims(row, U)
    BY DEF SessionClaims
  <2> QED
    BY <2>1 DEF SessionFacts
<1>2. MemoFacts(T) \subseteq MemoFacts(U)
  BY DEF MemoFacts
<1> QED
  BY <1>1, <1>2 DEF ArchiveFacts, OtherFacts

LEMMA SessionFactIs ==
    ASSUME NEW T, NEW e \in SessionFacts(T)
    PROVE  /\ e.value \in SessionValues /\ SessionClaims(e.value, T)
           /\ e.key = <<"session", 0, e.value.stage>>
BY DEF SessionFacts, Entry

LEMMA OtherFactIs ==
    ASSUME NEW T, NEW e \in OtherFacts(T)
    PROVE  LET kind == e.key[1]
               n == e.key[2]
               of == e.key[3]
           IN /\ kind \in {"request", "bid", "reputation", "memo", "settlement"} /\ n \in Rounds
              /\ kind = "request" => e.value = [round |-> n]
              /\ kind \in {"bid", "reputation"} => of \in Sellers /\ e.value = [agent |-> of]
              /\ kind = "memo" =>
                    \E s \in Sellers : e.value = [agent |-> s] /\ Msg("AWARD", n, s) \in T
              /\ kind = "settlement" => of \in SettlementNames /\ e.value = [status |-> of]
<1>1. CASE e \in RequestFacts
  <2>1. PICK n \in Rounds : e = Entry("request", n, "", [round |-> n])
    BY <1>1 DEF RequestFacts
  <2>2. e.key[1] = "request" /\ e.key[2] = n /\ e.value = [round |-> n]
    BY <2>1 DEF Entry
  <2> QED
    BY <2>2
<1>2. CASE e \in AgentFacts
  <2>1. PICK kind \in {"bid", "reputation"}, n \in Rounds, s \in Sellers :
           e = Entry(kind, n, s, [agent |-> s])
    BY <1>2 DEF AgentFacts
  <2>2. e.key[1] = kind /\ e.key[2] = n /\ e.key[3] = s /\ e.value = [agent |-> s]
    BY <2>1, EntryIs
  <2> QED
    BY <2>2
<1>3. CASE e \in MemoFacts(T)
  <2>1. PICK x \in Rounds \X Sellers :
           Msg("AWARD", x[1], x[2]) \in T /\ e = Entry("memo", x[1], "", [agent |-> x[2]])
    BY <1>3 DEF MemoFacts
  <2>2. x[1] \in Rounds /\ x[2] \in Sellers
    BY <2>1
  <2>3. e.key[1] = "memo" /\ e.key[2] = x[1] /\ e.value = [agent |-> x[2]]
    BY <2>1 DEF Entry
  <2> QED
    BY <2>1, <2>2, <2>3
<1>4. CASE e \in SettledFacts
  <2>1. PICK n \in Rounds, status \in SettlementNames :
           e = Entry("settlement", n, status, [status |-> status])
    BY <1>4 DEF SettledFacts
  <2>2. e.key[1] = "settlement" /\ e.key[2] = n /\ e.key[3] = status /\
          e.value = [status |-> status]
    BY <2>1, EntryIs
  <2> QED
    BY <2>2
<1> QED
  BY <1>1, <1>2, <1>3, <1>4 DEF OtherFacts

(* The kinds of entries tell them apart.                                   *)
LEMMA KindOfFact ==
    ASSUME NEW T, NEW e \in ArchiveFacts(T)
    PROVE  /\ e.key[1] = "session" => e \in SessionFacts(T)
           /\ e.key[1] # "session" => e \in OtherFacts(T)
           /\ e.key[1] # "agent"
<1>1. CASE e \in SessionFacts(T)
  <2>1. e.key[1] = "session"
    BY <1>1, SessionFactIs
  <2> QED
    BY <1>1, <2>1
<1>2. CASE e \in OtherFacts(T)
  <2>1. e.key[1] \in {"request", "bid", "reputation", "memo", "settlement"}
    BY <1>2, OtherFactIs
  <2> QED
    BY <1>2, <2>1
<1> QED
  BY <1>1, <1>2 DEF ArchiveFacts

(* But for a session's, what a key holds is fixed: one seller is awarded a *)
(* round.                                                                  *)
LEMMA ValueIsFixed ==
    ASSUME TalkInv, NEW e \in OtherFacts(thread), NEW f \in OtherFacts(thread), e.key = f.key
    PROVE  e.value = f.value
<1>1. ASSUME NEW n \in Rounds, NEW s \in Sellers, NEW t \in Sellers,
             Msg("AWARD", n, s) \in thread, Msg("AWARD", n, t) \in thread
      PROVE  s = t
  <2>1. n \in 1..asked
    BY <1>1, MsgIs DEF TalkInv
  <2>2. Hears(rounds[n], n, thread)
    BY <2>1 DEF TalkInv, IsRound
  <2> QED
    BY <1>1, <2>2 DEF Hears
<1>2. PICK kind, n, of : kind = e.key[1] /\ n = e.key[2] /\ of = e.key[3]
  OBVIOUS
<1>3. /\ kind \in {"request", "bid", "reputation", "memo", "settlement"} /\ n \in Rounds
      /\ kind = "request" => e.value = [round |-> n] /\ f.value = [round |-> n]
      /\ kind \in {"bid", "reputation"} => e.value = [agent |-> of] /\ f.value = [agent |-> of]
      /\ kind = "settlement" => e.value = [status |-> of] /\ f.value = [status |-> of]
  BY <1>2, OtherFactIs
<1>4. CASE kind = "memo"
  <2>1. PICK s \in Sellers : e.value = [agent |-> s] /\ Msg("AWARD", n, s) \in thread
    BY <1>2, <1>4, OtherFactIs
  <2>2. PICK t \in Sellers : f.value = [agent |-> t] /\ Msg("AWARD", n, t) \in thread
    BY <1>2, <1>4, OtherFactIs
  <2> QED
    BY <1>1, <1>3, <2>1, <2>2
<1> QED
  BY <1>3, <1>4

-----------------------------------------------------------------------------
(* What a pass records.                                                    *)

LEMMA ReadAtIs ==
    ASSUME IsFiniteSet(thread)
    PROVE  ReadAt \in Nat
BY FS_CardinalityType DEF ReadAt

LEMMA ThreadGrows ==
    ASSUME Talk
    PROVE  thread' = thread \/ \E m : thread' = thread \cup {m}
BY DEF Talk, Ask, Deposit, Verify, Release, MoveOn, Award, Bid, SendTerms, Deliver, Answer, Buyer,
   Say

LEMMA SessionIsRecorded ==
    ASSUME NEW n \in Rounds, NEW r, IsRound(r, n, thread), IsFiniteSet(thread)
    PROVE  SessionEntry(n, r) \in SessionFacts(thread)
<1>1. r \in RoundRecords /\ Ordered(r) /\ Hears(r, n, thread)
  BY DEF IsRound
<1>2. PICK at, settlement : at = RecordedStage(r) /\ settlement = SettlementStatus(r)
  OBVIOUS
<1>3. at \in StageNames
  BY <1>1, <1>2, RecordedStageIs DEF RecordedPlace, RecordedNames, StageNames
<1>4. settlement = IF r.release THEN "RELEASED"
                   ELSE IF r.verified # "none" THEN "VERIFIED"
                   ELSE IF r.deposit THEN "DEPOSITED"
                   ELSE IF r.escrow THEN "REQUESTED" ELSE "none"
  BY <1>1, <1>2, SettlementStatusIs
<1>5. PICK v : v = [stage |-> at, of |-> n, read |-> ReadAt,
                    winner |-> Column(r.award # NoSeller, r.award),
                    settlement |-> Column(settlement # "none", settlement),
                    completed |-> Column(Completed(r), "now")]
  OBVIOUS
<1>6. v \in SessionValues
  <2>1. Column(r.award # NoSeller, r.award) \in Sellers \cup {Absent}
    BY <1>1 DEF Column, RoundRecords
  <2>2. Column(settlement # "none", settlement) \in SettlementNames \cup {Absent}
    BY <1>4 DEF Column, SettlementNames
  <2>3. Column(Completed(r), "now") \in {Absent, "now"}
    BY DEF Column
  <2> QED
    BY <1>3, <1>5, <2>1, <2>2, <2>3, ReadAtIs DEF SessionValues
<1>7. SessionClaims(v, thread)
  <2>1. ASSUME v.winner # Absent PROVE \E m \in Rounds : Msg("AWARD", m, v.winner) \in thread
    <3>1. v.winner = r.award /\ r.award \in Sellers
      BY <1>1, <1>5, <2>1 DEF Column, RoundRecords
    <3> QED
      BY <1>1, <3>1 DEF Hears
  <2>2. ASSUME v.completed # Absent PROVE \E m \in Rounds : Msg("RELEASED", m, NoSeller) \in thread
    <3>1. r.release
      BY <1>1, <1>5, <2>2 DEF Column, Completed, RoundRecords
    <3> QED
      BY <1>1, <3>1 DEF Hears
  <2>3. ASSUME v.settlement = "VERIFIED"
        PROVE  \E m \in Rounds, x \in Verdicts : Msg("VERIFIED", m, x) \in thread
    <3>1. r.verified # "none"
      BY <1>4, <1>5, <2>3 DEF Column, Absent
    <3>2. r.verified \in Verdicts
      BY <1>1, <3>1 DEF RoundRecords
    <3> QED
      BY <1>1, <3>2 DEF Hears
  <2> QED
    BY <2>1, <2>2, <2>3 DEF SessionClaims
<1>8. v.stage = at
  BY <1>5
<1>9. SessionEntry(n, r) = Entry("session", 0, v.stage, v)
  BY <1>2, <1>5, <1>8 DEF SessionEntry
<1> QED
  BY <1>6, <1>7, <1>9 DEF SessionFacts

LEMMA RoundIsArchived ==
    ASSUME NEW n \in Rounds, NEW r, IsRound(r, n, thread),
           NEW A, SessionEntry(n, r) \in A, OtherFacts(thread) \subseteq A
    PROVE  ArchiveEntries(n, r) \in Seq(A)
<1>1. r \in RoundRecords /\ Ordered(r) /\ Hears(r, n, thread)
  BY DEF IsRound
<1>3. /\ RequestFacts \subseteq A /\ AgentFacts \subseteq A
      /\ MemoFacts(thread) \subseteq A /\ SettledFacts \subseteq A
  BY DEF OtherFacts
<1>4. If(r.want, SessionEntry(n, r)) \in Seq(A)
  <2>1. SessionEntry(n, r) \in A /\ r.want \in BOOLEAN
    BY <1>1 DEF RoundRecords
  <2> QED
    BY <2>1, IfIs
<1>5. If(r.want, Entry("request", n, "", [round |-> n])) \in Seq(A)
  <2>1. Entry("request", n, "", [round |-> n]) \in A /\ r.want \in BOOLEAN
    BY <1>1, <1>3 DEF RequestFacts, RoundRecords
  <2> QED
    BY <2>1, IfIs
<1>6. ASSUME NEW kind \in {"bid", "reputation"} PROVE Each(r, kind, n) \in Seq(A)
  <2>1. PICK bids : bids = r.bids
    OBVIOUS
  <2>2. bids \in Seq(Sellers)
    BY <1>1, <2>1 DEF RoundRecords
  <2>3. Len(bids) \in Nat /\ DOMAIN bids = 1..Len(bids) /\
          \A i \in DOMAIN bids : bids[i] \in Sellers
    BY <2>2
  <2>4. Each(r, kind, n) = [i \in 1..Len(bids) |-> AgentEntry(kind, n, bids[i])]
    BY <2>1, <2>3 DEF Each
  <2>5. ASSUME NEW s \in Sellers PROVE AgentEntry(kind, n, s) \in A
    <3>1. Entry(kind, n, s, [agent |-> s]) \in AgentFacts
      BY DEF AgentFacts
    <3> QED
      BY <1>3, <3>1 DEF AgentEntry
  <2>6. Each(r, kind, n) \in [1..Len(bids) -> A]
    BY <2>3, <2>4, <2>5
  <2> QED
    BY <2>3, <2>6
<1>7. If(r.delivered, MemoEntry(n, r)) \in Seq(A)
  <2>1. r.delivered \in BOOLEAN
    BY <1>1 DEF RoundRecords
  <2>2. ASSUME r.delivered PROVE MemoEntry(n, r) \in A
    <3>1. r.award # NoSeller /\ r.award \in Sellers
      BY <1>1, <2>2 DEF Ordered, RoundRecords
    <3>2. Msg("AWARD", n, r.award) \in thread
      BY <1>1, <3>1 DEF Hears
    <3>3. PICK x : x = <<n, r.award>>
      OBVIOUS
    <3>4. x \in Rounds \X Sellers /\ x[1] = n /\ x[2] = r.award
      BY <3>1, <3>3
    <3>5. MemoEntry(n, r) = Entry("memo", x[1], "", [agent |-> x[2]])
      BY <3>1, <3>4 DEF MemoEntry, Column
    <3>6. MemoEntry(n, r) \in MemoFacts(thread)
      BY <3>2, <3>4, <3>5 DEF MemoFacts
    <3> QED
      BY <1>3, <3>6
  <2> QED
    BY <2>1, <2>2, IfIs
<1>8. If(SettlementStatus(r) # "none", SettledEntry(n, r)) \in Seq(A)
  <2>1. PICK status : status = SettlementStatus(r)
    OBVIOUS
  <2>2. status # "none" => status \in SettlementNames
    BY <1>1, <2>1, SettlementStatusIs DEF SettlementNames
  <2>3. SettledEntry(n, r) = Entry("settlement", n, status, [status |-> status])
    BY <2>1 DEF SettledEntry
  <2>4. status # "none" => SettledEntry(n, r) \in A
    BY <1>3, <2>2, <2>3 DEF SettledFacts
  <2>5. (SettlementStatus(r) # "none") \in BOOLEAN
    OBVIOUS
  <2> QED
    BY <2>1, <2>4, <2>5, IfIs
<1>9. PICK a, b, c, d, e, f :
         /\ a = If(r.want, SessionEntry(n, r))
         /\ b = If(r.want, Entry("request", n, "", [round |-> n]))
         /\ c = Each(r, "bid", n)
         /\ d = If(r.delivered, MemoEntry(n, r))
         /\ e = If(SettlementStatus(r) # "none", SettledEntry(n, r))
         /\ f = Each(r, "reputation", n)
  OBVIOUS
<1>10. ArchiveEntries(n, r) = a \o b \o c \o d \o e \o f
  BY <1>9 DEF ArchiveEntries
<1>11. a \in Seq(A) /\ b \in Seq(A) /\ c \in Seq(A) /\ d \in Seq(A) /\ e \in Seq(A) /\ f \in Seq(A)
  BY <1>4, <1>5, <1>6, <1>7, <1>8, <1>9
<1>12. a \o b \o c \in Seq(A)
  BY <1>11
<1>13. (a \o b \o c) \o d \in Seq(A)
  BY <1>11, <1>12
<1>14. ((a \o b \o c) \o d) \o e \in Seq(A)
  BY <1>11, <1>13
<1>15. (((a \o b \o c) \o d) \o e) \o f \in Seq(A)
  BY <1>11, <1>14
<1> QED
  BY <1>10, <1>15

LEMMA ArchivePassIsTrue ==
    ASSUME TalkInv, NEW A, OtherFacts(thread) \subseteq A,
           \A n \in Rounds : n \in DOMAIN rounds => SessionEntry(n, rounds[n]) \in A
    PROVE  ArchivePass \in Seq(A)
<1> DEFINE lists == [n \in 1..MaxRounds |->
                       IF n \in DOMAIN rounds THEN ArchiveEntries(n, rounds[n]) ELSE <<>>]
<1>1. ASSUME NEW n \in 1..MaxRounds PROVE lists[n] \in Seq(A)
  <2>1. CASE n \in DOMAIN rounds
    <3>1. IsRound(rounds[n], n, thread) /\ n \in Rounds
      BY <2>1 DEF TalkInv, Rounds
    <3> QED
      BY <2>1, <3>1, RoundIsArchived
  <2>2. CASE n \notin DOMAIN rounds
    BY <2>2
  <2> QED
    BY <2>1, <2>2
<1>2. lists \in [1..MaxRounds -> Seq(A)]
  BY <1>1
<1>3. ArchivePass = FlattenSeq(lists)
  BY DEF ArchivePass
<1>4. MaxRounds \in Nat
  BY TranscriptAssumption
<1> HIDE DEF lists
<1> QED
  BY <1>2, <1>3, <1>4, FlattenSeqType

-----------------------------------------------------------------------------
(* The mirror: whoever puts a row has its record on file, and the row of   *)
(* the agent that comes first.  A row says what happened; but for the      *)
(* session's, it is the record on file.                                    *)

OnFile(k, value) == \E i \in DOMAIN Records(k) : Records(k)[i] = value

MirrorOK ==
    /\ mirroring \in [Polls -> {"no", "before", "row"}]
    /\ faults \in Nat
    /\ \A p \in Polls : mirroring[p] # "no" =>
          /\ ~writing[p] /\ todo[p] # <<>>
          /\ OnFile(Head(todo[p]).key, Head(todo[p]).value)
    /\ \A p \in Polls : mirroring[p] = "row" /\ Before(Head(todo[p])) # Absent =>
          AgentRow(Before(Head(todo[p]))) \in DOMAIN tables

SessionKey == <<"session", 0, "">>

SessionRowOK(row) ==
    /\ row \in RowColumns
    /\ SessionClaims(row, thread)
    /\ Records(<<"session", 0, row.stage>>) # <<>>

RowOK(k) ==
    \/ k[1] = "agent"
    \/ k = SessionKey /\ SessionRowOK(tables[k])
    \/ /\ k[1] # "session"
       /\ [key |-> k, value |-> tables[k]] \in OtherFacts(thread)
       /\ OnFile(k, tables[k])

ArchiveInv ==
    /\ TalkInv
    /\ IsFiniteSet(thread)
    /\ QueuesOK(ArchiveFacts(thread))
    /\ FilesOK(ArchiveFacts(thread))
    /\ MirrorOK
    /\ \A k \in DOMAIN tables : RowOK(k)

LEMMA ArchiveTalkKeeps ==
    ASSUME ArchiveInv, [Talk]_talkVars, UNCHANGED <<feedVars, mirrorVars>>
    PROVE  ArchiveInv'
<1>1. /\ seen' = seen /\ todo' = todo /\ writing' = writing /\ files' = files
      /\ faults' = faults /\ tables' = tables /\ mirroring' = mirroring
  BY DEF feedVars, mirrorVars
<1>2. TalkInv' /\ thread \subseteq thread'
  BY TalkKeeps, TalkRests DEF ArchiveInv
<1>3. IsFiniteSet(thread')
  <2>1. thread' = thread \/ \E m : thread' = thread \cup {m}
    BY ThreadGrows DEF talkVars
  <2> QED
    BY <2>1, FS_AddElement DEF ArchiveInv
<1>4. PICK A, B : A = ArchiveFacts(thread) /\ B = ArchiveFacts(thread')
  OBVIOUS
<1>5. A \subseteq B
  BY <1>2, <1>4, ArchiveFactsStay
<1>6. QueuesOK(B) /\ FilesOK(B)
  BY <1>4, <1>5, QueuesStay, FilesStay DEF ArchiveInv
<1>7. QueuesOK(B)'
  BY <1>1, <1>6 DEF QueuesOK
<1>8. FilesOK(B)'
  BY <1>1, <1>6 DEF FilesOK
<1>9. ArchiveFacts(thread)' = B
  BY <1>4 DEF ArchiveFacts, SessionFacts, SessionClaims, OtherFacts, MemoFacts
<1>10. MirrorOK'
  BY <1>1 DEF ArchiveInv, MirrorOK, OnFile, Records
<1>11. ASSUME NEW k \in DOMAIN tables' PROVE RowOK(k)'
  <2>1. RowOK(k)
    BY <1>1, <1>11 DEF ArchiveInv
  <2>2. \A row : SessionClaims(row, thread) => SessionClaims(row, thread')
    BY <1>2 DEF SessionClaims
  <2>3. SessionRowOK(tables[k]) => SessionRowOK(tables[k])'
    BY <1>1, <2>2 DEF SessionRowOK, SessionClaims, Records
  <2>4. OtherFacts(thread) \subseteq OtherFacts(thread)'
    BY <1>2 DEF OtherFacts, MemoFacts
  <2> QED
    BY <1>1, <2>1, <2>3, <2>4 DEF RowOK, OnFile, Records
<1> QED
  BY <1>2, <1>3, <1>7, <1>8, <1>9, <1>10, <1>11 DEF ArchiveInv, QueuesOK, FilesOK

(* The passes go on: their queues and the files hold what they held, and   *)
(* what a new pass is made of.                                             *)
LEMMA PassesGo ==
    ASSUME NEW A, QueuesOK(A), FilesOK(A), MirrorOK, NEW p \in Polls, ArchiveStep(p),
           ArchivePass \in Seq(A)
    PROVE  QueuesOK(A)' /\ FilesOK(A)' /\ \A k, value : OnFile(k, value) => OnFile(k, value)'
<1> DEFINE Goal == /\ QueuesOK(A)' /\ FilesOK(A)'
                   /\ \A k, value : OnFile(k, value) => OnFile(k, value)'
<1>1. /\ todo \in [Polls -> Seq(A)] /\ writing \in [Polls -> BOOLEAN]
      /\ \A q \in Polls : writing[q] => todo[q] # <<>>
      /\ \A q \in Polls : mirroring[q] # "no" => ~writing[q] /\ todo[q] # <<>>
  BY DEF QueuesOK, MirrorOK
<1>2. files' = files => FilesOK(A)' /\ \A k, value : OnFile(k, value) => OnFile(k, value)'
  BY DEF FilesOK, OnFile, Records
<1>3. todo[p] # <<>> => Head(todo[p]) \in A /\ Tail(todo[p]) \in Seq(A)
  <2>1. PICK list : list = todo[p]
    OBVIOUS
  <2>2. list \in Seq(A)
    BY <1>1, <2>1
  <2> QED
    BY <2>1, <2>2, HeadTailProperties
<1>4. ASSUME StartPass(p) PROVE Goal
  <2>1. /\ todo[p] = <<>> /\ todo' = [todo EXCEPT ![p] = ArchivePass]
        /\ seen' = seen /\ writing' = writing /\ files' = files
    BY <1>4 DEF StartPass
  <2>2. ~writing[p]
    BY <1>1, <2>1
  <2> QED
    BY <1>2, <2>1, <2>2, PassQueues
<1>5. ASSUME Claim(p) PROVE Goal
  <2>1. WriteOnce(p) /\ files' = files
    BY <1>5 DEF Claim, WriteOnce
  <2> QED
    BY <1>2, <2>1, WriteOnceQueues
<1>6. ASSUME AppendRecord(p) PROVE Goal
  <2>1. PICK entry : entry = Head(todo[p])
    OBVIOUS
  <2>2. /\ writing[p] /\ writing' = [writing EXCEPT ![p] = FALSE] /\ Put(entry)
        /\ seen' = seen /\ todo' = todo
    BY <1>6, <2>1 DEF AppendRecord
  <2>3. entry \in A
    BY <1>1, <1>3, <2>1, <2>2
  <2>4. QueuesOK(A)'
    <3>1. todo' = [todo EXCEPT ![p] = todo[p]] /\ todo[p] \in Seq(A)
      BY <1>1, <2>2
    <3> QED
      BY <2>2, <3>1, PassQueues
  <2>5. /\ FilesOK(A)'
        /\ DOMAIN files' = DOMAIN files \cup {entry.key}
        /\ files'[entry.key] = Append(Records(entry.key), entry.value)
        /\ \A k \in DOMAIN files : k # entry.key => files'[k] = files[k]
    BY <2>2, <2>3, PutIs
  <2>6. /\ \A k : k # entry.key => Records(k)' = Records(k)
        /\ Records(entry.key)' = Append(Records(entry.key), entry.value)
    BY <2>5 DEF Records
  <2>7. \A value : OnFile(entry.key, value) => OnFile(entry.key, value)'
    <3>1. PICK values, old : values = Records(entry.key)' /\ old = Records(entry.key)
      OBVIOUS
    <3>2. old \in Seq(ValuesOf(entry.key, A)) /\ values = Append(old, entry.value)
      BY <2>6, <3>1, RecordsAre
    <3>3. /\ Len(old) \in Nat /\ DOMAIN old = 1..Len(old) /\ DOMAIN values = 1..(Len(old) + 1)
          /\ \A i \in 1..Len(old) : values[i] = old[i]
      BY <3>2
    <3>4. \A value : OnFile(entry.key, value) <=> \E i \in DOMAIN old : old[i] = value
      BY <3>1 DEF OnFile
    <3>5. \A value : OnFile(entry.key, value)' <=> \E i \in DOMAIN values : values[i] = value
      BY <3>1 DEF OnFile
    <3>6. \A i \in DOMAIN old : i \in DOMAIN values
      BY <3>3
    <3> QED
      BY <3>3, <3>4, <3>5, <3>6
  <2>8. \A k, value : OnFile(k, value) => OnFile(k, value)'
    BY <2>6, <2>7 DEF OnFile
  <2> QED
    BY <2>4, <2>5, <2>8
<1>7. ASSUME MirrorAgent(p) \/ MirrorRow(p) PROVE Goal
  <2>1. /\ mirroring[p] # "no" /\ seen' = seen /\ writing' = writing /\ files' = files
        /\ todo' = todo \/ todo' = [todo EXCEPT ![p] = Tail(todo[p])]
    BY <1>7 DEF MirrorAgent, MirrorRow, MirrorFails, Mirrored
  <2>2. PICK left : left = IF todo' = todo THEN todo[p] ELSE Tail(todo[p])
    OBVIOUS
  <2>3. left \in Seq(A) /\ todo' = [todo EXCEPT ![p] = left] /\ ~writing[p]
    BY <1>1, <1>3, <2>1, <2>2
  <2> QED
    BY <1>2, <2>1, <2>3, PassQueues
<1> QED
  BY <1>4, <1>5, <1>6, <1>7 DEF ArchiveStep

(* So a pass keeps the invariant when it keeps the mirror and its rows.    *)
LEMMA ArchiveKept ==
    ASSUME ArchiveInv, NEW p \in Polls, ArchiveStep(p), UNCHANGED talkVars, MirrorOK',
           \A k \in DOMAIN tables' : RowOK(k)'
    PROVE  ArchiveInv'
<1>1. thread' = thread
  BY DEF talkVars
<1>2. PICK A : A = ArchiveFacts(thread)
  OBVIOUS
<1>3. ArchiveFacts(thread)' = A
  BY <1>1, <1>2 DEF ArchiveFacts, SessionFacts, SessionClaims, OtherFacts, MemoFacts
<1>4. TalkInv'
  BY TalkRests DEF ArchiveInv
<1>5. ArchivePass \in Seq(A)
  <2>1. \A n \in Rounds : n \in DOMAIN rounds => SessionEntry(n, rounds[n]) \in A
    BY <1>2, SessionIsRecorded DEF ArchiveInv, TalkInv, ArchiveFacts
  <2>2. OtherFacts(thread) \subseteq A
    BY <1>2 DEF ArchiveFacts
  <2> QED
    BY <2>1, <2>2, ArchivePassIsTrue DEF ArchiveInv
<1>6. QueuesOK(A)' /\ FilesOK(A)'
  BY <1>2, <1>5, PassesGo DEF ArchiveInv
<1> QED
  BY <1>1, <1>3, <1>4, <1>6 DEF ArchiveInv, QueuesOK, FilesOK

(* Rows stay as true as they were while the files keep what they hold.     *)
LEMMA RowsStay ==
    ASSUME ArchiveInv, thread' = thread, tables' = tables,
           \A k, value : OnFile(k, value) => OnFile(k, value)',
           \A k : Records(k) # <<>> => Records(k)' # <<>>
    PROVE  \A k \in DOMAIN tables' : RowOK(k)'
<1> SUFFICES ASSUME NEW k \in DOMAIN tables' PROVE RowOK(k)'
  OBVIOUS
<1>1. RowOK(k)
  BY DEF ArchiveInv
<1>2. SessionRowOK(tables[k]) => SessionRowOK(tables[k])'
  BY DEF SessionRowOK, SessionClaims
<1>3. OtherFacts(thread)' = OtherFacts(thread)
  BY DEF OtherFacts, MemoFacts
<1> QED
  BY <1>1, <1>2, <1>3 DEF RowOK

LEMMA StartPassKeeps ==
    ASSUME ArchiveInv, NEW p \in Polls, StartPass(p)
    PROVE  ArchiveInv'
<1>1. /\ todo[p] = <<>> /\ todo' = [todo EXCEPT ![p] = ArchivePass] /\ UNCHANGED talkVars
      /\ thread' = thread /\ seen' = seen /\ writing' = writing /\ files' = files
      /\ faults' = faults /\ tables' = tables /\ mirroring' = mirroring
  BY DEF StartPass, talkVars, mirrorVars
<1>2. PICK A : A = ArchiveFacts(thread)
  OBVIOUS
<1>3. QueuesOK(A) /\ MirrorOK
  BY <1>2 DEF ArchiveInv
<1>5. todo \in [Polls -> Seq(A)]
  BY <1>3 DEF QueuesOK
<1>8. MirrorOK'
  <2>1. mirroring[p] = "no"
    BY <1>1, <1>3 DEF MirrorOK
  <2>2. \A q \in Polls : mirroring[q] # "no" => todo'[q] = todo[q]
    BY <1>1, <1>5, <2>1
  <2>3. \A k, value : OnFile(k, value)' = OnFile(k, value)
    BY <1>1 DEF OnFile, Records
  <2>4. mirroring' = mirroring /\ writing' = writing /\ tables' = tables /\ faults' = faults
    BY <1>1
  <2> QED
    BY <1>3, <2>2, <2>3, <2>4 DEF MirrorOK
<1>9. \A k \in DOMAIN tables' : RowOK(k)'
  BY <1>1, RowsStay DEF OnFile, Records
<1> QED
  BY <1>1, <1>8, <1>9, ArchiveKept DEF ArchiveStep

LEMMA ClaimKeeps ==
    ASSUME ArchiveInv, NEW p \in Polls, Claim(p)
    PROVE  ArchiveInv'
<1>1. /\ mirroring[p] = "no" /\ WriteOnce(p) /\ UNCHANGED talkVars
      /\ thread' = thread /\ files' = files
      /\ faults' = faults /\ tables' = tables /\ mirroring' = mirroring
  BY DEF Claim, WriteOnce, talkVars, mirrorVars
<1>2. PICK A : A = ArchiveFacts(thread)
  OBVIOUS
<1>3. QueuesOK(A) /\ FilesOK(A) /\ MirrorOK
  BY <1>2 DEF ArchiveInv
<1>6. todo \in [Polls -> Seq(A)] /\ writing \in [Polls -> BOOLEAN]
  BY <1>3 DEF QueuesOK
<1>7. PICK left \in Seq(A) :
             /\ todo' = [todo EXCEPT ![p] = left]
             /\ writing' = writing \/ writing' = [writing EXCEPT ![p] = TRUE]
  BY <1>1, <1>6, WriteOnceIs
<1>8. MirrorOK'
  <2>1. \A q \in Polls : mirroring[q] # "no" => todo'[q] = todo[q] /\ writing'[q] = writing[q]
    BY <1>1, <1>6, <1>7
  <2>2. \A k, value : OnFile(k, value)' = OnFile(k, value)
    BY <1>1 DEF OnFile, Records
  <2>3. mirroring' = mirroring /\ tables' = tables /\ faults' = faults
    BY <1>1
  <2> QED
    BY <1>3, <2>1, <2>2, <2>3 DEF MirrorOK
<1>9. \A k \in DOMAIN tables' : RowOK(k)'
  BY <1>1, RowsStay DEF OnFile, Records
<1> QED
  BY <1>1, <1>8, <1>9, ArchiveKept DEF ArchiveStep

LEMMA AppendRecordKeeps ==
    ASSUME ArchiveInv, NEW p \in Polls, AppendRecord(p)
    PROVE  ArchiveInv'
<1>0. PICK entry, next : /\ entry = Head(todo[p])
                        /\ next = IF Before(Head(todo[p])) = Absent THEN "row" ELSE "before"
  OBVIOUS
<1>1. /\ writing[p] /\ writing' = [writing EXCEPT ![p] = FALSE]
      /\ mirroring' = [mirroring EXCEPT ![p] = next] /\ Put(entry) /\ UNCHANGED talkVars
      /\ thread' = thread /\ seen' = seen /\ todo' = todo
      /\ faults' = faults /\ tables' = tables
  BY <1>0 DEF AppendRecord, talkVars
<1>2. PICK A : A = ArchiveFacts(thread)
  OBVIOUS
<1>3. QueuesOK(A) /\ FilesOK(A) /\ MirrorOK
  BY <1>2 DEF ArchiveInv
<1>4. /\ todo \in [Polls -> Seq(A)] /\ writing \in [Polls -> BOOLEAN] /\ todo[p] # <<>>
      /\ mirroring \in [Polls -> {"no", "before", "row"}]
  BY <1>1, <1>3 DEF QueuesOK, MirrorOK
<1>5. entry \in A
  <2>1. PICK list : list = todo[p]
    OBVIOUS
  <2>2. list \in Seq(A) /\ list # <<>>
    BY <1>4, <2>1
  <2> QED
    BY <1>0, <2>1, <2>2, HeadTailProperties
<1>7. /\ FilesOK(A)'
      /\ DOMAIN files' = DOMAIN files \cup {entry.key}
      /\ files'[entry.key] = Append(Records(entry.key), entry.value)
      /\ \A k \in DOMAIN files : k # entry.key => files'[k] = files[k]
  BY <1>1, <1>3, <1>5, PutIs
<1>8. /\ \A k : k # entry.key => Records(k)' = Records(k)
      /\ Records(entry.key)' = Append(Records(entry.key), entry.value)
  BY <1>7 DEF Records
<1>9. /\ OnFile(entry.key, entry.value)'
      /\ Records(entry.key)' # <<>>
  <2>1. PICK values, old : values = Records(entry.key)' /\ old = Records(entry.key)
    OBVIOUS
  <2>2. old \in Seq(ValuesOf(entry.key, A)) /\ values = Append(old, entry.value)
    BY <1>3, <1>8, <2>1, RecordsAre
  <2>3. /\ Len(old) \in Nat /\ DOMAIN values = 1..(Len(old) + 1)
        /\ values[Len(old) + 1] = entry.value
    BY <2>2
  <2>5. \A value : OnFile(entry.key, value)' <=> \E i \in DOMAIN values : values[i] = value
    BY <2>1 DEF OnFile
  <2>6. Len(old) + 1 \in DOMAIN values
    BY <2>3
  <2>7. values # <<>>
    BY <2>6
  <2> QED
    BY <2>1, <2>3, <2>5, <2>6, <2>7
<1>10. \A k, value : OnFile(k, value) => OnFile(k, value)'
  <2>1. ArchivePass \in Seq(A)
    <3>1. \A n \in Rounds : n \in DOMAIN rounds => SessionEntry(n, rounds[n]) \in A
      BY <1>2, SessionIsRecorded DEF ArchiveInv, TalkInv, ArchiveFacts
    <3> QED
      BY <1>2, <3>1, ArchivePassIsTrue DEF ArchiveInv, ArchiveFacts
  <2> QED
    BY <1>3, <2>1, PassesGo DEF ArchiveStep
<1>11. MirrorOK'
  <2>1. /\ mirroring' \in [Polls -> {"no", "before", "row"}] /\ ~writing'[p]
        /\ mirroring'[p] = next
        /\ \A q \in Polls : q # p => mirroring'[q] = mirroring[q] /\ writing'[q] = writing[q]
    BY <1>0, <1>1, <1>4
  <2>2. /\ todo' = todo /\ tables' = tables /\ faults' = faults
    BY <1>1
  <2>3. ASSUME NEW q \in Polls, mirroring'[q] # "no"
        PROVE  ~writing'[q] /\ todo'[q] # <<>> /\ OnFile(Head(todo[q]).key, Head(todo[q]).value)'
    <3>0. PICK head : head = Head(todo[q])
      OBVIOUS
    <3>1. ~writing'[q] /\ todo[q] # <<>> /\ OnFile(head.key, head.value)'
      <4>1. CASE q = p
        BY <1>0, <1>4, <1>9, <2>1, <3>0, <4>1
      <4>2. CASE q # p
        <5>1. ~writing[q] /\ todo[q] # <<>> /\ OnFile(head.key, head.value)
          BY <1>3, <2>1, <2>3, <3>0, <4>2 DEF MirrorOK
        <5> QED
          BY <1>10, <2>1, <4>2, <5>1
      <4> QED
        BY <4>1, <4>2
    <3>2. OnFile(Head(todo[q]).key, Head(todo[q]).value)'
      BY <2>2, <3>0, <3>1 DEF OnFile, Records
    <3> QED
      BY <2>2, <3>1, <3>2
  <2>4. ASSUME NEW q \in Polls, mirroring'[q] = "row", Before(Head(todo'[q])) # Absent
        PROVE  AgentRow(Before(Head(todo'[q]))) \in DOMAIN tables'
    <3>1. q # p
      BY <1>0, <2>1, <2>2, <2>4
    <3> QED
      BY <1>3, <2>1, <2>2, <2>4, <3>1 DEF MirrorOK
  <2> QED
    BY <1>3, <2>1, <2>2, <2>3, <2>4 DEF MirrorOK
<1>12. \A k : Records(k) # <<>> => Records(k)' # <<>>
  BY <1>8, <1>9
<1>13. \A k \in DOMAIN tables' : RowOK(k)'
  BY <1>1, <1>10, <1>12, RowsStay
<1> QED
  BY <1>1, <1>11, <1>13, ArchiveKept DEF ArchiveStep
LEMMA UpsertIs ==
    ASSUME NEW k, NEW row, Upsert(k, row)
    PROVE  /\ DOMAIN tables' = DOMAIN tables \cup {k}
           /\ \A j \in DOMAIN tables : j # k => tables'[j] = tables[j]
           /\ tables'[k] = IF k \in DOMAIN tables THEN Merge(tables[k], row) ELSE row
BY DEF Upsert, With

(* A pass that is done with the mirror of a record goes on.                *)
LEMMA MirroredKeeps ==
    ASSUME ArchiveInv, NEW p \in Polls, mirroring[p] # "no", Mirrored(p),
           thread' = thread, seen' = seen, writing' = writing, files' = files, faults' \in Nat,
           DOMAIN tables \subseteq DOMAIN tables'
    PROVE  MirrorOK'
<1>1. QueuesOK(ArchiveFacts(thread)) /\ MirrorOK
  BY DEF ArchiveInv
<1>2. /\ todo \in [Polls -> Seq(ArchiveFacts(thread))]
      /\ mirroring \in [Polls -> {"no", "before", "row"}]
  BY <1>1 DEF QueuesOK, MirrorOK
<1>3. PICK left : left = Tail(todo[p])
  OBVIOUS
<1>5. todo' = [todo EXCEPT ![p] = left] /\ mirroring' = [mirroring EXCEPT ![p] = "no"]
  BY <1>3 DEF Mirrored
<1>8. /\ mirroring' \in [Polls -> {"no", "before", "row"}] /\ mirroring'[p] = "no"
      /\ \A q \in Polls : q # p => todo'[q] = todo[q] /\ mirroring'[q] = mirroring[q]
  BY <1>2, <1>5
<1>9. \A k, value : OnFile(k, value)' = OnFile(k, value)
  BY DEF OnFile, Records
<1>10. \A q \in Polls : mirroring'[q] # "no" => q # p /\ todo'[q] = todo[q] /\
         mirroring'[q] = mirroring[q]
  BY <1>8
<1> QED
  BY <1>1, <1>8, <1>9, <1>10 DEF MirrorOK

LEMMA MirrorFailsKeeps ==
    ASSUME ArchiveInv, NEW p \in Polls, mirroring[p] # "no", MirrorFails(p),
           ArchiveStep(p), UNCHANGED <<talkVars, seen, writing, files>>
    PROVE  ArchiveInv'
<1>1. /\ Mirrored(p) /\ faults' = faults + 1 /\ tables' = tables
      /\ UNCHANGED talkVars /\ thread' = thread /\ seen' = seen /\ writing' = writing
      /\ files' = files
  BY DEF MirrorFails, talkVars
<1>2. faults' \in Nat
  BY <1>1 DEF ArchiveInv, MirrorOK
<1>4. MirrorOK'
  BY <1>1, <1>2, MirroredKeeps
<1>5. \A k \in DOMAIN tables' : RowOK(k)'
  BY <1>1, RowsStay DEF OnFile, Records
<1> QED
  BY <1>1, <1>4, <1>5, ArchiveKept

(* A row that is left as it is stays as true as it was.                    *)
LEMMA RowStays ==
    ASSUME thread' = thread, files' = files, NEW k \in DOMAIN tables, RowOK(k),
           tables'[k] = tables[k]
    PROVE  RowOK(k)'
<1>1. SessionRowOK(tables[k]) => SessionRowOK(tables[k])'
  BY DEF SessionRowOK, SessionClaims, Records
<1>2. OtherFacts(thread)' = OtherFacts(thread)
  BY DEF OtherFacts, MemoFacts
<1> QED
  BY <1>1, <1>2 DEF RowOK, OnFile, Records

LEMMA MirrorAgentKeeps ==
    ASSUME ArchiveInv, NEW p \in Polls, MirrorAgent(p)
    PROVE  ArchiveInv'
<1>1. /\ mirroring[p] = "before" /\ UNCHANGED talkVars /\ thread' = thread /\ seen' = seen
      /\ writing' = writing /\ files' = files
      /\ \/ /\ Upsert(AgentRow(Before(Head(todo[p]))), [status |-> "active"])
            /\ mirroring' = [mirroring EXCEPT ![p] = "row"]
            /\ todo' = todo /\ faults' = faults
         \/ MirrorFails(p)
  BY DEF MirrorAgent, talkVars
<1>2. CASE MirrorFails(p)
  BY <1>1, <1>2, MirrorFailsKeeps DEF ArchiveStep
<1>3. CASE ~MirrorFails(p)
  <2>1. PICK k, row : /\ k = AgentRow(Before(Head(todo[p]))) /\ row = [status |-> "active"]
    OBVIOUS
  <2>2. /\ Upsert(k, row) /\ mirroring' = [mirroring EXCEPT ![p] = "row"]
        /\ todo' = todo /\ faults' = faults
    BY <1>1, <1>3, <2>1
  <2>3. /\ DOMAIN tables' = DOMAIN tables \cup {k}
        /\ \A j \in DOMAIN tables : j # k => tables'[j] = tables[j]
    BY <2>2, UpsertIs
  <2>5. MirrorOK
    BY DEF ArchiveInv
  <2>7. MirrorOK'
    <3>1. /\ mirroring' \in [Polls -> {"no", "before", "row"}]
          /\ \A q \in Polls : mirroring'[q] = IF q = p THEN "row" ELSE mirroring[q]
      BY <2>2, <2>5 DEF MirrorOK
    <3>2. \A j, value : OnFile(j, value)' = OnFile(j, value)
      BY <1>1 DEF OnFile, Records
    <3>3. \A q \in Polls : mirroring'[q] # "no" => mirroring[q] # "no"
      BY <1>1, <3>1
    <3>4. ASSUME NEW q \in Polls, mirroring'[q] = "row", Before(Head(todo[q])) # Absent
          PROVE  AgentRow(Before(Head(todo[q]))) \in DOMAIN tables'
      <4>1. CASE q = p
        BY <2>1, <2>3, <4>1
      <4>2. CASE q # p
        BY <2>3, <2>5, <3>1, <3>4, <4>2 DEF MirrorOK
      <4> QED
        BY <4>1, <4>2
    <3>5. todo' = todo /\ writing' = writing /\ faults' = faults
      BY <1>1, <2>2
    <3> QED
      BY <2>5, <3>1, <3>2, <3>3, <3>4, <3>5 DEF MirrorOK
  <2>8. ASSUME NEW j \in DOMAIN tables' PROVE RowOK(j)'
    <3>1. CASE j = k
      BY <2>1, <3>1 DEF RowOK, AgentRow
    <3>2. CASE j # k
      <4>1. j \in DOMAIN tables /\ tables'[j] = tables[j] /\ RowOK(j)
        BY <2>3, <3>2 DEF ArchiveInv
      <4> QED
        BY <1>1, <4>1, RowStays
    <3> QED
      BY <3>1, <3>2
  <2> QED
    BY <1>1, <2>7, <2>8, ArchiveKept DEF ArchiveStep
<1> QED
  BY <1>2, <1>3

LEMMA ColumnsOfSession ==
    ASSUME NEW e \in SessionFacts(thread)
    PROVE  /\ Columns(e) \in RowColumns /\ SessionClaims(Columns(e), thread)
           /\ Columns(e).stage = e.value.stage
<1>1. PICK v : v = e.value
  OBVIOUS
<1>2. v \in SessionValues /\ SessionClaims(v, thread)
  BY <1>1, SessionFactIs
<1>3. PICK row : row = Columns(e)
  OBVIOUS
<1>4. DOMAIN v \ {"of", "read"} = {"stage", "winner", "settlement", "completed"}
  BY <1>2 DEF SessionValues
<1>5. row = [c \in {"stage", "winner", "settlement", "completed"} |-> v[c]]
  BY <1>1, <1>3, <1>4 DEF Columns
<1>6. /\ row.stage = v.stage /\ row.winner = v.winner /\ row.settlement = v.settlement
      /\ row.completed = v.completed
  BY <1>5
<1>7. row = [stage |-> v.stage, winner |-> v.winner, settlement |-> v.settlement,
             completed |-> v.completed]
  BY <1>5
<1>8. row \in RowColumns
  BY <1>2, <1>7 DEF RowColumns, SessionValues
<1>9. SessionClaims(row, thread)
  BY <1>2, <1>6 DEF SessionClaims
<1> QED
  BY <1>1, <1>3, <1>6, <1>8, <1>9

LEMMA MergeOfSession ==
    ASSUME NEW old, NEW new, SessionRowOK(old), SessionRowOK(new)
    PROVE  SessionRowOK(Merge(old, new))
<1>1. PICK row : row = Merge(old, new)
  OBVIOUS
<1>2. old \in RowColumns /\ new \in RowColumns
  BY DEF SessionRowOK
<1>3. DOMAIN new = {"stage", "winner", "settlement", "completed"}
  BY <1>2 DEF RowColumns
<1>4. row = [c \in {"stage", "winner", "settlement", "completed"} |->
               IF new[c] = Absent THEN old[c] ELSE new[c]]
  BY <1>1, <1>3 DEF Merge
<1>5. /\ row.stage = IF new.stage = Absent THEN old.stage ELSE new.stage
      /\ row.winner = IF new.winner = Absent THEN old.winner ELSE new.winner
      /\ row.settlement = IF new.settlement = Absent THEN old.settlement ELSE new.settlement
      /\ row.completed = IF new.completed = Absent THEN old.completed ELSE new.completed
  BY <1>4
<1>6. row = [stage |-> row.stage, winner |-> row.winner, settlement |-> row.settlement,
             completed |-> row.completed]
  BY <1>4
<1>7. row \in RowColumns
  <2>1. /\ row.stage \in StageNames /\ row.winner \in Sellers \cup {Absent}
        /\ row.settlement \in SettlementNames \cup {Absent} /\ row.completed \in {Absent, "now"}
    BY <1>2, <1>5 DEF RowColumns
  <2> QED
    BY <1>6, <2>1 DEF RowColumns
<1>8. SessionClaims(row, thread)
  BY <1>5 DEF SessionRowOK, SessionClaims
<1>9. Records(<<"session", 0, row.stage>>) # <<>>
  BY <1>5 DEF SessionRowOK
<1> QED
  BY <1>1, <1>7, <1>8, <1>9 DEF SessionRowOK

LEMMA ColumnsOfOther ==
    ASSUME NEW e \in OtherFacts(thread)
    PROVE  /\ Columns(e) = e.value /\ Target(e) = e.key
           /\ \A old : old = e.value => Merge(old, e.value) = e.value
<1>1. PICK v, kind : v = e.value /\ kind = e.key[1]
  OBVIOUS
<1>2. kind \in {"request", "bid", "reputation", "memo", "settlement"}
  BY <1>1, OtherFactIs
<1>3. \E x : v = [round |-> x] \/ v = [agent |-> x] \/ v = [status |-> x]
  BY <1>1, <1>2, OtherFactIs
<1>4. v = [c \in DOMAIN v |-> v[c]] /\ DOMAIN v \cap {"of", "read"} = {}
  BY <1>3
<1>5. DOMAIN v \ {"of", "read"} = DOMAIN v
  BY <1>4
<1>6. Columns(e) = v
  BY <1>1, <1>4, <1>5 DEF Columns
<1>7. Target(e) = e.key
  BY <1>1, <1>2 DEF Target
<1>8. Merge(v, v) = v
  BY <1>4 DEF Merge
<1> QED
  BY <1>1, <1>6, <1>7, <1>8

(* The row that is put is as true as what it is merged from.               *)
LEMMA UpsertedRow ==
    ASSUME ArchiveInv, NEW e \in ArchiveFacts(thread), OnFile(e.key, e.value),
           thread' = thread, files' = files, Upsert(Target(e), Columns(e))
    PROVE  \A k \in DOMAIN tables' : RowOK(k)'
<1>1. PICK key, row : key = Target(e) /\ row = Columns(e)
  OBVIOUS
<1>2. /\ DOMAIN tables' = DOMAIN tables \cup {key}
      /\ \A j \in DOMAIN tables : j # key => tables'[j] = tables[j]
      /\ tables'[key] = IF key \in DOMAIN tables THEN Merge(tables[key], row) ELSE row
  BY <1>1, UpsertIs
<1>3. key \in DOMAIN tables => RowOK(key)
  BY DEF ArchiveInv
<1>4. CASE e \in SessionFacts(thread)
  <2>1. e.key = <<"session", 0, e.value.stage>> /\ key = SessionKey
    <3>1. e.key = <<"session", 0, e.value.stage>>
      BY <1>4, SessionFactIs
    <3>2. e.key[1] = "session"
      BY <3>1
    <3> QED
      BY <1>1, <3>1, <3>2 DEF Target, SessionKey
  <2>2. SessionRowOK(row)
    <3>1. OnFile(<<"session", 0, row.stage>>, e.value) /\ row \in RowColumns
          /\ SessionClaims(row, thread)
      BY <1>1, <1>4, <2>1, ColumnsOfSession
    <3>2. Records(<<"session", 0, row.stage>>) # <<>>
      BY <3>1 DEF OnFile
    <3> QED
      BY <3>1, <3>2 DEF SessionRowOK
  <2>3. key \in DOMAIN tables => SessionRowOK(tables[key])
    BY <1>3, <2>1 DEF RowOK, SessionKey
  <2>4. PICK new : new = tables'[key]
    OBVIOUS
  <2>5. SessionRowOK(new)
    BY <1>2, <2>2, <2>3, <2>4, MergeOfSession
  <2>6. SessionRowOK(new)'
    BY <2>5 DEF SessionRowOK, SessionClaims, Records
  <2>7. RowOK(key)'
    BY <2>1, <2>4, <2>6 DEF RowOK, SessionRowOK, SessionClaims, Records
  <2> QED
    BY <1>2, <2>7, RowStays DEF ArchiveInv
<1>5. CASE e \in OtherFacts(thread)
  <2>1. row = e.value /\ key = e.key /\ key[1] # "session" /\ key[1] # "agent"
    <3>1. e.key[1] \in {"request", "bid", "reputation", "memo", "settlement"}
      BY <1>5, OtherFactIs
    <3> QED
      BY <1>1, <1>5, <3>1, ColumnsOfOther
  <2>2. key \in DOMAIN tables => tables[key] = e.value
    <3> SUFFICES ASSUME key \in DOMAIN tables PROVE tables[key] = e.value
      OBVIOUS
    <3>1. PICK f : f = [key |-> key, value |-> tables[key]]
      OBVIOUS
    <3>2. f \in OtherFacts(thread)
      <4>1. SessionKey[1] = "session"
        BY DEF SessionKey
      <4> QED
        BY <1>3, <2>1, <3>1, <4>1 DEF RowOK
    <3>3. f.key = e.key /\ f.value = tables[key]
      BY <2>1, <3>1
    <3> QED
      BY <1>5, <3>2, <3>3, ValueIsFixed DEF ArchiveInv
  <2>3. tables'[key] = e.value
    BY <1>2, <1>5, <2>1, <2>2, ColumnsOfOther
  <2>4. e = [key |-> e.key, value |-> e.value]
    <3>1. \E kind, n, of, value : e = Entry(kind, n, of, value)
      <4>1. CASE e \in RequestFacts
        BY <4>1, Zenon DEF RequestFacts
      <4>2. CASE e \in AgentFacts
        <5>1. PICK kind \in {"bid", "reputation"}, n \in Rounds, s \in Sellers :
                 e = Entry(kind, n, s, [agent |-> s])
          BY <4>2 DEF AgentFacts
        <5> QED
          BY <5>1, Zenon
      <4>3. CASE e \in MemoFacts(thread)
        BY <4>3, Zenon DEF MemoFacts
      <4>4. CASE e \in SettledFacts
        <5>1. PICK n \in Rounds, status \in SettlementNames :
                 e = Entry("settlement", n, status, [status |-> status])
          BY <4>4 DEF SettledFacts
        <5> QED
          BY <5>1, Zenon
      <4> QED
        BY <1>5, <4>1, <4>2, <4>3, <4>4 DEF OtherFacts
    <3>2. \E k, value : e = [key |-> k, value |-> value]
      BY <3>1 DEF Entry
    <3>3. PICK k, value : e = [key |-> k, value |-> value]
      BY <3>2
    <3> QED
      BY <3>3
  <2>5. PICK new : new = tables'[key]
    OBVIOUS
  <2>6. [key |-> key, value |-> new] \in OtherFacts(thread) /\ OnFile(key, new)
    BY <1>5, <2>1, <2>3, <2>4, <2>5
  <2>7. [key |-> key, value |-> new] \in OtherFacts(thread)' /\ OnFile(key, new)'
    BY <2>6 DEF OtherFacts, MemoFacts, OnFile, Records
  <2>8. RowOK(key)'
    BY <2>1, <2>5, <2>7 DEF RowOK, OnFile, Records
  <2> QED
    BY <1>2, <2>8, RowStays DEF ArchiveInv
<1> QED
  BY <1>4, <1>5 DEF ArchiveFacts

LEMMA MirrorRowKeeps ==
    ASSUME ArchiveInv, NEW p \in Polls, MirrorRow(p)
    PROVE  ArchiveInv'
<1>0. PICK entry : entry = Head(todo[p])
  OBVIOUS
<1>1. /\ mirroring[p] = "row" /\ UNCHANGED talkVars /\ thread' = thread /\ seen' = seen
      /\ writing' = writing /\ files' = files
      /\ \/ /\ IF Refs(entry) \subseteq DOMAIN tables THEN Upsert(Target(entry), Columns(entry))
               ELSE UNCHANGED tables
            /\ Mirrored(p) /\ faults' = faults
         \/ MirrorFails(p)
  BY <1>0 DEF MirrorRow, talkVars
<1>2. CASE MirrorFails(p)
  BY <1>1, <1>2, MirrorFailsKeeps DEF ArchiveStep
<1>3. CASE ~MirrorFails(p)
  <2>1. PICK A : A = ArchiveFacts(thread)
    OBVIOUS
  <2>2. QueuesOK(A) /\ MirrorOK
    BY <2>1 DEF ArchiveInv
  <2>3. /\ todo \in [Polls -> Seq(A)] /\ todo[p] # <<>> /\ faults \in Nat
        /\ OnFile(entry.key, entry.value)
    BY <1>0, <1>1, <2>2 DEF QueuesOK, MirrorOK
  <2>4. entry \in A
    <3>1. PICK list : list = todo[p]
      OBVIOUS
    <3> QED
      BY <1>0, <2>3, <3>1, HeadTailProperties
  <2>5. DOMAIN tables \subseteq DOMAIN tables' /\ \A k \in DOMAIN tables' : RowOK(k)'
    <3>1. CASE Upsert(Target(entry), Columns(entry))
      BY <1>1, <2>1, <2>3, <2>4, <3>1, UpsertedRow, UpsertIs
    <3>2. CASE tables' = tables
      <4>1. \A k \in DOMAIN tables' : RowOK(k)'
        BY <1>1, <3>2, RowsStay DEF OnFile, Records
      <4> QED
        BY <3>2, <4>1
    <3> QED
      BY <1>1, <1>3, <3>1, <3>2
  <2>6. MirrorOK'
    <3>1. Mirrored(p) /\ faults' \in Nat /\ mirroring[p] # "no"
      BY <1>1, <1>3, <2>3
    <3> QED
      BY <1>1, <2>5, <3>1, MirroredKeeps
  <2> QED
    BY <1>1, <2>5, <2>6, ArchiveKept DEF ArchiveStep
<1> QED
  BY <1>2, <1>3

LEMMA ArchiveStarts == ASSUME ArchiveInit PROVE ArchiveInv
<1>1. /\ TalkInit /\ thread = {} /\ seen = {} /\ todo = [p \in Polls |-> <<>>]
      /\ writing = [p \in Polls |-> FALSE] /\ DOMAIN files = {} /\ faults = 0
      /\ DOMAIN tables = {} /\ mirroring = [p \in Polls |-> "no"]
  BY DEF ArchiveInit, FeedInit, TalkInit
<1>2. PICK A : A = ArchiveFacts(thread)
  OBVIOUS
<1>3. QueuesOK(A)
  <2>1. <<>> \in Seq(A)
    OBVIOUS
  <2> QED
    BY <1>1, <2>1 DEF QueuesOK
<1>4. FilesOK(A) /\ MirrorOK
  BY <1>1 DEF FilesOK, MirrorOK
<1> QED
  BY <1>1, <1>2, <1>3, <1>4, TalkStarts, FS_EmptySet DEF ArchiveInv

LEMMA ArchiveKeeps == ArchiveInv /\ [ArchiveNext]_archiveVars => ArchiveInv'
<1> SUFFICES ASSUME ArchiveInv, [ArchiveNext]_archiveVars PROVE ArchiveInv'
  OBVIOUS
<1>1. CASE Talk /\ UNCHANGED <<feedVars, mirrorVars>>
  BY <1>1, ArchiveTalkKeeps
<1>2. ASSUME NEW p \in Polls, ArchiveStep(p) PROVE ArchiveInv'
  BY <1>2, StartPassKeeps, ClaimKeeps, AppendRecordKeeps, MirrorAgentKeeps, MirrorRowKeeps
     DEF ArchiveStep
<1>3. CASE UNCHANGED archiveVars
  BY <1>3, ArchiveTalkKeeps DEF archiveVars, allVars
<1> QED
  BY <1>1, <1>2, <1>3 DEF ArchiveNext

THEOREM ArchiveInvariant == ArchiveSpec => []ArchiveInv
<1>1. ArchiveInit => ArchiveInv
  BY ArchiveStarts
<1> QED
  BY <1>1, ArchiveKeeps, PTL DEF ArchiveSpec

(* What the tables say happened, and each row is the record it was put     *)
(* for, however passes overlap and requests fail.                          *)
THEOREM RowsAreTrue == ArchiveSpec => []RowsHold
<1>1. ASSUME ArchiveInv PROVE RowsHold
  <2>1. ASSUME NEW k \in DOMAIN tables \ {SessionKey}
        PROVE  k[1] = "agent" \/ FromRow(k) \in ToSet(Records(k))
    <3> SUFFICES ASSUME k[1] # "agent" PROVE FromRow(k) \in ToSet(Records(k))
      OBVIOUS
    <3>1. PICK e : e = [key |-> k, value |-> tables[k]]
      OBVIOUS
    <3>2. e \in OtherFacts(thread) /\ OnFile(k, tables[k]) /\ e.key = k /\ e.value = tables[k]
      BY <1>1, <2>1, <3>1 DEF ArchiveInv, RowOK
    <3>3. FromRow(k) = tables[k]
      <4>1. CASE k[1] = "settlement"
        <5>1. k[3] \in SettlementNames /\ tables[k] = [status |-> k[3]]
          BY <3>2, <4>1, OtherFactIs
        <5>2. tables[k].status = k[3] /\ SettlementFromRow(k[3]) = k[3]
          BY <5>1 DEF SettlementFromRow, SettlementNames
        <5> QED
          BY <4>1, <5>1, <5>2 DEF FromRow
      <4>2. CASE k[1] # "settlement"
        BY <4>2 DEF FromRow
      <4> QED
        BY <4>1, <4>2
    <3> QED
      BY <3>2, <3>3 DEF OnFile, ToSet
  <2>2. ASSUME SessionKey \in DOMAIN tables
        PROVE  FromRow(SessionKey) = tables[SessionKey] /\ SessionRowOK(tables[SessionKey])
    BY <1>1, <2>2 DEF ArchiveInv, RowOK, SessionKey, FromRow
  <2>3. \A row : SessionRowOK(row) =>
            /\ Records(<<"session", 0, row.stage>>) # <<>>
            /\ row.winner # Absent => \E n \in Rounds : Said(Msg("AWARD", n, row.winner))
            /\ row.completed # Absent => \E n \in Rounds : Said(Msg("RELEASED", n, NoSeller))
            /\ row.settlement = "VERIFIED" =>
                  \E n \in Rounds, v \in {"PASS", "FAIL"} : Said(Msg("VERIFIED", n, v))
    BY DEF SessionRowOK, SessionClaims, Said, Verdicts
  <2> QED
    BY <2>1, <2>2, <2>3 DEF RowsHold, SessionKey
<1> QED
  BY <1>1, ArchiveInvariant, PTL

(* Once the session has its row, what is written of it from then on gets   *)
(* its own, unless a request fails.                                        *)
RowStep ==
    \A p \in Polls :
       /\ mirroring[p] = "row" /\ mirroring'[p] = "no"
       /\ Head(todo[p]).key[1] # "session"
       /\ <<"session", 0, "">> \in DOMAIN tables
       => Head(todo[p]).key \in DOMAIN tables' \/ faults > 0 \/ faults' > 0

LEMMA StaysNone ==
    ASSUME NEW a \in Nat, NEW b, b = a \/ b = a + 1, ~(b > 0)
    PROVE  b = 0
<1>1. b \in Nat
  OBVIOUS
<1> QED
  BY <1>1

LEMMA RowIsPut ==
    ASSUME ArchiveInv, NEW p \in Polls, MirrorRow(p), faults' = 0,
           Head(todo[p]).key[1] # "session", SessionKey \in DOMAIN tables
    PROVE  Head(todo[p]).key \in DOMAIN tables'
<1>0. PICK entry : entry = Head(todo[p])
  OBVIOUS
<1>1. /\ mirroring[p] = "row"
      /\ \/ Refs(entry) \subseteq DOMAIN tables /\ Upsert(Target(entry), Columns(entry))
         \/ ~(Refs(entry) \subseteq DOMAIN tables)
         \/ faults' = faults + 1
  BY <1>0 DEF MirrorRow, MirrorFails
<1>2. QueuesOK(ArchiveFacts(thread)) /\ MirrorOK
  BY DEF ArchiveInv
<1>3. /\ todo[p] \in Seq(ArchiveFacts(thread)) /\ todo[p] # <<>> /\ faults \in Nat
      /\ Before(entry) # Absent => AgentRow(Before(entry)) \in DOMAIN tables
  BY <1>0, <1>1, <1>2 DEF QueuesOK, MirrorOK
<1>4. entry \in OtherFacts(thread)
  <2>1. entry \in ArchiveFacts(thread)
    BY <1>0, <1>3, HeadTailProperties
  <2> QED
    BY <1>0, <2>1, KindOfFact
<1>5. Refs(entry) \subseteq DOMAIN tables
  <2>1. PICK kind : kind = entry.key[1]
    OBVIOUS
  <2>2. kind \in {"request", "bid", "reputation", "memo", "settlement"}
    BY <1>4, <2>1, OtherFactIs
  <2>3. kind \in {"request", "settlement"} => "agent" \notin DOMAIN entry.value
    <3>1. CASE kind = "request"
      <4>1. entry.value = [round |-> entry.key[2]]
        BY <1>4, <2>1, <3>1, OtherFactIs
      <4> QED
        BY <3>1, <4>1
    <3>2. CASE kind = "settlement"
      <4>1. entry.value = [status |-> entry.key[3]]
        BY <1>4, <2>1, <3>2, OtherFactIs
      <4> QED
        BY <3>2, <4>1
    <3> QED
      BY <3>1, <3>2
  <2>4. Refs(entry) \subseteq (IF Before(entry) = Absent THEN {} ELSE {AgentRow(Before(entry))})
                             \cup {SessionKey}
    BY <2>1, <2>2, <2>3 DEF Refs, Before, SessionKey
  <2> QED
    BY <1>3, <2>4
<1>6. Target(entry) = entry.key
  BY <1>4, ColumnsOfOther
<1>7. faults' # faults + 1
  BY <1>3
<1>8. Upsert(Target(entry), Columns(entry))
  BY <1>1, <1>5, <1>7
<1>9. DOMAIN tables' = DOMAIN tables \cup {Target(entry)}
  BY <1>8, UpsertIs
<1> QED
  BY <1>0, <1>6, <1>9

THEOREM MirrorFollows == ArchiveSpec => MirrorKeepsUp
<1>1. ArchiveInv /\ [ArchiveNext]_archiveVars => [RowStep]_archiveVars
  <2> SUFFICES ASSUME ArchiveInv, [ArchiveNext]_archiveVars, NEW p \in Polls,
                      mirroring[p] = "row", mirroring'[p] = "no", Head(todo[p]).key[1] # "session",
                      <<"session", 0, "">> \in DOMAIN tables, ~(faults' > 0)
               PROVE  Head(todo[p]).key \in DOMAIN tables'
    BY DEF RowStep
  <2>1. ~writing[p] /\ mirroring \in [Polls -> {"no", "before", "row"}] /\ faults \in Nat
    BY DEF ArchiveInv, MirrorOK
  <2>2. MirrorRow(p)
    <3>1. ~(UNCHANGED mirroring)
      OBVIOUS
    <3>2. PICK q \in Polls : ArchiveStep(q)
      BY <3>1 DEF ArchiveNext, archiveVars, mirrorVars
    <3>3. AppendRecord(q) \/ MirrorAgent(q) \/ MirrorRow(q)
      BY <3>1, <3>2 DEF ArchiveStep, StartPass, Claim, mirrorVars
    <3>4. q = p
      BY <2>1, <3>3 DEF AppendRecord, MirrorAgent, MirrorRow, MirrorFails, Mirrored
    <3> QED
      BY <2>1, <3>3, <3>4 DEF AppendRecord, MirrorAgent
  <2>3. faults' = 0
    <3>1. faults' = faults \/ faults' = faults + 1
      BY <2>2 DEF MirrorRow, MirrorFails
    <3> QED
      BY <2>1, <3>1, StaysNone
  <2> QED
    BY <2>2, <2>3, RowIsPut DEF SessionKey
<1>2. ArchiveSpec => [][RowStep]_archiveVars
  BY <1>1, ArchiveInvariant, PTL DEF ArchiveSpec
<1> QED
  BY <1>2 DEF MirrorKeepsUp, RowStep

-----------------------------------------------------------------------------
(* A session, read from the files.  The entries of a round form a chain:   *)
(* the later its state was read, the later the stage.                      *)

StageRank(r) ==
    IF r.release THEN 10
    ELSE IF r.verified = "PASS" THEN 8
    ELSE IF r.verified # "none" THEN 7
    ELSE IF r.delivered THEN 6
    ELSE IF r.deposit THEN 5
    ELSE IF r.award # NoSeller THEN 4
    ELSE IF r.bids # <<>> THEN 3 ELSE 2

LEMMA StageRankIs ==
    ASSUME NEW r \in RoundRecords, Ordered(r)
    PROVE  StageRank(r) \in 1..10 /\ Place(RecordedStages, RecordedStage(r)) = StageRank(r)
<1>1. StageRank(r) \in 1..10
  BY DEF StageRank
<1>2. RecordedStage(r) = RecordedStages[StageRank(r)]
  BY RecordedStageIs DEF RecordedNames, RecordedPlace, RecordedStages, StageRank, Ordered
<1>3. DOMAIN RecordedStages = 1..10
      /\ \A i, j \in 1..10 : RecordedStages[i] = RecordedStages[j] => i = j
  BY DEF RecordedStages
<1> QED
  BY <1>1, <1>2, <1>3, PlaceIs

LEMMA RankGrows ==
    ASSUME NEW n, NEW T, NEW U, T \subseteq U, NEW r, NEW next,
           IsRound(r, n, T), IsRound(next, n, U)
    PROVE  StageRank(r) <= StageRank(next)
<1>1. /\ r.bids # <<>> => next.bids # <<>>
      /\ r.award # NoSeller => next.award = r.award
      /\ r.deposit => next.deposit
      /\ r.delivered => next.delivered
      /\ r.verified # "none" => next.verified = r.verified
      /\ r.release => next.release
  BY RoundKeeps
<1> QED
  BY <1>1 DEF StageRank

(* The latest of some records whose times are bounded.                     *)
LEMMA LatestIs ==
    ASSUME NEW items, items # {}, NEW top \in Nat, \A x \in items : UpdatedAt(x) \in 0..top
    PROVE  LatestBy(items) \in items /\ \A x \in items : UpdatedAt(x) <= UpdatedAt(LatestBy(items))
<1> DEFINE Gaps == {top - UpdatedAt(x) : x \in items}
<1>1. Gaps \in SUBSET Nat /\ Gaps # {}
  OBVIOUS
<1>2. IsWellFoundedOn(OpToRel(<, Nat), Nat)
  BY NatLessThanWellFounded
<1>3. \E g \in Gaps : \A h \in Gaps : ~ (<<h, g>> \in OpToRel(<, Nat))
  BY <1>1, <1>2, WFMin
<1>4. PICK g \in Gaps : \A h \in Gaps : ~ (h < g)
  BY <1>1, <1>3 DEF OpToRel
<1>5. PICK item \in items : g = top - UpdatedAt(item)
  BY <1>4
<1>6. \A x \in items : top - UpdatedAt(x) \in Gaps
  OBVIOUS
<1>7. ASSUME NEW x \in items PROVE UpdatedAt(x) <= UpdatedAt(item)
  <2>1. PICK c, d : c = UpdatedAt(x) /\ d = UpdatedAt(item)
    OBVIOUS
  <2>2. c \in Int /\ d \in Int /\ ~(top - c < top - d)
    BY <1>4, <1>5, <1>6, <2>1
  <2> QED
    BY <2>1, <2>2
<1> QED
  BY <1>5, <1>7 DEF LatestBy

RankOf(e) == Place(RecordedStages, e.value.stage)

(* S is the session's entries so far.                                      *)
Chain(S) ==
    /\ \A e \in S : RankOf(e) \in Nat
    /\ \A e, f \in S :
          e.value.of = f.value.of /\ e.value.read <= f.value.read => RankOf(e) <= RankOf(f)

RecentEntry(e) ==
    /\ e.value.of \in DOMAIN rounds
    /\ \/ e.value.read < ReadAt /\ RankOf(e) <= StageRank(rounds[e.value.of])
       \/ e.value.read = ReadAt /\ RankOf(e) = StageRank(rounds[e.value.of])

Recent(S) == \A e \in S : RecentEntry(e)

MarketInv(S) ==
    /\ S \subseteq SessionFacts(thread)
    /\ Chain(S)
    /\ Recent(S)
    /\ QueuesOK(S \cup OtherFacts(thread))
    /\ FilesOK(S \cup OtherFacts(thread))

LEMMA RecentStays ==
    ASSUME ArchiveInv, Talk, NEW S, S \subseteq SessionFacts(thread), Chain(S), Recent(S)
    PROVE  Recent(S)'
<1> SUFFICES ASSUME NEW e \in S PROVE RecentEntry(e)'
  BY DEF Recent
<1>1. PICK n, r, next, rank, read, now, later :
         /\ n = e.value.of /\ r = rounds[n] /\ next = rounds'[n] /\ rank = RankOf(e)
         /\ read = e.value.read /\ now = ReadAt /\ later = ReadAt'
  OBVIOUS
<1>2. TalkInv /\ TalkInv' /\ thread \subseteq thread' /\ asked <= asked' /\ IsFiniteSet(thread)
  BY TalkKeeps DEF ArchiveInv
<1>3. /\ n \in DOMAIN rounds
      /\ (read < now /\ rank <= StageRank(r)) \/ (read = now /\ rank = StageRank(r))
  BY <1>1 DEF Recent, RecentEntry
<1>4. n \in DOMAIN rounds'
  <2>1. /\ DOMAIN rounds = 1..asked /\ DOMAIN rounds' = 1..asked'
        /\ asked \in 0..MaxRounds /\ asked' \in 0..MaxRounds
    BY <1>2 DEF TalkInv
  <2> QED
    BY <1>2, <1>3, <2>1, TranscriptAssumption
<1>5. IsRound(r, n, thread) /\ IsRound(next, n, thread')
  BY <1>1, <1>2, <1>3, <1>4 DEF TalkInv
<1>6. StageRank(r) <= StageRank(next) /\ StageRank(r) \in Nat /\ StageRank(next) \in Nat
  BY <1>2, <1>5, RankGrows, StageRankIs DEF IsRound
<1>7. read \in Nat /\ now \in Nat
  <2>1. e.value \in SessionValues
    BY SessionFactIs
  <2> QED
    BY <1>1, <1>2, <2>1, ReadAtIs DEF SessionValues
<1>10. \/ read < later /\ rank <= StageRank(next)
       \/ read = later /\ rank = StageRank(next)
  <2>1. CASE thread' = thread
    <3>1. StageRank(next) <= StageRank(r)
      BY <1>5, <2>1, RankGrows
    <3>2. later = now
      BY <1>1, <2>1 DEF ReadAt
    <3> QED
      BY <1>3, <1>6, <3>1, <3>2
  <2>2. CASE thread' # thread
    <3>1. PICK m : thread' = thread \cup {m}
      BY <2>2, ThreadGrows
    <3>2. m \notin thread
      BY <2>2, <3>1
    <3>3. later = now + 1
      BY <1>1, <1>2, <3>1, <3>2, FS_AddElement DEF ReadAt
    <3>4. rank <= StageRank(next)
      <4>1. rank \in Nat
        BY <1>1 DEF Chain
      <4> QED
        BY <1>3, <1>6, <4>1
    <3> QED
      BY <1>3, <1>7, <3>3, <3>4
  <2> QED
    BY <2>1, <2>2
<1>11. RankOf(e)' = RankOf(e)
  BY DEF RankOf
<1> QED
  BY <1>1, <1>4, <1>10, <1>11 DEF RecentEntry, StageRank

LEMMA MarketTalkKeeps ==
    ASSUME ArchiveInv, [Talk]_talkVars, UNCHANGED <<feedVars, mirrorVars>>, NEW S, MarketInv(S)
    PROVE  MarketInv(S)'
<1>1. seen' = seen /\ todo' = todo /\ writing' = writing /\ files' = files
  BY DEF feedVars
<1>2. thread \subseteq thread'
  BY TalkKeeps, TalkRests DEF ArchiveInv
<1>3. PICK A, B : A = S \cup OtherFacts(thread) /\ B = S \cup OtherFacts(thread')
  OBVIOUS
<1>4. A \subseteq B
  BY <1>2, <1>3 DEF OtherFacts, MemoFacts
<1>5. QueuesOK(B) /\ FilesOK(B)
  BY <1>3, <1>4, QueuesStay, FilesStay DEF MarketInv
<1>6. QueuesOK(B)' /\ FilesOK(B)'
  BY <1>1, <1>5 DEF QueuesOK, FilesOK
<1>7. (S \cup OtherFacts(thread))' = B
  BY <1>3 DEF OtherFacts, MemoFacts
<1>8. S \subseteq SessionFacts(thread)'
  <2>1. SessionFacts(thread) \subseteq SessionFacts(thread)'
    BY <1>2 DEF SessionFacts, SessionClaims
  <2> QED
    BY <2>1 DEF MarketInv
<1>9. Chain(S)'
  BY DEF MarketInv, Chain, RankOf
<1>10. Recent(S)'
  <2>1. CASE Talk
    BY <2>1, RecentStays DEF MarketInv
  <2>2. CASE UNCHANGED talkVars
    <3>1. thread' = thread /\ rounds' = rounds
      BY <2>2 DEF talkVars
    <3> QED
      BY <3>1 DEF MarketInv, Recent, RecentEntry, RankOf, ReadAt
  <2> QED
    BY <2>1, <2>2
<1> QED
  BY <1>6, <1>7, <1>8, <1>9, <1>10 DEF MarketInv, QueuesOK, FilesOK

(* A pass that starts adds the session's entries of now, one for a round.  *)
LEMMA EntryIsNow ==
    ASSUME ArchiveInv, NEW n \in DOMAIN rounds
    PROVE  LET e == SessionEntry(n, rounds[n])
           IN /\ e \in SessionFacts(thread) /\ RecentEntry(e)
              /\ e.value.of = n /\ e.value.read = ReadAt /\ ReadAt \in Nat
              /\ RankOf(e) = StageRank(rounds[n]) /\ RankOf(e) \in Nat
<1>1. PICK r, e : r = rounds[n] /\ e = SessionEntry(n, r)
  OBVIOUS
<1>2. IsRound(r, n, thread) /\ n \in Rounds
  <2>1. DOMAIN rounds = 1..asked /\ asked \in 0..MaxRounds
    BY DEF ArchiveInv, TalkInv
  <2>2. n \in Rounds
    BY <2>1, TranscriptAssumption DEF Rounds
  <2> QED
    BY <1>1, <2>2 DEF ArchiveInv, TalkInv
<1>3. e \in SessionFacts(thread)
  BY <1>1, <1>2, SessionIsRecorded DEF ArchiveInv
<1>4. e.value.of = n /\ e.value.read = ReadAt /\ e.value.stage = RecordedStage(r)
  BY <1>1 DEF SessionEntry, Entry
<1>5. RankOf(e) = StageRank(r) /\ StageRank(r) \in Nat /\ ReadAt \in Nat
  BY <1>2, <1>4, StageRankIs, ReadAtIs DEF RankOf, IsRound, ArchiveInv
<1>6. RecentEntry(e)
  BY <1>1, <1>4, <1>5 DEF RecentEntry
<1> QED
  BY <1>1, <1>3, <1>4, <1>5, <1>6

LEMMA NowIsLast ==
    ASSUME ArchiveInv, NEW S, MarketInv(S), NEW U,
           U = S \cup {SessionEntry(n, rounds[n]) : n \in DOMAIN rounds}
    PROVE  U \subseteq SessionFacts(thread) /\ Chain(U) /\ Recent(U)
<1>1. S \subseteq SessionFacts(thread) /\ Chain(S) /\ Recent(S)
  BY DEF MarketInv
<1>2. U \subseteq SessionFacts(thread) /\ Recent(U)
  BY <1>1, EntryIsNow DEF Recent
<1>3. ASSUME NEW e \in U
      PROVE  /\ e.value.of \in DOMAIN rounds /\ e.value.read \in Nat /\ RankOf(e) \in Nat
             /\ e.value.read <= ReadAt /\ RankOf(e) <= StageRank(rounds[e.value.of])
             /\ e.value.read = ReadAt => RankOf(e) = StageRank(rounds[e.value.of])
  <2>1. CASE e \in S
    <3>1. e.value.read \in Nat /\ RankOf(e) \in Nat
      BY <1>1, <2>1, SessionFactIs DEF SessionValues, Chain
    <3>2. ReadAt \in Nat
      BY ReadAtIs DEF ArchiveInv
    <3>3. RecentEntry(e)
      BY <1>1, <2>1 DEF Recent
    <3>4. e.value.of \in DOMAIN rounds /\ StageRank(rounds[e.value.of]) \in Nat
      BY <3>3, EntryIsNow DEF RecentEntry
    <3> QED
      BY <3>1, <3>2, <3>3, <3>4 DEF RecentEntry
  <2>2. CASE e \notin S
    BY <2>2, EntryIsNow
  <2> QED
    BY <2>1, <2>2
<1>4. ASSUME NEW e \in U, NEW f \in U,
             e.value.of = f.value.of /\ e.value.read <= f.value.read
      PROVE  RankOf(e) <= RankOf(f)
  <2>1. CASE e \in S /\ f \in S
    BY <1>1, <1>4, <2>1 DEF Chain
  <2>2. CASE f \notin S
    <3>1. RankOf(f) = StageRank(rounds[f.value.of])
      BY <2>2, EntryIsNow
    <3> QED
      BY <1>3, <1>4, <3>1
  <2>3. CASE e \notin S
    <3>1. RankOf(e) = StageRank(rounds[e.value.of]) /\ e.value.read = ReadAt
      BY <2>3, EntryIsNow
    <3>2. f.value.read = ReadAt
      BY <1>3, <1>4, <3>1
    <3> QED
      BY <1>3, <1>4, <3>1, <3>2
  <2> QED
    BY <2>1, <2>2, <2>3
<1> QED
  BY <1>2, <1>3, <1>4 DEF Chain

LEMMA MarketStepKeeps ==
    ASSUME ArchiveInv, NEW p \in Polls, ArchiveStep(p), NEW S, MarketInv(S)
    PROVE  \E U : /\ S \subseteq U /\ MarketInv(U)'
                 /\ \A k, value : OnFile(k, value) => OnFile(k, value)'
<1>1. /\ S \subseteq SessionFacts(thread) /\ Chain(S) /\ Recent(S)
      /\ QueuesOK(S \cup OtherFacts(thread)) /\ FilesOK(S \cup OtherFacts(thread))
  BY DEF MarketInv
<1>2. PICK U : U = S \cup {SessionEntry(n, rounds[n]) : n \in DOMAIN rounds}
  OBVIOUS
<1>3. U \subseteq SessionFacts(thread) /\ Chain(U) /\ Recent(U)
  BY <1>2, NowIsLast
<1>4. PICK A : A = U \cup OtherFacts(thread)
  OBVIOUS
<1>5. QueuesOK(A) /\ FilesOK(A)
  <2>1. S \cup OtherFacts(thread) \subseteq A
    BY <1>2, <1>4
  <2> QED
    BY <1>1, <2>1, QueuesStay, FilesStay
<1>6. ArchivePass \in Seq(A)
  <2>1. \A n \in Rounds : n \in DOMAIN rounds => SessionEntry(n, rounds[n]) \in A
    BY <1>2, <1>4
  <2>2. OtherFacts(thread) \subseteq A /\ TalkInv
    BY <1>4 DEF ArchiveInv
  <2> QED
    BY <2>1, <2>2, ArchivePassIsTrue
<1>7. QueuesOK(A)' /\ FilesOK(A)' /\ \A k, value : OnFile(k, value) => OnFile(k, value)'
  BY <1>5, <1>6, PassesGo DEF ArchiveInv
<1>8. thread' = thread /\ rounds' = rounds
  BY DEF ArchiveStep, StartPass, Claim, WriteOnce, AppendRecord, MirrorAgent, MirrorRow, talkVars
<1>9. (U \cup OtherFacts(thread))' = A /\ U \subseteq SessionFacts(thread)'
  BY <1>3, <1>4, <1>8 DEF OtherFacts, MemoFacts, SessionFacts, SessionClaims
<1>10. Chain(U)' /\ Recent(U)'
  BY <1>3, <1>8 DEF Chain, Recent, RecentEntry, RankOf, ReadAt, StageRank
<1>11. MarketInv(U)'
  BY <1>7, <1>9, <1>10 DEF MarketInv, QueuesOK, FilesOK
<1>12. S \subseteq U
  BY <1>2
<1> QED
  BY <1>7, <1>11, <1>12

LEMMA SessionRecordIs ==
    ASSUME NEW S, MarketInv(S), NEW v \in SessionRecords
    PROVE  \E e \in S : e.value = v
<1>1. PICK k \in DOMAIN files : k[1] = "session" /\ v \in ToSet(files[k])
  BY DEF SessionRecords
<1>2. PICK A : A = S \cup OtherFacts(thread)
  OBVIOUS
<1>3. files[k] \in Seq(ValuesOf(k, A))
  BY <1>2 DEF MarketInv, FilesOK
<1>4. v \in ValuesOf(k, A)
  <2>1. PICK values : values = files[k]
    OBVIOUS
  <2>2. PICK i \in DOMAIN values : values[i] = v
    BY <1>1, <2>1 DEF ToSet
  <2>3. values \in Seq(ValuesOf(k, A))
    BY <1>3, <2>1
  <2> QED
    BY <2>2, <2>3
<1>5. PICK e \in A : e.key = k /\ e.value = v
  BY <1>4 DEF ValuesOf
<1>6. e \notin OtherFacts(thread)
  <2> SUFFICES ASSUME e \in OtherFacts(thread) PROVE FALSE
    OBVIOUS
  <2>1. e.key[1] \in {"request", "bid", "reputation", "memo", "settlement"}
    BY OtherFactIs
  <2> QED
    BY <1>1, <1>5, <2>1
<1> QED
  BY <1>2, <1>5, <1>6

(* The session's records have their times in the order in which their keys *)
(* were marked.                                                            *)
StampsOK ==
    /\ stamped \in Seq(StageNames)
    /\ \A p \in Polls :
          writing[p] /\ Head(todo[p]).key[1] = "session"
             => Head(todo[p]).value.stage \in ToSet(stamped)
    /\ \A v \in SessionRecords : v.stage \in ToSet(stamped)

LEMMA StageIsPlaced ==
    ASSUME StampsOK, NEW stage_ \in ToSet(stamped)
    PROVE  /\ Place(stamped, stage_) \in 0..Len(stamped) /\ Len(stamped) \in Nat
           /\ stamped[Place(stamped, stage_)] = stage_
<1>1. PICK list : list = stamped
  OBVIOUS
<1>2. list \in Seq(StageNames)
  BY <1>1 DEF StampsOK
<1>3. \E i \in DOMAIN list : list[i] = stage_
  BY <1>1 DEF ToSet
<1>4. Place(list, stage_) \in DOMAIN list /\ list[Place(list, stage_)] = stage_
  BY <1>3 DEF Place
<1> QED
  BY <1>1, <1>2, <1>4

LEMMA ClaimStamps ==
    ASSUME ArchiveInv, StampsOK, NEW p \in Polls, Claim(p)
    PROVE  StampsOK'
<1>1. WriteOnce(p) /\ TakeStamp(p) /\ files' = files /\ thread' = thread
  BY DEF Claim, WriteOnce, talkVars
<1>2. PICK A : A = ArchiveFacts(thread)
  OBVIOUS
<1>3. todo \in [Polls -> Seq(A)] /\ writing \in [Polls -> BOOLEAN] /\ QueuesOK(A)
  BY <1>2 DEF ArchiveInv, QueuesOK
<1>4. PICK left \in Seq(A) :
             /\ todo' = [todo EXCEPT ![p] = left]
             /\ writing' = writing \/ writing' = [writing EXCEPT ![p] = TRUE]
  BY <1>1, <1>3, WriteOnceIs
<1>5. PICK takes, head : takes = (writing'[p] /\ Head(left).key[1] = "session") /\ head = Head(left)
  OBVIOUS
<1>6. ASSUME takes PROVE head.value.stage \in StageNames
  <2>1. QueuesOK(A)'
    BY <1>1, <1>3, WriteOnceQueues
  <2>2. left # <<>>
    BY <1>3, <1>4, <1>5, <1>6, <2>1 DEF QueuesOK
  <2>3. head \in A
    BY <1>5, <2>2, HeadTailProperties
  <2>4. head \in SessionFacts(thread)
    BY <1>2, <1>5, <1>6, <2>3, KindOfFact
  <2> QED
    BY <2>4, SessionFactIs DEF SessionValues
<1>7. stamped' = IF takes THEN Append(stamped, head.value.stage) ELSE stamped
  BY <1>1, <1>3, <1>4, <1>5 DEF TakeStamp
<1>8. /\ stamped' \in Seq(StageNames) /\ ToSet(stamped) \subseteq ToSet(stamped')
      /\ takes => head.value.stage \in ToSet(stamped')
  <2>1. PICK old, new : old = stamped /\ new = stamped'
    OBVIOUS
  <2>2. old \in Seq(StageNames)
    BY <2>1 DEF StampsOK
  <2>3. CASE takes
    <3>1. PICK last \in StageNames : last = head.value.stage
      BY <1>6, <2>3
    <3>2. new = Append(old, last)
      BY <1>7, <2>1, <2>3, <3>1
    <3>3. /\ new \in Seq(StageNames) /\ DOMAIN old = 1..Len(old) /\ Len(old) \in Nat
          /\ DOMAIN new = 1..(Len(old) + 1) /\ new[Len(old) + 1] = last
          /\ \A i \in 1..Len(old) : new[i] = old[i]
      BY <2>2, <3>2
    <3> QED
      BY <2>1, <3>1, <3>3 DEF ToSet
  <2>4. CASE ~takes
    BY <1>7, <2>1, <2>2, <2>4
  <2> QED
    BY <2>3, <2>4
<1>9. ASSUME NEW q \in Polls, writing'[q], Head(todo'[q]).key[1] = "session"
      PROVE  Head(todo'[q]).value.stage \in ToSet(stamped')
  <2>1. CASE q = p
    BY <1>3, <1>4, <1>5, <1>8, <1>9, <2>1
  <2>2. CASE q # p
    <3>1. writing[q] /\ todo'[q] = todo[q]
      BY <1>3, <1>4, <1>9, <2>2
    <3> QED
      BY <1>8, <1>9, <3>1 DEF StampsOK
  <2> QED
    BY <2>1, <2>2
<1>10. SessionRecords' = SessionRecords
  BY <1>1 DEF SessionRecords
<1> QED
  BY <1>8, <1>9, <1>10 DEF StampsOK

LEMMA StampsKeep ==
    ASSUME ArchiveInv, StampsOK, [ArchiveNext]_archiveVars
    PROVE  StampsOK'
<1>1. PICK A : A = ArchiveFacts(thread) /\ QueuesOK(A) /\ FilesOK(A)
  BY DEF ArchiveInv
<1>2. /\ todo \in [Polls -> Seq(A)] /\ writing \in [Polls -> BOOLEAN]
      /\ \A p \in Polls : writing[p] => todo[p] # <<>>
      /\ \A p \in Polls : mirroring[p] # "no" => ~writing[p]
  BY <1>1 DEF QueuesOK, ArchiveInv, MirrorOK
<1>3. files' = files => SessionRecords' = SessionRecords
  BY DEF SessionRecords
<1>4. CASE UNCHANGED <<feedVars, mirrorVars>>
  BY <1>3, <1>4 DEF StampsOK, feedVars, mirrorVars
<1>5. ASSUME NEW p \in Polls, StartPass(p) \/ MirrorAgent(p) \/ MirrorRow(p) PROVE StampsOK'
  <2>1. /\ writing' = writing /\ files' = files /\ stamped' = stamped
        /\ \/ todo' = [todo EXCEPT ![p] = ArchivePass] /\ todo[p] = <<>>
           \/ mirroring[p] # "no" /\ (todo' = todo \/ todo' = [todo EXCEPT ![p] = Tail(todo[p])])
    BY <1>5 DEF StartPass, MirrorAgent, MirrorRow, MirrorFails, Mirrored, mirrorVars
  <2>2. \A q \in Polls : writing'[q] => writing[q] /\ todo'[q] = todo[q]
    BY <1>2, <2>1
  <2> QED
    BY <1>3, <2>1, <2>2 DEF StampsOK
<1>6. ASSUME NEW p \in Polls, AppendRecord(p) PROVE StampsOK'
  <2>1. PICK entry : entry = Head(todo[p])
    OBVIOUS
  <2>2. /\ writing[p] /\ writing' = [writing EXCEPT ![p] = FALSE] /\ Put(entry)
        /\ todo' = todo /\ stamped' = stamped
    BY <1>6, <2>1 DEF AppendRecord
  <2>3. entry \in A
    <3>1. PICK list : list = todo[p]
      OBVIOUS
    <3>2. list \in Seq(A) /\ list # <<>>
      BY <1>2, <2>2, <3>1
    <3> QED
      BY <2>1, <3>1, <3>2, HeadTailProperties
  <2>4. /\ DOMAIN files' = DOMAIN files \cup {entry.key}
        /\ files'[entry.key] = Append(Records(entry.key), entry.value)
        /\ \A k \in DOMAIN files : k # entry.key => files'[k] = files[k]
    BY <1>1, <2>2, <2>3, PutIs
  <2>5. \A q \in Polls : writing'[q] => writing[q]
    BY <1>2, <2>2
  <2>6. ASSUME NEW v \in SessionRecords' PROVE v.stage \in ToSet(stamped)
    <3>1. PICK k \in DOMAIN files' : k[1] = "session" /\ v \in ToSet(files'[k])
      BY <2>6 DEF SessionRecords
    <3>2. CASE k # entry.key
      <4>1. v \in SessionRecords
        BY <2>4, <3>1, <3>2 DEF SessionRecords
      <4> QED
        BY <4>1 DEF StampsOK
    <3>3. CASE k = entry.key
      <4>1. PICK old, new : old = Records(k) /\ new = files'[k]
        OBVIOUS
      <4>2. old \in Seq(ValuesOf(k, A)) /\ new = Append(old, entry.value)
        BY <1>1, <2>3, <2>4, <3>3, <4>1, RecordsAre
      <4>3. PICK i \in DOMAIN new : new[i] = v
        BY <3>1, <4>1 DEF ToSet
      <4>4. /\ DOMAIN old = 1..Len(old) /\ Len(old) \in Nat /\ DOMAIN new = 1..(Len(old) + 1)
            /\ new[Len(old) + 1] = entry.value /\ \A j \in 1..Len(old) : new[j] = old[j]
        BY <4>2
      <4>5. CASE v = entry.value
        BY <2>1, <2>2, <3>1, <3>3, <4>5 DEF StampsOK
      <4>6. CASE v # entry.value
        <5>1. i \in DOMAIN old /\ old[i] = v
          BY <4>3, <4>4, <4>6
        <5>2. k \in DOMAIN files /\ v \in ToSet(files[k])
          BY <4>1, <5>1 DEF Records, ToSet
        <5>3. v \in SessionRecords
          BY <3>1, <5>2 DEF SessionRecords
        <5> QED
          BY <5>3 DEF StampsOK
      <4> QED
        BY <4>5, <4>6
    <3> QED
      BY <3>2, <3>3
  <2> QED
    BY <2>2, <2>5, <2>6 DEF StampsOK
<1>7. CASE UNCHANGED archiveVars
  BY <1>4, <1>7 DEF archiveVars, allVars
<1> QED
  BY <1>4, <1>5, <1>6, <1>7, ClaimStamps DEF ArchiveNext, ArchiveStep

LEMMA GetMarketIs ==
    ASSUME StampsOK, SessionRecords # {}
    PROVE  /\ GetMarket \in SessionRecords
           /\ \A v \in SessionRecords : UpdatedAt(v) <= UpdatedAt(GetMarket)
<1>1. PICK items, top : items = SessionRecords /\ top = Len(stamped)
  OBVIOUS
<1>2. top \in Nat /\ \A v \in items : UpdatedAt(v) \in 0..top
  BY <1>1, StageIsPlaced DEF StampsOK, UpdatedAt
<1>3. LatestBy(items) \in items /\ \A x \in items : UpdatedAt(x) <= UpdatedAt(LatestBy(items))
  BY <1>1, <1>2, LatestIs
<1> QED
  BY <1>1, <1>3 DEF GetMarket

(* Whatever is read is of the chain, and it is the last in time.            *)
ReadFits ==
    /\ \A S : MarketInv(S) => \A v \in SessionRecords : \E e \in S : e.value = v
    /\ StampsOK =>
       /\ \A v \in SessionRecords :
             /\ UpdatedAt(v) \in Nat /\ stamped[UpdatedAt(v)] = v.stage
             /\ UpdatedAt(v) <= UpdatedAt(GetMarket)
       /\ SessionRecords # {} => GetMarket \in SessionRecords

LEMMA ReadsFit == ReadFits
<1>1. StampsOK => \A v \in SessionRecords :
                     UpdatedAt(v) \in Nat /\ stamped[UpdatedAt(v)] = v.stage
  BY StageIsPlaced DEF StampsOK, UpdatedAt
<1>2. \A S : MarketInv(S) => \A v \in SessionRecords : \E e \in S : e.value = v
  BY SessionRecordIs
<1> QED
  BY <1>1, <1>2, GetMarketIs DEF ReadFits

MarketStep ==
    LET old == GetMarket
        new == GetMarket'
    IN SessionRecords # {} /\ old.of = new.of /\ ~Overtaken'
          => Place(RecordedStages, old.stage) <= Place(RecordedStages, new.stage)

LEMMA MarketMoves ==
    ASSUME StampsOK, StampsOK', NEW U, MarketInv(U)', ReadFits, ReadFits',
           \A k, value : OnFile(k, value) => OnFile(k, value)'
    PROVE  MarketStep
<1>1. PICK v, w : v = GetMarket /\ w = GetMarket'
  OBVIOUS
<1> SUFFICES ASSUME SessionRecords # {}, v.of = w.of, ~Overtaken'
             PROVE  Place(RecordedStages, v.stage) <= Place(RecordedStages, w.stage)
  BY <1>1 DEF MarketStep
<1>2. \A x : x \in SessionRecords <=> \E k : k[1] = "session" /\ OnFile(k, x)
  BY DEF SessionRecords, OnFile, Records, ToSet
<1>3. \A x : x \in SessionRecords' <=> \E k : k[1] = "session" /\ OnFile(k, x)'
  BY DEF SessionRecords, OnFile, Records, ToSet
<1>4. v \in SessionRecords' /\ w \in SessionRecords'
  BY <1>1, <1>2, <1>3 DEF ReadFits
<1>5. PICK at, later : at = UpdatedAt(v)' /\ later = UpdatedAt(w)'
  OBVIOUS
<1>6. /\ at \in Nat /\ later \in Nat /\ at <= later
      /\ stamped'[at] = v.stage /\ stamped'[later] = w.stage
  BY <1>1, <1>4, <1>5 DEF ReadFits
<1>7. PICK e, f : e \in U /\ f \in U /\ e.value = v /\ f.value = w
  <2>1. (\E e \in U : e.value = v) /\ (\E f \in U : f.value = w)
    BY <1>4 DEF ReadFits
  <2> QED
    BY <2>1
<1>8. /\ v.read \in Nat /\ w.read \in Nat
      /\ Place(RecordedStages, v.stage) \in Nat
      /\ v.read <= w.read => Place(RecordedStages, v.stage) <= Place(RecordedStages, w.stage)
  <2>1. U \subseteq SessionFacts(thread)' /\ Chain(U)'
    BY DEF MarketInv
  <2>2. v \in SessionValues /\ w \in SessionValues
    <3>1. \A T : \A x \in SessionFacts(T) : x.value \in SessionValues
      BY SessionFactIs
    <3>2. SessionFacts(thread)' = SessionFacts(thread')
      BY DEF SessionFacts, SessionClaims
    <3> QED
      BY <1>7, <2>1, <3>1, <3>2
  <2> QED
    BY <1>7, <2>1, <2>2 DEF Chain, RankOf, SessionValues
<1>9. CASE at = later
  BY <1>6, <1>8, <1>9
<1>10. CASE at < later
  <2>1. ~(w.read < v.read)
    BY <1>4, <1>5, <1>10 DEF Overtaken
  <2> QED
    BY <1>8, <2>1
<1> QED
  BY <1>6, <1>9, <1>10

(* The invariant: there is such a chain.                                   *)
MarketHolds == ArchiveInv /\ StampsOK /\ \E S : MarketInv(S)

LEMMA MarketKeeps ==
    ASSUME MarketHolds, [ArchiveNext]_archiveVars, ReadFits, ReadFits'
    PROVE  MarketHolds' /\ [MarketStep]_files
<1>1. ArchiveInv /\ ArchiveInv' /\ StampsOK /\ StampsOK'
  BY ArchiveKeeps, StampsKeep DEF MarketHolds
<1>2. PICK S : MarketInv(S)
  BY DEF MarketHolds
<1>3. CASE \E p \in Polls : ArchiveStep(p)
  <2>1. PICK U : /\ S \subseteq U /\ MarketInv(U)'
                 /\ \A k, value : OnFile(k, value) => OnFile(k, value)'
    BY <1>1, <1>2, <1>3, MarketStepKeeps
  <2>2. MarketStep
    BY <1>1, <2>1, MarketMoves
  <2> QED
    BY <1>1, <2>1, <2>2 DEF MarketHolds
<1>4. CASE [Talk]_talkVars /\ UNCHANGED <<feedVars, mirrorVars>>
  <2>1. MarketInv(S)'
    BY <1>1, <1>2, <1>4, MarketTalkKeeps
  <2>2. files' = files
    BY <1>4 DEF feedVars
  <2> QED
    BY <1>1, <2>1, <2>2 DEF MarketHolds
<1> QED
  BY <1>3, <1>4 DEF ArchiveNext, archiveVars, allVars

LEMMA MarketStarts == ASSUME ArchiveInit PROVE MarketHolds
<1>1. ArchiveInv
  BY ArchiveStarts
<1>2. /\ todo = [p \in Polls |-> <<>>] /\ writing = [p \in Polls |-> FALSE] /\ DOMAIN files = {}
      /\ stamped = <<>>
  BY DEF ArchiveInit, FeedInit
<1>3. PICK A : A = {} \cup OtherFacts(thread)
  OBVIOUS
<1>4. QueuesOK(A)
  <2>1. <<>> \in Seq(A)
    OBVIOUS
  <2> QED
    BY <1>2, <2>1 DEF QueuesOK
<1>5. MarketInv({})
  BY <1>2, <1>3, <1>4 DEF MarketInv, Chain, Recent, FilesOK
<1>6. StampsOK
  <2>1. SessionRecords = {}
    BY <1>2 DEF SessionRecords
  <2>2. <<>> \in Seq(StageNames)
    OBVIOUS
  <2> QED
    BY <1>2, <2>1, <2>2 DEF StampsOK
<1> QED
  BY <1>1, <1>5, <1>6 DEF MarketHolds

(* Shown by records of one of its rounds, a session does not go back in the *)
(* files but where a pass was overtaken between its state and its time,    *)
(* however many rounds and passes there are and however late an old pass   *)
(* still appends.                                                          *)
THEOREM MarketsAdvance == ArchiveSpec => MarketAdvances
<1>1. ArchiveInit => MarketHolds
  BY MarketStarts
<1>2. MarketHolds /\ [ArchiveNext]_archiveVars /\ ReadFits /\ ReadFits'
         => MarketHolds' /\ [MarketStep]_files
  BY MarketKeeps
<1>3. ArchiveSpec => [][MarketStep]_files
  BY <1>1, <1>2, ReadsFit, PTL DEF ArchiveSpec
<1> QED
  BY <1>3 DEF MarketAdvances, MarketStep
=============================================================================
