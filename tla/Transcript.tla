----------------------------- MODULE Transcript -----------------------------
(***************************************************************************)
(* What a market session says and how the feed reads it back.              *)
(*                                                                         *)
(* The first part is pure: foldRounds.ts turns a thread into rounds, and   *)
(* marketStatus.ts and data/persistence.ts each derive from a round how    *)
(* far it is.  The second is the order in which the agents of one session  *)
(* write to its thread (buyer-agent/src/index.ts, seller-agent/src/        *)
(* index.ts).  What a message carries is abstracted to its verb, its round *)
(* and the seller or verdict it names; a delivery is taken to be JSON, and *)
(* RELEASED stands for ARBITER_RELEASED too.                               *)
(* Why a buyer asks, awards or pays is module Market's subject.            *)
(*                                                                         *)
(* foldRounds is a left fold over the messages, so it is kept up message   *)
(* by message: rounds is what it returns for the thread so far, and of the *)
(* thread itself only the set of messages matters then.                    *)
(***************************************************************************)
EXTENDS Integers, SequencesExt

CONSTANTS
    Sellers,
    MaxRounds,      \* bound: rounds asked in the session
    NoSeller

ASSUME TranscriptAssumption == MaxRounds \in Nat /\ NoSeller \notin Sellers

Rounds == 1..MaxRounds
Verbs == {"WANT", "BID", "AWARD", "ESCROW_REQUIRED", "DEPOSITED", "DELIVERED",
          "VERIFIED", "RELEASED", "REFUNDED"}

VARIABLES
    thread,     \* the messages sent in the session
    rounds,     \* what foldRounds makes of them, in the order they were sent
    asked,      \* the buyer's round
    stage       \* where in that round it is

talkVars == <<thread, rounds, asked, stage>>

Msg(verb, n, about) == [verb |-> verb, round |-> n, about |-> about]
Said(m) == m \in thread
-----------------------------------------------------------------------------
(* foldRounds: one record per round that some message names.               *)

NewRound ==
    [want |-> FALSE, bids |-> <<>>, award |-> NoSeller, escrow |-> FALSE, deposit |-> FALSE,
     delivered |-> FALSE, verified |-> "none", release |-> FALSE, refunded |-> FALSE,
     status |-> "bidding"]

Unsettled(r, status) == IF r.status = "settled" THEN "settled" ELSE status

(* Definitions named ...Mutant are slips this code could have had.  No     *)
(* specification uses them: each shows that a property would catch it.     *)
HeardBidMutant(r, s) == [r EXCEPT !.bids = Append(@, s), !.status = "bidding"]

HeardBid(r, s) ==
    IF s \in ToSet(r.bids) THEN r ELSE [r EXCEPT !.bids = Append(@, s)]

Absorb(r, m) ==
    CASE m.verb = "WANT" -> [r EXCEPT !.want = TRUE]
      [] m.verb = "BID" -> HeardBid(r, m.about)
      [] m.verb = "AWARD" ->
            [r EXCEPT !.award = m.about, !.status = IF @ = "bidding" THEN "awarded" ELSE @]
      [] m.verb = "ESCROW_REQUIRED" -> [r EXCEPT !.escrow = TRUE]
      [] m.verb = "DEPOSITED" ->
            [r EXCEPT !.deposit = TRUE, !.status = Unsettled(r, "deposited")]
      [] m.verb = "DELIVERED" ->
            [r EXCEPT !.delivered = TRUE, !.status = Unsettled(r, "delivered")]
      [] m.verb = "VERIFIED" ->
            [r EXCEPT !.verified = m.about,
                      !.status = Unsettled(r, IF m.about = "PASS" THEN "verified" ELSE "delivered")]
      [] m.verb = "RELEASED" -> [r EXCEPT !.release = TRUE, !.status = "settled"]
      [] m.verb = "REFUNDED" -> [r EXCEPT !.refunded = TRUE, !.status = "refunded"]

(* A map of which one key is set.                                          *)
With(map, key, value) ==
    [k \in DOMAIN map \cup {key} |-> IF k = key THEN value ELSE map[k]]

(* The fold goes on by one message.                                        *)
Fold(m) ==
    rounds' = With(rounds, m.round,
                   Absorb(IF m.round \in DOMAIN rounds THEN rounds[m.round] ELSE NewRound, m))

(* Of a list of facts, the name beside the last one that holds.            *)
Furthest(facts, names, default) ==
    LET held == {i \in DOMAIN facts : facts[i]}
    IN IF held = {} THEN default ELSE names[Max(held)]

(* marketStatus.ts: the stage shown for a round.                           *)
Stages == <<"WANT_BROADCAST", "BIDS_RECEIVED", "WINNER_SELECTED", "ESCROW_REQUESTED",
            "ESCROW_DEPOSITED", "INTELLIGENCE_DELIVERED", "VERIFICATION_COMPLETE",
            "PAYMENT_RELEASED", "REFUNDED">>

ShownStage(r) ==
    IF ~r.want THEN "SESSION_CREATED"
    ELSE Furthest(<<r.want, r.bids # <<>>, r.award # NoSeller, r.escrow, r.deposit, r.delivered,
                    r.verified # "none", r.release, r.refunded>>, Stages, "SESSION_CREATED")

(* deriveMarketStatus shows the latest round that has messages.            *)
Latest == Max(DOMAIN rounds)

(* persistence.ts: the stage under which a session is recorded.            *)
RecordedStage(r) ==
    Furthest(<<r.want, r.bids # <<>>, r.award # NoSeller, r.deposit, r.delivered,
               r.verified # "none", r.refunded, r.release>>,
             <<"WANT_BROADCAST", "BIDS_RECEIVED", "WINNER_SELECTED", "SETTLEMENT_INITIATED",
               "MEMO_GENERATED",
               IF r.verified = "PASS" THEN "VERIFICATION_PASSED" ELSE "VERIFICATION_FAILED",
               "REFUNDED", "PAYMENT_RELEASED">>,
             "SESSION_CREATED")

SettlementStatusMutant(r) ==
    Furthest(<<r.escrow, r.deposit, r.refunded, r.release, r.verified # "none">>,
             <<"REQUESTED", "DEPOSITED", "REFUNDED", "RELEASED", "VERIFIED">>, "none")

SettlementStatus(r) ==
    Furthest(<<r.escrow, r.deposit, r.verified # "none", r.refunded, r.release>>,
             <<"REQUESTED", "DEPOSITED", "VERIFIED", "REFUNDED", "RELEASED">>, "none")
-----------------------------------------------------------------------------
Say(m) == thread' = thread \cup {m} /\ Fold(m)

TalkInit == thread = {} /\ rounds = <<>> /\ asked = 0 /\ stage = "idle"

(* The buyer goes through a round's stages in order and may leave it from  *)
(* any of them: its waits time out and its calls throw.                    *)

Buyer(from, to, m) ==
    /\ stage = from
    /\ stage' = to
    /\ Say(m)
    /\ UNCHANGED asked

Ask ==
    /\ stage = "idle"
    /\ asked < MaxRounds
    /\ asked' = asked + 1
    /\ stage' = "bidding"
    /\ Say(Msg("WANT", asked', NoSeller))

Award(s) == Said(Msg("BID", asked, s)) /\ Buyer("bidding", "terms", Msg("AWARD", asked, s))

Deposit ==
    \E s \in Sellers :
       /\ Said(Msg("ESCROW_REQUIRED", asked, s))
       /\ Buyer("terms", "delivery", Msg("DEPOSITED", asked, s))

Verify ==
    \E s \in Sellers, verdict \in {"PASS", "FAIL"} :
       /\ Said(Msg("DELIVERED", asked, s))
       /\ Buyer("delivery", IF verdict = "PASS" THEN "releasing" ELSE "idle",
                Msg("VERIFIED", asked, verdict))

Release == Buyer("releasing", "idle", Msg("RELEASED", asked, NoSeller))

MoveOn ==
    /\ stage # "idle"
    /\ stage' = "idle"
    /\ UNCHANGED <<thread, rounds, asked>>

(* A seller answers each message once, late or never, whatever the buyer   *)
(* does meanwhile.                                                         *)
Answer(s, verb, to, m) ==
    \E n \in Rounds :
       /\ Said(Msg(verb, n, to))
       /\ ~Said(Msg(m, n, s))
       /\ Say(Msg(m, n, s))
       /\ UNCHANGED <<asked, stage>>

Bid(s) == Answer(s, "WANT", NoSeller, "BID")
SendTerms(s) == Answer(s, "AWARD", s, "ESCROW_REQUIRED")
Deliver(s) == Answer(s, "DEPOSITED", s, "DELIVERED")

Talk ==
    \/ Ask \/ Deposit \/ Verify \/ Release \/ MoveOn
    \/ \E s \in Sellers : Award(s) \/ Bid(s) \/ SendTerms(s) \/ Deliver(s)

TalkSpec == TalkInit /\ [][Talk]_talkVars
-----------------------------------------------------------------------------
Statuses == <<"bidding", "awarded", "deposited", "delivered", "verified", "settled">>
Place(list, name) == CHOOSE i \in DOMAIN list : list[i] = name

(* Four files say how far a round is; these are the answers that fit:      *)
(* the round's status, the stage shown, the stage and the settlement       *)
(* recorded.                                                               *)
Consistent ==
    {<<"bidding", "WANT_BROADCAST", "WANT_BROADCAST", "none">>,
     <<"bidding", "BIDS_RECEIVED", "BIDS_RECEIVED", "none">>,
     <<"awarded", "WINNER_SELECTED", "WINNER_SELECTED", "none">>,
     <<"awarded", "ESCROW_REQUESTED", "WINNER_SELECTED", "REQUESTED">>,
     <<"deposited", "ESCROW_DEPOSITED", "SETTLEMENT_INITIATED", "DEPOSITED">>,
     <<"delivered", "INTELLIGENCE_DELIVERED", "MEMO_GENERATED", "DEPOSITED">>,
     <<"delivered", "VERIFICATION_COMPLETE", "VERIFICATION_FAILED", "VERIFIED">>,
     <<"verified", "VERIFICATION_COMPLETE", "VERIFICATION_PASSED", "VERIFIED">>,
     <<"settled", "PAYMENT_RELEASED", "PAYMENT_RELEASED", "RELEASED">>}

(* The status of a round, the stage the dashboard shows and what is put on *)
(* record are derived in three files, with a list of cases each; whatever  *)
(* arrives late, they tell the same story (foldRounds.ts:82-111,           *)
(* marketStatus.ts:99-189, persistence.ts:269-299).                        *)
DerivationsAgree ==
    \A n \in DOMAIN rounds :
       LET r == rounds[n]
       IN <<r.status, ShownStage(r), RecordedStage(r), SettlementStatus(r)>> \in Consistent

(* A round never seems to go back: not its status, not its stage, whatever *)
(* a seller that is late still sends (foldRounds.ts:70-111); and the       *)
(* dashboard turns to another round only when the buyer asks again         *)
(* (marketStatus.ts:33-34).                                                *)
RoundAdvances ==
    [][/\ \A n \in DOMAIN rounds :
             LET r == rounds[n]
                 next == rounds'[n]
             IN /\ Place(Statuses, r.status) <= Place(Statuses, next.status)
                /\ Place(Stages, ShownStage(r)) <= Place(Stages, ShownStage(next))
       /\ asked' = asked /\ asked > 0 => Latest' = Latest]_rounds
=============================================================================
