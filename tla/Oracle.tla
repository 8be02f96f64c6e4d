------------------------------- MODULE Oracle -------------------------------
(***************************************************************************)
(* The World Cup demo's proxy: it subscribes to the odds service on its    *)
(* first use, keeps the last board that had prices, and settles a read     *)
(* through the arbiter, or directly when that fails.  Its handlers run     *)
(* interleaved at every await and share the token, the board and the       *)
(* buyer's wallet.  Every settlement has a reference of its own.           *)
(***************************************************************************)
EXTENDS Payments

CONSTANTS Handlers,   \* the exchanges that the proxy serves at a time
          MaxServed,  \* bound on the exchanges that are started
          Arbiters    \* of BOOLEAN: is an arbiter's key configured?

VARIABLES token,       \* apiToken: None, "good", or "bad": not a string
          subscribed,  \* how many subscribe transactions landed
          board,       \* boardCache: has it a board, and how old
          shown,       \* how long ago a scan last found prices
          arbiter,     \* [key, configured, funded] of the neutral arbiter
          topups,      \* the transfers that fund the arbiter
          handlers,    \* by handler: where it is
          started

oracleVars ==
  <<token, subscribed, board, shown, arbiter, topups, handlers, started>>

\* Ages: below 30 s, below 300 s, older.
Fresh == 0
Old == 2

New(kind) == [pc |-> "rest", kind |-> kind, direct |-> FALSE, with |-> None,
              locked |-> 0, paid |-> 0, ok |-> TRUE, dark |-> FALSE]

OracleInit ==
  /\ token = None
  /\ subscribed = 0
  /\ board = [has |-> FALSE, age |-> Old]
  /\ shown = Old
  /\ arbiter \in [key : Arbiters, configured : {FALSE}, funded : {FALSE}]
  /\ topups = 0
  /\ handlers = [h \in Handlers |-> New("get")]
  /\ started = 0

At(h, pc) == handlers[h].pc = pc
Set(h, rec) == handlers' = [handlers EXCEPT ![h] = rec]
To(h, pc) == Set(h, [handlers[h] EXCEPT !.pc = pc])

-----------------------------------------------------------------------------
(* txGet, board, and where they lead.                                      *)

TxGet(rec) == [rec EXCEPT !.pc = IF token = None THEN "subscribe" ELSE "get"]

Answered(rec, ok) == [rec EXCEPT !.pc = "rest", !.ok = ok]

\* dark: an answer without a board although one was shown of late.
WithBoard(rec, dark) ==
  CASE rec.kind # "settle" -> Answered([rec EXCEPT !.dark = dark], TRUE)
    [] rec.direct -> [rec EXCEPT !.pc = "deposit"]
    [] OTHER -> [rec EXCEPT !.pc = "config"]

Board(rec) ==
  IF board.has /\ board.age = Fresh THEN WithBoard(rec, FALSE) ELSE TxGet(rec)

\* A slip: a settlement that failed is answered like one that did not.
FailedMutant(rec) ==
  CASE rec.kind = "settle" /\ ~rec.direct -> Board([rec EXCEPT !.direct = TRUE])
    [] rec.with # None -> [rec EXCEPT !.pc = "join"]
    [] OTHER -> Answered(rec, rec.kind = "settle")

\* What settleViaArbiter throws makes the route settle directly; an edge does
\* without the live odds.
Failed(rec) ==
  CASE rec.kind = "settle" /\ ~rec.direct -> Board([rec EXCEPT !.direct = TRUE])
    [] rec.with # None -> [rec EXCEPT !.pc = "join"]
    [] OTHER -> Answered(rec, FALSE)

Free(h) ==
  /\ At(h, "rest")
  /\ \A g \in Handlers : At(g, "rest") \/ handlers[g].with # h

Request(h) ==
  /\ started < MaxServed
  /\ Free(h)
  /\ Set(h, TxGet(New("get"))) \/ Set(h, Board(New("board")))
       \/ Set(h, Board([New("settle") EXCEPT !.direct = ~arbiter.key]))
  /\ started' = started + 1
  /\ UNCHANGED <<payVars, token, subscribed, board, shown, arbiter, topups>>

\* /api/edge asks for the odds and for the fixtures at once.
Edge(h, g) ==
  /\ started + 2 <= MaxServed
  /\ h # g /\ Free(h) /\ Free(g)
  /\ handlers' = [handlers EXCEPT
       ![h] = TxGet([New("edge") EXCEPT !.with = g]), ![g] = TxGet(New("get"))]
  /\ started' = started + 2
  /\ UNCHANGED <<payVars, token, subscribed, board, shown, arbiter, topups>>

\* Without live odds the edge is read off the board.
Join(h) ==
  /\ At(h, "join")
  /\ At(handlers[h].with, "rest")
  /\ LET ok == handlers[handlers[h].with].ok
         rec == [handlers[h] EXCEPT !.with = None]
     IN Set(h, Answered(rec, ok)) \/ (ok /\ Set(h, Board(rec)))
  /\ UNCHANGED <<payVars, token, subscribed, board, shown, arbiter, topups, started>>

-----------------------------------------------------------------------------
(* ensureToken: subscribe, then activate.                                  *)

Subscribe(h) ==
  /\ At(h, "subscribe")
  /\ \/ subscribed' = subscribed + 1 /\ To(h, "activate") /\ UNCHANGED faults
     \/ /\ Fault
        /\ subscribed' \in {subscribed, subscribed + 1}
        /\ Set(h, Failed(handlers[h]))
  /\ UNCHANGED <<demo, chain, debited, refs, token, board, shown, arbiter,
                 topups, started>>

\* An answer without a token is kept, too, before it is found wanting.
Kept(answer) == token' = answer

Activate(h) ==
  /\ At(h, "activate")
  /\ \/ Kept("good") /\ To(h, "get") /\ UNCHANGED faults
     \/ Fault /\ (Kept("bad") \/ UNCHANGED token) /\ Set(h, Failed(handlers[h]))
  /\ UNCHANGED <<demo, chain, debited, refs, subscribed, board, shown, arbiter,
                 topups, started>>

Got(h) ==
  /\ At(h, "get")
  /\ \/ /\ token # "bad"
        /\ CASE handlers[h].kind = "get" -> Set(h, Answered(handlers[h], TRUE))
             [] handlers[h].with # None -> To(h, "join")
             [] OTHER -> To(h, "scan")
        /\ UNCHANGED faults
     \/ token = "bad" /\ Set(h, Failed(handlers[h])) /\ UNCHANGED faults
     \/ Fault /\ Set(h, Failed(handlers[h]))
  /\ UNCHANGED <<demo, chain, debited, refs, token, subscribed, board, shown,
                 arbiter, topups, started>>

\* A slip: a scan without prices is cached like any other.
CachedMutant(found) == [has |-> found, age |-> Fresh]

\* "We never cache an empty scan".
Cached(found) == IF found THEN [has |-> TRUE, age |-> Fresh] ELSE board

\* The workers' scan of the fixtures finds prices, or none; a board that is
\* not too old stands in.
Scanned(h) ==
  /\ At(h, "scan")
  /\ \E found \in BOOLEAN :
       LET live == found \/ (board.has /\ board.age # Old) IN
       /\ board' = Cached(found)
       /\ shown' = IF found THEN Fresh ELSE shown
       /\ Set(h, WithBoard(handlers[h], ~live /\ shown # Old))
  /\ UNCHANGED <<payVars, token, subscribed, arbiter, topups, started>>

Later(age) == IF age = Old THEN Old ELSE age + 1

Tick ==
  /\ board' = [board EXCEPT !.age = Later(@)]
  /\ shown' = Later(shown)
  /\ UNCHANGED <<payVars, token, subscribed, arbiter, topups, handlers, started>>

-----------------------------------------------------------------------------
(* settleViaArbiter and settle.                                            *)

\* ensureArbiterConfig: fetch the configuration, and write it if there is none;
\* the program refuses to write it twice.
Configure(h) ==
  /\ At(h, "config")
  /\ \/ To(h, IF arbiter.configured THEN "fund" ELSE "init") /\ UNCHANGED faults
     \/ Fault /\ To(h, "init")
  /\ UNCHANGED <<demo, chain, debited, refs, token, subscribed, board, shown,
                 arbiter, topups, started>>

InitConfig(h) ==
  /\ At(h, "init")
  /\ \/ /\ ~arbiter.configured
        /\ arbiter' = [arbiter EXCEPT !.configured = TRUE]
        /\ To(h, "fund")
        /\ UNCHANGED faults
     \/ /\ arbiter.configured
        /\ Set(h, Failed(handlers[h]))
        /\ UNCHANGED <<arbiter, faults>>
     \/ /\ Fault
        /\ \/ arbiter' = [arbiter EXCEPT !.configured = TRUE]
           \/ UNCHANGED arbiter
        /\ Set(h, Failed(handlers[h]))
  /\ UNCHANGED <<demo, chain, debited, refs, token, subscribed, board, shown,
                 topups, started>>

\* ensureArbiterFunded: a balance that is low is topped up.
Funded(h) ==
  /\ At(h, "fund")
  /\ \/ To(h, IF arbiter.funded THEN "open" ELSE "topup") /\ UNCHANGED faults
     \/ Fault /\ Set(h, Failed(handlers[h]))
  /\ UNCHANGED <<demo, chain, debited, refs, token, subscribed, board, shown,
                 arbiter, topups, started>>

TopUp(h) ==
  /\ At(h, "topup")
  /\ \/ /\ arbiter' = [arbiter EXCEPT !.funded = TRUE]
        /\ topups' = topups + 1
        /\ \/ To(h, "open") /\ UNCHANGED faults
           \/ Fault /\ Set(h, Failed(handlers[h]))
     \/ Fault /\ Set(h, Failed(handlers[h])) /\ UNCHANGED <<arbiter, topups>>
  /\ UNCHANGED <<demo, chain, debited, refs, token, subscribed, board, shown, started>>

\* A transaction turns rec into done, and throws before or after it lands.
Transact(h, done, pc) ==
  /\ \/ Set(h, [done EXCEPT !.pc = pc]) /\ UNCHANGED faults
     \/ Fault /\ (Set(h, Failed(done)) \/ Set(h, Failed(handlers[h])))
  /\ UNCHANGED <<demo, chain, debited, refs, token, subscribed, board, shown,
                 arbiter, topups, started>>

\* open, or deposit.
Open(h) ==
  /\ At(h, "open") \/ At(h, "deposit")
  /\ Transact(h, [handlers[h] EXCEPT !.locked = @ + 1], "release")

\* arbitrate_release, or release.
Release(h) ==
  /\ At(h, "release")
  /\ Transact(h, [handlers[h] EXCEPT !.locked = @ - 1, !.paid = @ + 1], "rest")

\* The token and the board are kept in memory.
RestartProxy ==
  /\ Fault
  /\ token' = None
  /\ board' = [has |-> FALSE, age |-> Old]
  /\ shown' = Old
  /\ handlers' = [h \in Handlers |->
       IF At(h, "rest") THEN handlers[h]
       ELSE [Answered(handlers[h], FALSE) EXCEPT !.with = None]]
  /\ UNCHANGED <<demo, chain, debited, refs, subscribed, arbiter, topups, started>>

OracleStep ==
  /\ demo = "oracle"
  /\ \E h \in Handlers :
       \/ Request(h) \/ (\E g \in Handlers : Edge(h, g)) \/ Join(h)
       \/ Subscribe(h) \/ Activate(h) \/ Got(h) \/ Scanned(h)
       \/ Configure(h) \/ InitConfig(h) \/ Funded(h) \/ TopUp(h)
       \/ Open(h) \/ Release(h)
OracleEvent == demo = "oracle" /\ (Tick \/ RestartProxy)

-----------------------------------------------------------------------------
(* Properties.                                                             *)

\* An exchange is answered without a board only if no scan found prices for
\* five minutes, however the scans overlap (proxy.ts:138-165).
BoardStaysLive == \A h \in Handlers : ~handlers[h].dark

\* A settlement that reports success has paid the seller, and when no call
\* failed it paid once and left nothing locked, although of two settlements that
\* configure the arbiter one falls back to a direct escrow (proxy.ts:204-285,
\* 315-327).
SettledAsReported ==
  \A h \in Handlers :
    handlers[h].kind = "settle" /\ At(h, "rest") /\ handlers[h].ok =>
      /\ handlers[h].paid >= 1
      /\ faults = 0 => handlers[h].paid = 1 /\ handlers[h].locked = 0
=============================================================================
