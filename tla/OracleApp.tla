----------------------------- MODULE OracleApp -----------------------------
(***************************************************************************)
(* The World Cup demo's page (txodds/web/app.js).  It polls the proxy's    *)
(* board until one has live odds, and shows sample fixtures until then.    *)
(* For the fixture that is selected an effect asks for the agent's read    *)
(* and then settles it; the effect of an earlier selection runs on, and    *)
(* its closure's alive flag is all that keeps its answers off the page.    *)
(* A visitor may pay for the read, too.  React renders what one callback   *)
(* sets at once and runs the effects of that render: one step here.        *)
(***************************************************************************)
EXTENDS Naturals, Sequences, FiniteSets, Functions

CONSTANTS DEMO_FIXTURES, LiveFixtures, \* sequences of fixtures
          Nameless,    \* the live fixtures whose 1X2 row has no PriceNames
          MaxTries,    \* the polls after the first (30 in the code)
          MaxSelects,  \* bound on the presses that select a fixture
          MaxPays,     \* bound on the presses that pay
          Null

Fixtures == Range(DEMO_FIXTURES) \cup Range(LiveFixtures)

\* The samples and a board that ends the polling have fixtures; Null is no
\* text, no analysis and no settlement.
ASSUME OracleAppAssumption ==
  /\ 1 \in DOMAIN DEMO_FIXTURES /\ 1 \in DOMAIN LiveFixtures
  /\ Null \notin {"live", "demo", "intent", "send", "verify"}
  /\ Null \notin [of : Fixtures, from : {"page", "proxy"}, demo : BOOLEAN, sample : BOOLEAN]
  /\ Null \notin [of : Fixtures, ok : BOOLEAN]

VARIABLES page,      \* fixtures, source, idx; edge, settleRes and settling
          polling,   \* the board's poll: "fetch", "timer" or "off", and its tries
          effects,   \* the effects that wait for the proxy
          runs,      \* how many effects have started: the last one is alive
          button,    \* the pay button: its state, and the call behind it
          landed,    \* the references of the transfers that landed
          presses

oracleAppVars == <<page, polling, effects, runs, button, landed, presses>>

OracleAppInit ==
  /\ page = [fixtures |-> <<>>, source |-> Null, idx |-> 1, edge |-> Null,
             settleRes |-> Null, settling |-> FALSE]
  /\ polling = [pc |-> "fetch", tries |-> 0]
  /\ effects = {}
  /\ runs = 0
  /\ button = [status |-> "idle", at |-> Null, of |-> Null, ref |-> Null]
  /\ landed = {}
  /\ presses = [select |-> 0, pay |-> 0]

Selected(p) == p.fixtures[p.idx]

-----------------------------------------------------------------------------
(* The read of the selected fixture, and its settlement.                   *)

\* clientEdge: made of the fixture's own odds, or of sample odds when it has
\* none, and when the row it takes names no prices.  A fixture of a live board
\* has a row (proxy.ts:128-147), so its read never says that it is a demo.
ClientEdge(fx, live) ==
  [of |-> fx, from |-> "page", demo |-> ~live, sample |-> ~live \/ fx \in Nameless]

ProxyEdge(fx) == [of |-> fx, from |-> "proxy", demo |-> FALSE, sample |-> FALSE]

\* The effect of a render whose fixtures or index changed.  Without a live
\* source there is nothing to wait for.
Render(p) ==
  LET live == p.source = "live" IN
  /\ runs' = runs + 1
  /\ page' = [p EXCEPT !.edge = IF live THEN Null ELSE ClientEdge(Selected(p), live),
                       !.settleRes = Null, !.settling = FALSE]
  /\ effects' = IF live THEN effects \cup {[run |-> runs + 1, of |-> Selected(p), at |-> "edge"]}
                ELSE effects

\* A slip: the effect's cleanup does not clear the flag.
AliveMutant(x) == TRUE

Alive(x) == x.run = runs

\* An answer without an analysis, or none, leaves the page's own read.
EdgeAnswered(x) ==
  /\ x.at = "edge"
  /\ IF Alive(x)
     THEN /\ \E e \in {ProxyEdge(x.of), ClientEdge(x.of, TRUE)} :
               page' = [page EXCEPT !.edge = e, !.settling = TRUE]
          /\ effects' = (effects \ {x}) \cup {[x EXCEPT !.at = "settle"]}
     ELSE effects' = effects \ {x} /\ UNCHANGED page
  /\ UNCHANGED <<polling, runs, button, landed, presses>>

\* The settlement is answered, one way or the other, or the call throws.
Settled(x) ==
  /\ x.at = "settle"
  /\ effects' = effects \ {x}
  /\ IF Alive(x)
     THEN \E ok \in BOOLEAN :
            page' = [page EXCEPT !.settleRes = [of |-> x.of, ok |-> ok], !.settling = FALSE]
     ELSE UNCHANGED page
  /\ UNCHANGED <<polling, runs, button, landed, presses>>

-----------------------------------------------------------------------------
(* The board.                                                              *)

\* A board with fixtures ends the polling.
BoardArrives ==
  /\ polling.pc = "fetch"
  /\ polling' = [polling EXCEPT !.pc = "off"]
  /\ Render([page EXCEPT !.fixtures = LiveFixtures, !.source = "live", !.idx = 1])
  /\ UNCHANGED <<button, landed, presses>>

\* An empty board or an error: the samples stand in, and the next try is set.
BoardIsQuiet ==
  /\ polling.pc = "fetch"
  /\ polling' = [pc |-> IF polling.tries < MaxTries THEN "timer" ELSE "off",
                 tries |-> polling.tries + 1]
  /\ IF page.fixtures = <<>>
     THEN Render([page EXCEPT !.fixtures = DEMO_FIXTURES, !.source = "demo"])
     ELSE UNCHANGED <<page, runs, effects>>
  /\ UNCHANGED <<button, landed, presses>>

PollAgain ==
  /\ polling.pc = "timer"
  /\ polling' = [polling EXCEPT !.pc = "fetch"]
  /\ UNCHANGED <<page, effects, runs, button, landed, presses>>

Select(i) ==
  /\ presses.select < MaxSelects
  /\ i # page.idx
  /\ Render([page EXCEPT !.idx = i])
  /\ presses' = [presses EXCEPT !.select = @ + 1]
  /\ UNCHANGED <<polling, button, landed>>

-----------------------------------------------------------------------------
(* The pay button: it keeps its state when another fixture is selected.    *)

ButtonAt(status, at) == [button EXCEPT !.status = status, !.at = at]

\* Anything on the way may throw.
Throws == button' = ButtonAt("error", Null) /\ UNCHANGED landed

\* Without a wallet there is nothing but a message.
Pay ==
  /\ presses.pay < MaxPays
  /\ page.fixtures # <<>>
  /\ button.status \notin {"busy", "ok"}
  /\ \/ button' = [status |-> "busy", at |-> "intent", of |-> Selected(page), ref |-> Null]
     \/ button' = ButtonAt("error", Null)
  /\ presses' = [presses EXCEPT !.pay = @ + 1]
  /\ UNCHANGED <<page, polling, effects, runs, landed>>

\* /api/pay-intent binds a new reference to the order.
BoundReference(fx) == [of |-> fx, nonce |-> presses.pay]

PayIntent ==
  /\ button.at = "intent"
  /\ \/ /\ button' = [ButtonAt("busy", "send") EXCEPT !.ref = BoundReference(button.of)]
        /\ UNCHANGED landed
     \/ Throws
  /\ UNCHANGED <<page, polling, effects, runs, presses>>

\* The wallet signs and the transfer is sent and confirmed; it may land although
\* the call throws.
SendTransfer ==
  /\ button.at = "send"
  /\ \/ landed' = landed \cup {button.ref} /\ button' = ButtonAt("busy", "verify")
     \/ landed' = landed \cup {button.ref} /\ button' = ButtonAt("error", Null)
     \/ Throws
  /\ UNCHANGED <<page, polling, effects, runs, presses>>

\* /api/pay-verify finds the transfer with the reference, or does not yet.
PayVerify ==
  /\ button.at = "verify"
  /\ \/ button.ref \in landed /\ button' = ButtonAt("ok", Null)
     \/ button' = ButtonAt("error", Null)
  /\ UNCHANGED <<page, polling, effects, runs, landed, presses>>

OracleAppNext ==
  \/ BoardArrives \/ BoardIsQuiet \/ PollAgain
  \/ \E i \in DOMAIN page.fixtures : Select(i)
  \/ \E x \in effects : EdgeAnswered(x) \/ Settled(x)
  \/ Pay \/ PayIntent \/ SendTransfer \/ PayVerify

-----------------------------------------------------------------------------
(* Properties.                                                             *)

\* The read and the settlement on the page are those of the fixture that is
\* selected, however late earlier ones answer; the spinner turns exactly while
\* the selection's own settlement is under way; nothing but a live read is
\* settled.  A read says that it is a demo on the samples and never on a live
\* board; "we never mix demo numbers into a live fixture" holds but for the
\* page's own read of a live fixture whose row names no prices
\* (app.js:91-98, 352, 382-417).  What was paid by hand and verified landed under
\* a reference of the fixture that the click was on (app.js:291-321).
ReadIsOfSelection ==
  /\ page.edge # Null =>
       /\ page.edge.of = Selected(page)
       /\ page.edge.demo <=> page.source = "demo"
       /\ page.edge.sample <=>
            \/ page.source = "demo"
            \/ page.edge.from = "page" /\ page.edge.of \in Nameless
  /\ page.settling <=> \E x \in effects : x.run = runs /\ x.at = "settle"
  /\ page.settleRes # Null =>
       page.settleRes.of = Selected(page) /\ page.source = "live" /\ page.edge # Null
  /\ button.status = "ok" => button.ref \in landed /\ button.ref.of = button.of
=============================================================================
