----------------------------- MODULE MCClients -----------------------------
(* Parts that share nothing with each other, one to a behaviour: three      *)
(* clients of the feed server (the dashboard, a backtest, a paper trader),  *)
(* the server's own reads and streams of a session, a seller's data, and    *)
(* the World Cup page.                                                      *)
EXTENDS Dashboard, Backtest, Desk, Sessions, Gateway, OracleApp
CONSTANTS s1, s2, omniquant, research, other, nvda, aapl, w1, w2, brazil, france, spain
MCSessions == <<s1, s2>>
MCSamples == <<brazil, france>>
MCBoard == <<france, spain>>
MCPrices == {19, 20, 24}
MCDeskPrices == {3, 5}
MCLimits == [maxPositionPct |-> 100, maxOpenPositions |-> 2]
MCNamespaces == {omniquant, research, other}
MCAssets == {nvda, aapl}

VARIABLE client

quantVars == <<backtestVars, deskVars>>
serverVars == <<sessionsVars, gatewayVars, oracleAppVars>>
clientsVars == <<client, dashboardVars, quantVars, serverVars>>

ClientsInit ==
  /\ client \in {"dashboard", "backtest", "desk", "sessions", "gateway", "oracle"}
  /\ DashboardInit
  /\ BacktestInit
  /\ DeskInit
  /\ SessionsInit
  /\ GatewayInit
  /\ OracleAppInit

Browses ==
  client = "dashboard" /\ DashboardNext /\ UNCHANGED <<client, quantVars, serverVars>>

Backtests ==
  client = "backtest" /\ BacktestNext /\ UNCHANGED <<client, dashboardVars, deskVars, serverVars>>

Orders ==
  client = "desk" /\ DeskNext /\ UNCHANGED <<client, dashboardVars, backtestVars, serverVars>>

Streams ==
  client = "sessions" /\ SessionsNext /\ UNCHANGED <<client, dashboardVars, quantVars, gatewayVars, oracleAppVars>>

Sells ==
  client = "gateway" /\ GatewayNext /\ UNCHANGED <<client, dashboardVars, quantVars, sessionsVars, oracleAppVars>>

Reads ==
  client = "oracle" /\ OracleAppNext
    /\ UNCHANGED <<client, dashboardVars, quantVars, sessionsVars, gatewayVars>>

ClientsNext == Browses \/ Backtests \/ Orders \/ Streams \/ Sells \/ Reads

ClientsSpec ==
  ClientsInit /\ [][ClientsNext]_clientsVars /\ DashboardFairness /\ SessionsFairness

\* What the two pages show is of what is selected on them.
ShownIsSelected == DetailIsOfSelection /\ ReadIsOfSelection
=============================================================================
