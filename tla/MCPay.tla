------------------------------- MODULE MCPay -------------------------------
(* Small instances of the four deployments that pay by reference or settle: which   *)
(* of them runs is chosen at the start, and the others stand still.        *)
EXTENDS Purchase, Broker, Bridge, Oracle

MCSELLERS == <<"s1", "s2">>

\* The agents' wallets are theirs alone.
ASSUME WalletsAssumption ==
  /\ Buyer \notin Customers

PayInit ==
  /\ PaymentsInit /\ PurchaseInit /\ BrokerInit /\ BridgeInit /\ OracleInit
  /\ demo # "quickstart" => buyer.strategy = "guarded"
  /\ demo # "oracle" => arbiter.key

PurchaseNext ==
  (PurchaseStep \/ PurchaseEvent) /\ UNCHANGED <<brokerVars, bridgeVars, oracleVars>>
BrokerNext ==
  (BrokerStep \/ BrokerEvent) /\ UNCHANGED <<purchaseVars, bridgeVars, oracleVars>>
BridgeNext ==
  (BridgeStep \/ BridgeEvent) /\ UNCHANGED <<purchaseVars, brokerVars, oracleVars>>

OracleNext ==
  (OracleStep \/ OracleEvent) /\ UNCHANGED <<purchaseVars, brokerVars, bridgeVars>>

PayNext == PurchaseNext \/ BrokerNext \/ BridgeNext \/ OracleNext

vars == <<payVars, purchaseVars, brokerVars, bridgeVars, oracleVars>>

PaySpec == PayInit /\ [][PayNext]_vars
=============================================================================
