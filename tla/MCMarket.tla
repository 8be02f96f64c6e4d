------------------------------ MODULE MCMarket ------------------------------
(* Small instances of Market: two sellers, with wallets of their own or    *)
(* with the one wallet the starter gives them all (marketplace/start.ts).  *)
EXTENDS Market, TLC

CONSTANTS macro, news, macroWallet, newsWallet

MCSellers == {macro, news}
MCParties == {Buyer, ArbiterKey, macroWallet, newsWallet}
MCWallet == (macro :> macroWallet) @@ (news :> newsWallet)
SharedWallet == [s \in MCSellers |-> macroWallet]
MCEndowment == [q \in MCParties |-> IF q = Buyer THEN 8 ELSE 0]
MCRefs == (1..MaxTurns) \X {macroWallet, newsWallet} \X (1..Max(Proposals \cup {Budget}))

MCFloor == (macro :> 2) @@ (news :> 2)

(* Two orders are only followed in arbiter mode, two rounds and two        *)
(* sessions in both.                                                       *)
DirectOnce == mode = "direct" => Cardinality(deposited) <= 1
=============================================================================
