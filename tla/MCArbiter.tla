----------------------------- MODULE MCArbiter ------------------------------
(* A small instance of Arbiter: two wallets, either of which may become    *)
(* the arbiter, fund, sell and be refunded; one order reference.           *)
EXTENDS Arbiter, TLC

CONSTANTS alice, bob, vault1, configPda, ref1

MCAccounts == {alice, bob, vault1, configPda}
MCRefs == {ref1}
MCVault == [r \in MCRefs |-> vault1]
MCEndowment == [a \in MCAccounts |->
                  IF a = alice THEN 5 ELSE IF a = bob THEN 1 ELSE 0]
=============================================================================
