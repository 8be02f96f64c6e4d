------------------------------ MODULE Arbiter -------------------------------
(***************************************************************************)
(* The arbiter program (examples/txodds/escrow/programs/arbiter/src/lib.rs)*)
(* on top of the escrow program.  A vault PDA per order reference is the   *)
(* escrow's buyer; it signs only inside this program, so the wallet that   *)
(* funds an order can neither release nor refund it.                       *)
(*                                                                         *)
(* Wallets go on using the escrow program and the System program directly. *)
(* A payee of an order and the receiver of a refund are wallets: naming a  *)
(* vault or the configuration account there is left out.                   *)
(***************************************************************************)
EXTENDS Escrow

CONSTANTS
    Vault,          \* Vault[r]: the PDA seeded [b"vault", r]
    ConfigAccount,  \* the PDA seeded [b"config"]
    ConfigRent,     \* its rent-exempt minimum
    Nobody

Wallets == Accounts \ ({Vault[r] : r \in Refs} \cup {ConfigAccount})

ASSUME VaultAssumption ==
    /\ Vault \in [Refs -> Accounts]
    /\ \A q, r \in Refs : Vault[q] = Vault[r] => q = r
    /\ ConfigAccount \in Accounts
    /\ \A r \in Refs : Vault[r] # ConfigAccount
ASSUME ConfigRentAssumption == ConfigRent \in Nat
ASSUME NobodyAssumption == Nobody \notin Accounts

(* signer is a history variable: who signed the transaction that led here. *)
VARIABLES
    config,     \* config.arbiter, or Nobody while the account does not exist
    signer

arbiterVars == <<lamports, escrow, now, config, signer>>

OrderPda(r) == <<Vault[r], r>>

ArbiterTypeOK ==
    /\ TypeOK
    /\ config \in Wallets \cup {Nobody}
    /\ signer \in Wallets \cup {Nobody}
-----------------------------------------------------------------------------
ArbiterInit ==
    /\ Init
    /\ config = Nobody
    /\ signer = Nobody

(* One-time: `init` of the config account fails once it exists.            *)
InitConfig(admin, a) ==
    LET rent == IF lamports[ConfigAccount] < ConfigRent
                THEN ConfigRent - lamports[ConfigAccount] ELSE 0
    IN /\ config = Nobody
       /\ lamports[admin] >= rent
       /\ config' = a
       /\ lamports' = Move(lamports, admin, ConfigAccount, rent)
       /\ UNCHANGED <<escrow, now>>

(* The payer funds the vault with the deposit and a whole rent, then the   *)
(* vault initializes the escrow: two transfers of one transaction.         *)
Open(payer, r, t) ==
    LET fund   == t.amount + Rent
        funded == Move(lamports, payer, Vault[r], fund)
    IN /\ lamports[payer] >= fund
       /\ CanInitialize(funded, Vault[r], OrderPda(r), t)
       /\ lamports' = Deposit(funded, Vault[r], OrderPda(r), t.amount)
       /\ escrow' = [escrow EXCEPT ![OrderPda(r)] = t]
       /\ UNCHANGED <<now, config>>

(* The escrow closes to its buyer, so its rent stays in the vault.         *)
ArbitrateRelease(a, r, s) ==
    /\ a = config
    /\ CanRelease(OrderPda(r), s)
    /\ lamports' = PayAndClose(lamports, Vault[r], OrderPda(r))
    /\ escrow' = [escrow EXCEPT ![OrderPda(r)] = NoEscrow]
    /\ UNCHANGED <<now, config>>

(* The escrow closes to the vault, and the whole vault goes to the account *)
(* the arbiter passes as payer, which nothing compares with that of Open.  *)
ArbitrateRefund(a, r, payer) ==
    LET closed == Close(lamports, Vault[r], OrderPda(r))
    IN /\ a = config
       /\ CanRefund(OrderPda(r))
       /\ lamports' = Move(closed, Vault[r], payer, closed[Vault[r]])
       /\ escrow' = [escrow EXCEPT ![OrderPda(r)] = NoEscrow]
       /\ UNCHANGED <<now, config>>

ArbiterStep(w) ==
    \/ \E a \in Wallets : InitConfig(w, a)
    \/ \E r \in Refs, s \in Wallets, n \in Amounts, d \in 0..Horizon :
          Open(w, r, [seller |-> s, amount |-> n, deadline |-> d])
    \/ \E r \in Refs, s \in Wallets : ArbitrateRelease(w, r, s)
    \/ \E r \in Refs, q \in Wallets : ArbitrateRefund(w, r, q)

ArbiterNext ==
    \/ \E w \in Wallets : /\ signer' = w
                          /\ \/ ArbiterStep(w)
                             \/ Direct({w}) /\ UNCHANGED config
    \/ Tick /\ UNCHANGED <<config, signer>>

ArbiterSpec == ArbiterInit /\ [][ArbiterNext]_arbiterVars
-----------------------------------------------------------------------------
(* The pot of an order is what its vault and its escrow hold together.     *)
Pot(r) == lamports[Vault[r]] + lamports[OrderPda(r)]

(* The arbiter program keeps the promise stated in module Order: whoever   *)
(* funds an order has no power over it, and it ends only by the appointed  *)
(* arbiter's signature (arbiter/src/lib.rs:7-15).                          *)
Promise == INSTANCE Order WITH
    Parties <- Wallets,
    Fee     <- Rent,
    NoOrder <- NoEscrow,
    order   <- [r \in Refs |-> escrow[OrderPda(r)]],
    pot     <- [r \in Refs |-> Pot(r)],
    purse   <- [w \in Wallets |-> lamports[w]],
    arbiter <- config,
    clock   <- now

KeepsPromise == Promise!OrderSpec

(* A deposit that a wallet made in its own name keeps its terms, and ends  *)
(* by them, in every step of either program: the arbiter's instructions do *)
(* not reach it (escrow/src/lib.rs:68-98, arbiter/src/lib.rs:177-229).     *)
WalletsByTerms ==
    [][\A p \in Pdas : p[1] \in Wallets /\ IsOpen(p) => Keeps(p) \/ Settles(p)]_arbiterVars

=============================================================================
