------------------------------- MODULE Order --------------------------------
(***************************************************************************)
(* What the arbiter program promises about an order (its header,           *)
(* programs/arbiter/src/lib.rs:7-15), without vaults, PDAs or rent top-ups.*)
(* An order owns a pot.  Whoever funds it puts the amount and a fixed fee  *)
(* (the escrow account's rent) into the pot and has no power over it after:*)
(* only the arbiter, named once and for ever, ends the order, by paying    *)
(* the seller the amount or, from the deadline on, by emptying the pot.    *)
(* The fee of an order that pays its seller stays behind in the pot.       *)
(***************************************************************************)
EXTENDS Integers

CONSTANTS Refs, Parties, Fee, Horizon, NoOrder, Nobody

Orders == [seller : Parties, amount : Nat, deadline : Nat]

VARIABLES
    order,      \* order[r]: the terms of the open order r, or NoOrder
    pot,        \* pot[r]: what order r holds
    purse,      \* purse[q]: what party q holds
    arbiter,    \* the appointed arbiter, or Nobody
    signer,     \* the party that signed the last transaction
    clock

orderVars == <<order, pot, purse, arbiter, signer, clock>>

OrderInit ==
    /\ order = [r \in Refs |-> NoOrder]
    /\ pot \in [Refs -> Nat]
    /\ purse \in [Parties -> Nat]
    /\ arbiter = Nobody
    /\ signer = Nobody
    /\ clock = 0

Appoint ==
    /\ arbiter = Nobody
    /\ arbiter' \in Parties
    /\ purse' \in [Parties -> Nat]
    /\ UNCHANGED <<order, pot, clock>>

Place(r) ==
    /\ order[r] = NoOrder
    /\ order'[r] \in Orders
    /\ order'[r].amount > 0
    /\ order'[r].deadline > clock
    /\ order' = [order EXCEPT ![r] = order'[r]]
    /\ pot' = [pot EXCEPT ![r] = @ + order'[r].amount + Fee]
    /\ purse' = [purse EXCEPT ![signer'] = @ - (order'[r].amount + Fee)]
    /\ UNCHANGED <<arbiter, clock>>

Settle(r) ==
    /\ order[r] # NoOrder
    /\ arbiter # Nobody
    /\ signer' = arbiter
    /\ order' = [order EXCEPT ![r] = NoOrder]
    /\ UNCHANGED <<arbiter, clock>>

PaySeller(r) ==
    /\ Settle(r)
    /\ pot' = [pot EXCEPT ![r] = @ - order[r].amount]
    /\ purse' = [purse EXCEPT ![order[r].seller] = @ + order[r].amount]

(* The pot goes to a party of the arbiter's choice, not necessarily to the *)
(* one that filled it.                                                     *)
Reimburse(r, q) ==
    /\ Settle(r)
    /\ clock >= order[r].deadline
    /\ pot' = [pot EXCEPT ![r] = 0]
    /\ purse' = [purse EXCEPT ![q] = @ + pot[r]]

(* Anything the parties do among themselves: it leaves every order alone   *)
(* and takes nothing out of a pot.                                         *)
Outside ==
    /\ \A r \in Refs : pot'[r] >= pot[r]
    /\ pot' \in [Refs -> Nat]
    /\ purse' \in [Parties -> Nat]
    /\ UNCHANGED <<order, arbiter, clock>>

Pass ==
    /\ clock < Horizon
    /\ clock' = clock + 1
    /\ UNCHANGED <<order, pot, purse, arbiter, signer>>

Signed ==
    /\ signer' \in Parties
    /\ \/ Appoint
       \/ Outside
       \/ \E r \in Refs : \/ Place(r)
                          \/ PaySeller(r)
                          \/ \E q \in Parties : Reimburse(r, q)

OrderNext == Signed \/ Pass

OrderSpec == OrderInit /\ [][OrderNext]_orderVars
=============================================================================
