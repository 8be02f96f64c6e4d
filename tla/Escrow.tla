------------------------------- MODULE Escrow -------------------------------
(***************************************************************************)
(* The escrow program (examples/txodds/escrow/programs/escrow/src/lib.rs): *)
(* a buyer deposits lamports into a program-derived account (PDA) seeded   *)
(* by the buyer and the order reference, and either releases them to the   *)
(* seller or, from the deadline on, takes them back.                       *)
(*                                                                         *)
(* The state is the part of the chain the program reads and writes: the    *)
(* lamports of every address and the data of every escrow PDA.  A Solana   *)
(* transaction is atomic: an instruction that fails changes nothing, so an *)
(* instruction is an action whose guard is the conjunction of its checks.  *)
(*                                                                         *)
(* Abstracted: the 64-bit width of lamports and timestamps (the whole      *)
(* supply is below 2^63, and no sum here exceeds it), transaction fees,    *)
(* and the runtime's minimum balance of a wallet, which only rejects more  *)
(* transactions than this module does.                                     *)
(***************************************************************************)
EXTENDS Integers

CONSTANTS
    Accounts,   \* addresses with no program data: wallets, and any PDA used as one
    Refs,       \* order references
    Endowment,  \* Endowment[a]: the lamports of account a at the start
    Rent,       \* rent-exempt minimum of an escrow account
    Amounts,    \* the amounts an instruction may name
    Horizon,    \* bound on the clock
    NoEscrow    \* the data of an address that holds no escrow

(* The PDA seeds [b"escrow", buyer, reference] (lib.rs:112): one address   *)
(* per buyer and reference.                                                *)
Pdas == Accounts \X Refs

Addresses == Accounts \cup Pdas

(* The fields of struct Escrow that the address does not already determine.*)
Terms == [seller : Accounts, amount : Nat, deadline : Nat]

ASSUME RentAssumption == Rent \in Nat
ASSUME EndowmentAssumption == Endowment \in [Accounts -> Nat]
ASSUME AmountsAssumption == Amounts \subseteq Nat
ASSUME HorizonAssumption == Horizon \in Nat
ASSUME AddressAssumption == Accounts \cap Pdas = {}
ASSUME NoEscrowAssumption == NoEscrow \notin Terms

VARIABLES
    lamports,   \* lamports[x]: the balance of address x
    escrow,     \* escrow[p]: the terms stored at PDA p, or NoEscrow
    now         \* Clock::get()?.unix_timestamp

vars == <<lamports, escrow, now>>

TypeOK ==
    /\ lamports \in [Addresses -> Nat]
    /\ escrow \in [Pdas -> Terms \cup {NoEscrow}]
    /\ now \in 0..Horizon

IsOpen(p) == escrow[p] # NoEscrow
-----------------------------------------------------------------------------
(* Lamport moves.  Each takes the balances before and gives those after,   *)
(* so that a program that calls this one composes them.                    *)

Move(bal, from, to, n) ==
    LET debited == [bal EXCEPT ![from] = @ - n]
    IN [debited EXCEPT ![to] = @ + n]

(* `init` makes the buyer pay what the PDA still lacks of its rent: an     *)
(* address somebody has already sent lamports to needs less.               *)
TopUp(bal, p) == IF bal[p] < Rent THEN Rent - bal[p] ELSE 0

(* Definitions named ...Mutant are slips this code could have had.  No     *)
(* specification uses them: each shows that a property would catch it.     *)
DepositMutant(bal, b, p, amount) == Move(bal, b, p, amount)

Deposit(bal, b, p, amount) == Move(bal, b, p, TopUp(bal, p) + amount)

(* `close = buyer`: whatever the PDA holds goes to the buyer.              *)
Close(bal, b, p) == Move(bal, p, b, bal[p])

PayAndClose(bal, b, p) ==
    Close(Move(bal, p, escrow[p].seller, escrow[p].amount), b, p)
-----------------------------------------------------------------------------
Init ==
    /\ lamports = [x \in Addresses |-> IF x \in Accounts THEN Endowment[x] ELSE 0]
    /\ escrow = [p \in Pdas |-> NoEscrow]
    /\ now = 0

(* The checks of `initialize`, made against the balances bal.  The PDA     *)
(* must be free: `init`, never `init_if_needed`.                           *)
CanInitialize(bal, b, p, t) ==
    /\ t.amount > 0
    /\ t.deadline > now
    /\ ~IsOpen(p)
    /\ bal[b] >= TopUp(bal, p) + t.amount

Initialize(b, r, t) ==
    /\ CanInitialize(lamports, b, <<b, r>>, t)
    /\ lamports' = Deposit(lamports, b, <<b, r>>, t.amount)
    /\ escrow' = [escrow EXCEPT ![<<b, r>>] = t]
    /\ UNCHANGED now

(* has_one = buyer, has_one = seller and the seeds tie the accounts passed *)
(* in to the stored terms; checked_sub fails when the PDA holds too little.*)
CanRelease(p, s) ==
    /\ IsOpen(p)
    /\ s = escrow[p].seller
    /\ lamports[p] >= escrow[p].amount

Release(b, r, s) ==
    /\ CanRelease(<<b, r>>, s)
    /\ lamports' = PayAndClose(lamports, b, <<b, r>>)
    /\ escrow' = [escrow EXCEPT ![<<b, r>>] = NoEscrow]
    /\ UNCHANGED now

CanRefund(p) ==
    /\ IsOpen(p)
    /\ now >= escrow[p].deadline

Refund(b, r) ==
    /\ CanRefund(<<b, r>>)
    /\ lamports' = Close(lamports, b, <<b, r>>)
    /\ escrow' = [escrow EXCEPT ![<<b, r>>] = NoEscrow]
    /\ UNCHANGED now

(* The System program: an account may send lamports to any address, an     *)
(* escrow PDA included, open or not.                                       *)
Transfer(a, x, n) ==
    /\ n > 0
    /\ n <= lamports[a]
    /\ lamports' = Move(lamports, a, x, n)
    /\ UNCHANGED <<escrow, now>>

Tick ==
    /\ now < Horizon
    /\ now' = now + 1
    /\ UNCHANGED <<lamports, escrow>>

(* What the accounts in Signers can do by signing a transaction themselves.*)
Direct(Signers) ==
    \/ \E b \in Signers, r \in Refs :
          \/ \E s \in Accounts, n \in Amounts, d \in 0..Horizon :
                Initialize(b, r, [seller |-> s, amount |-> n, deadline |-> d])
          \/ \E s \in Accounts : Release(b, r, s)
          \/ Refund(b, r)
    \/ \E a \in Signers, x \in Addresses, n \in Amounts : Transfer(a, x, n)

Next == Direct(Accounts) \/ Tick

Spec == Init /\ [][Next]_vars
-----------------------------------------------------------------------------
(* An open escrow can always be settled: its PDA holds the deposit and its *)
(* rent, whatever was sent to the address before or since, so the          *)
(* checked_sub of `release` (lib.rs:73-79) never fails.                    *)
Solvent ==
    \A p \in Pdas : IsOpen(p) => /\ escrow[p].amount > 0
                                 /\ lamports[p] >= Rent + escrow[p].amount

Gain(x) == lamports'[x] - lamports[x]

(* The two ways a deposit may end: the seller gets exactly the amount and  *)
(* the buyer the rest; or the deadline has come and the buyer gets it all. *)
PaidOut(p) ==
    LET b == p[1]
        s == escrow[p].seller
    IN /\ b # s => Gain(s) = escrow[p].amount
       /\ Gain(b) = lamports[p] - IF b = s THEN 0 ELSE escrow[p].amount

TakenBack(p) ==
    /\ now >= escrow[p].deadline
    /\ Gain(p[1]) = lamports[p]

(* A deposit leaves its PDA only by being settled, all of it at once, and  *)
(* in one of those two ways; no other address gains from it; and until     *)
(* then its terms stand (lib.rs:3-5, 68-98).                               *)
Settles(p) ==
    /\ escrow'[p] = NoEscrow
    /\ lamports'[p] = 0
    /\ PaidOut(p) \/ TakenBack(p)
    /\ \A x \in Addresses \ {p, p[1], escrow[p].seller} : Gain(x) = 0

Keeps(p) == escrow'[p] = escrow[p] /\ Gain(p) >= 0

SettledByTerms == [][\A p \in Pdas : IsOpen(p) => Keeps(p) \/ Settles(p)]_vars
=============================================================================
