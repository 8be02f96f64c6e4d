--------------------------- MODULE ProgramProofs ---------------------------
(***************************************************************************)
(* Proofs about the two programs.  First the escrow program alone, for any *)
(* accounts, references, rent, amounts and clock bound: EscrowInv, the     *)
(* type invariant with Solvent, is inductive, since `release` needs        *)
(* Solvent to keep the balances natural numbers, and Solvent needs the     *)
(* types to reason about the balances.                                     *)
(*                                                                         *)
(* Then the arbiter program over it, for any wallets, orders and rents:    *)
(* its types, the solvency of every escrow, and that it implements module  *)
(* Order.  Every instruction gets one lemma that says what it does to the  *)
(* balances (its "effect"); the invariant and the refinement are read off  *)
(* these.                                                                  *)
(***************************************************************************)
EXTENDS Arbiter, TLAPS

EscrowInv == TypeOK /\ Solvent

(* A move that the sender can afford yields balances again, and changes    *)
(* each address by what it sends and receives.                             *)
LEMMA MoveEffect ==
    ASSUME NEW D, NEW bal \in [D -> Nat], NEW from \in D, NEW to \in D,
           NEW n \in Nat, n <= bal[from]
    PROVE  /\ Move(bal, from, to, n) \in [D -> Nat]
           /\ \A x \in D : Move(bal, from, to, n)[x] =
                 bal[x] - (IF x = from THEN n ELSE 0) + (IF x = to THEN n ELSE 0)
<1> DEFINE debited == [bal EXCEPT ![from] = @ - n]
<1>1. /\ debited \in [D -> Nat]
      /\ \A x \in D : debited[x] = bal[x] - (IF x = from THEN n ELSE 0)
  OBVIOUS
<1>2. Move(bal, from, to, n) = [debited EXCEPT ![to] = @ + n]
  BY DEF Move
<1> HIDE DEF debited
<1>3. QED
  BY <1>1, <1>2

(* A deposit that the buyer can afford leaves the PDA with its rent and    *)
(* the amount at least, and touches no third address.                      *)
LEMMA DepositEffect ==
    ASSUME NEW bal \in [Addresses -> Nat], NEW b \in Accounts, NEW p \in Pdas,
           NEW amount \in Nat, bal[b] >= TopUp(bal, p) + amount
    PROVE  LET after == Deposit(bal, b, p, amount)
           IN /\ after \in [Addresses -> Nat]
              /\ after[p] >= Rent + amount
              /\ after[p] = bal[p] + TopUp(bal, p) + amount
              /\ after[b] = bal[b] - TopUp(bal, p) - amount
              /\ \A x \in Addresses \ {b, p} : after[x] = bal[x]
<1>1. /\ b \in Addresses /\ p \in Addresses /\ b # p
      /\ TopUp(bal, p) \in Nat
      /\ bal[p] + TopUp(bal, p) >= Rent
  BY AddressAssumption, RentAssumption DEF Addresses, TopUp
<1>2. TopUp(bal, p) + amount \in Nat
  BY <1>1
<1>3. /\ Deposit(bal, b, p, amount) \in [Addresses -> Nat]
      /\ \A x \in Addresses : Deposit(bal, b, p, amount)[x] =
            bal[x] - (IF x = b THEN TopUp(bal, p) + amount ELSE 0)
                   + (IF x = p THEN TopUp(bal, p) + amount ELSE 0)
  BY <1>1, <1>2, MoveEffect DEF Deposit
<1>4. /\ Deposit(bal, b, p, amount)[p] = bal[p] + (TopUp(bal, p) + amount)
      /\ Deposit(bal, b, p, amount)[b] = bal[b] - (TopUp(bal, p) + amount)
      /\ \A x \in Addresses \ {b, p} : Deposit(bal, b, p, amount)[x] = bal[x]
  BY <1>1, <1>2, <1>3
<1>5. bal[p] \in Nat /\ bal[b] \in Nat
  BY <1>1
<1>6. QED
  BY <1>1, <1>3, <1>4, <1>5, RentAssumption

(* Closing a PDA empties it into its buyer.                                *)
LEMMA CloseEffect ==
    ASSUME NEW bal \in [Addresses -> Nat], NEW b \in Accounts, NEW p \in Pdas
    PROVE  LET after == Close(bal, b, p)
           IN /\ after \in [Addresses -> Nat]
              /\ after[p] = 0
              /\ after[b] = bal[b] + bal[p]
              /\ \A x \in Addresses \ {b, p} : after[x] = bal[x]
<1>1. b \in Addresses /\ p \in Addresses /\ b # p /\ bal[p] \in Nat /\ bal[b] \in Nat
  BY AddressAssumption DEF Addresses
<1>2. /\ Close(bal, b, p) \in [Addresses -> Nat]
      /\ \A x \in Addresses : Close(bal, b, p)[x] =
            bal[x] - (IF x = p THEN bal[p] ELSE 0) + (IF x = b THEN bal[p] ELSE 0)
  BY <1>1, MoveEffect DEF Close
<1>3. QED
  BY <1>1, <1>2

(* Releasing an open, solvent escrow pays the seller the amount, the buyer *)
(* the rest, and nobody else.                                              *)
LEMMA ReleaseEffect ==
    ASSUME NEW bal \in [Addresses -> Nat], NEW b \in Accounts, NEW p \in Pdas,
           escrow[p] \in Terms, escrow[p].amount <= bal[p]
    PROVE  LET after == PayAndClose(bal, b, p)
               s     == escrow[p].seller
               n     == escrow[p].amount
           IN /\ after \in [Addresses -> Nat]
              /\ after[p] = 0
              /\ b # s => after[s] = bal[s] + n
              /\ after[b] = bal[b] + bal[p] - (IF b = s THEN 0 ELSE n)
              /\ \A x \in Addresses \ {b, p, s} : after[x] = bal[x]
<1> DEFINE s == escrow[p].seller
           n == escrow[p].amount
           paid == Move(bal, p, s, n)
<1>1. s \in Accounts /\ n \in Nat
  BY DEF Terms
<1>2. /\ b \in Addresses /\ p \in Addresses /\ s \in Addresses
      /\ b # p /\ s # p
      /\ bal[p] \in Nat /\ bal[b] \in Nat /\ bal[s] \in Nat
  BY <1>1, AddressAssumption DEF Addresses
<1>3. /\ paid \in [Addresses -> Nat]
      /\ \A x \in Addresses : paid[x] =
            bal[x] - (IF x = p THEN n ELSE 0) + (IF x = s THEN n ELSE 0)
  BY <1>1, <1>2, MoveEffect
<1>4. /\ paid[p] = bal[p] - n
      /\ paid[s] = bal[s] + n
      /\ \A x \in Addresses \ {p, s} : paid[x] = bal[x]
  <2> HIDE DEF paid, s, n
  <2> QED BY <1>1, <1>2, <1>3
<1>5. LET after == Close(paid, b, p)
      IN /\ after \in [Addresses -> Nat]
         /\ after[p] = 0
         /\ after[b] = paid[b] + paid[p]
         /\ \A x \in Addresses \ {b, p} : after[x] = paid[x]
  BY <1>3, CloseEffect
<1>6. PayAndClose(bal, b, p) = Close(paid, b, p)
  BY DEF PayAndClose
<1>7. /\ b # s => Close(paid, b, p)[s] = bal[s] + n
      /\ Close(paid, b, p)[b] = bal[b] + bal[p] - (IF b = s THEN 0 ELSE n)
      /\ \A x \in Addresses \ {b, p, s} : Close(paid, b, p)[x] = bal[x]
  <2> HIDE DEF paid, s, n
  <2> QED BY <1>1, <1>2, <1>4, <1>5
<1>8. QED
  BY <1>5, <1>6, <1>7
-----------------------------------------------------------------------------
(* The addresses of a PDA and of its buyer differ, and both hold lamports. *)
LEMMA PdaAddress ==
    ASSUME NEW b \in Accounts, NEW r \in Refs
    PROVE  <<b, r>> \in Pdas /\ <<b, r>> \in Addresses /\ b \in Addresses /\ b # <<b, r>>
BY AddressAssumption DEF Pdas, Addresses

LEMMA InitEscrowInv == Init => EscrowInv
BY HorizonAssumption, EndowmentAssumption, NoEscrowAssumption
   DEF Init, EscrowInv, TypeOK, Solvent, IsOpen, Addresses

LEMMA InitializeEscrowInv ==
    ASSUME EscrowInv, NEW b \in Accounts, NEW r \in Refs, NEW t \in Terms, Initialize(b, r, t)
    PROVE  EscrowInv'
<1> DEFINE p == <<b, r>>
<1>1. p \in Pdas /\ p \in Addresses /\ b # p
  BY PdaAddress
<1>2. t.amount \in Nat /\ t.amount > 0 /\ lamports[b] >= TopUp(lamports, p) + t.amount
  BY DEF Initialize, CanInitialize, Terms
<1>3. /\ lamports' \in [Addresses -> Nat]
      /\ lamports'[p] >= Rent + t.amount
      /\ \A x \in Addresses \ {b, p} : lamports'[x] = lamports[x]
  <2>1. lamports \in [Addresses -> Nat] /\ lamports' = Deposit(lamports, b, p, t.amount)
    BY DEF Initialize, EscrowInv, TypeOK
  <2>2. QED
    BY <1>1, <1>2, <2>1, DepositEffect
<1>4. TypeOK'
  BY <1>1, <1>3 DEF Initialize, EscrowInv, TypeOK
<1>5. ASSUME NEW q \in Pdas, IsOpen(q)'
      PROVE  escrow'[q].amount > 0 /\ lamports'[q] >= Rent + escrow'[q].amount
  <2>1. CASE q = p
    BY <1>1, <1>2, <1>3, <2>1 DEF Initialize, EscrowInv, TypeOK
  <2>2. CASE q # p
    BY <1>1, <1>3, <1>5, <2>2, AddressAssumption
       DEF Initialize, EscrowInv, TypeOK, Solvent, IsOpen, Addresses
  <2>3. QED
    BY <2>1, <2>2
<1>6. QED
  BY <1>4, <1>5 DEF EscrowInv, Solvent

(* Closing an escrow, whoever is paid, leaves every other one as it was.   *)
LEMMA CloseEscrowInv ==
    ASSUME EscrowInv, NEW p \in Pdas, lamports' \in [Addresses -> Nat], UNCHANGED now,
           escrow' = [escrow EXCEPT ![p] = NoEscrow],
           \A q \in Pdas \ {p} : lamports'[q] >= lamports[q]
    PROVE  EscrowInv'
<1>1. TypeOK'
  BY DEF EscrowInv, TypeOK
<1>2. ASSUME NEW q \in Pdas, IsOpen(q)'
      PROVE  escrow'[q].amount > 0 /\ lamports'[q] >= Rent + escrow'[q].amount
  <2>1. q # p /\ escrow'[q] = escrow[q] /\ IsOpen(q)
    BY <1>2 DEF EscrowInv, TypeOK, IsOpen
  <2>2. /\ escrow[q].amount \in Nat
        /\ lamports[q] \in Nat /\ lamports'[q] \in Nat
        /\ lamports[q] >= Rent + escrow[q].amount /\ escrow[q].amount > 0
        /\ lamports'[q] >= lamports[q]
    BY <2>1 DEF EscrowInv, TypeOK, Solvent, IsOpen, Addresses, Terms
  <2>3. QED
    BY <2>1, <2>2, RentAssumption
<1>3. QED
  BY <1>1, <1>2 DEF EscrowInv, Solvent

(* An open escrow holds terms it can pay.                                  *)
LEMMA OpenTerms ==
    ASSUME EscrowInv, NEW p \in Pdas, IsOpen(p)
    PROVE  escrow[p] \in Terms /\ escrow[p].amount <= lamports[p]
<1>1. escrow[p] \in Terms /\ lamports[p] \in Nat /\ lamports[p] >= Rent + escrow[p].amount
  BY DEF EscrowInv, TypeOK, Solvent, IsOpen, Addresses
<1>2. QED
  BY <1>1, RentAssumption DEF Terms

LEMMA ReleaseEscrowInv ==
    ASSUME EscrowInv, NEW b \in Accounts, NEW r \in Refs, NEW s \in Accounts, Release(b, r, s)
    PROVE  EscrowInv'
<1> DEFINE p == <<b, r>>
<1>1. p \in Pdas /\ IsOpen(p) /\ s = escrow[p].seller
  BY PdaAddress DEF Release, CanRelease
<1>2. /\ lamports' \in [Addresses -> Nat]
      /\ \A x \in Addresses \ {b, p, s} : lamports'[x] = lamports[x]
  BY <1>1, OpenTerms, ReleaseEffect DEF Release, EscrowInv, TypeOK
<1>3. \A q \in Pdas \ {p} : lamports'[q] >= lamports[q]
  BY <1>2, AddressAssumption DEF EscrowInv, TypeOK, Addresses
<1>4. QED
  BY <1>1, <1>2, <1>3, CloseEscrowInv DEF Release

LEMMA RefundEscrowInv ==
    ASSUME EscrowInv, NEW b \in Accounts, NEW r \in Refs, Refund(b, r)
    PROVE  EscrowInv'
<1> DEFINE p == <<b, r>>
<1>1. p \in Pdas
  BY PdaAddress
<1>2. /\ lamports' \in [Addresses -> Nat]
      /\ \A x \in Addresses \ {b, p} : lamports'[x] = lamports[x]
  <2>1. lamports \in [Addresses -> Nat] /\ lamports' = Close(lamports, b, p)
    BY DEF Refund, EscrowInv, TypeOK
  <2>2. QED
    BY <1>1, <2>1, CloseEffect
<1>3. \A q \in Pdas \ {p} : lamports'[q] >= lamports[q]
  BY <1>2, AddressAssumption DEF EscrowInv, TypeOK, Addresses
<1>4. QED
  BY <1>1, <1>2, <1>3, CloseEscrowInv DEF Refund

LEMMA TransferEscrowInv ==
    ASSUME EscrowInv, NEW a \in Accounts, NEW x \in Addresses, NEW n \in Amounts, Transfer(a, x, n)
    PROVE  EscrowInv'
<1>1. a \in Addresses /\ n \in Nat /\ n <= lamports[a]
  BY AmountsAssumption DEF Transfer, Addresses
<1>2. /\ lamports' \in [Addresses -> Nat]
      /\ \A y \in Addresses : lamports'[y] =
            lamports[y] - (IF y = a THEN n ELSE 0) + (IF y = x THEN n ELSE 0)
  BY <1>1, MoveEffect DEF Transfer, EscrowInv, TypeOK
<1>3. \A q \in Pdas : lamports'[q] >= lamports[q]
  BY <1>1, <1>2, AddressAssumption DEF EscrowInv, TypeOK, Addresses
<1>4. ASSUME NEW q \in Pdas, IsOpen(q)
      PROVE  lamports'[q] >= Rent + escrow[q].amount
  BY <1>2, <1>3, <1>4, RentAssumption
     DEF EscrowInv, TypeOK, Solvent, IsOpen, Addresses, Terms
<1>5. QED
  BY <1>2, <1>4 DEF Transfer, EscrowInv, TypeOK, Solvent, IsOpen

(* Whatever any set of accounts signs preserves the invariant.             *)
LEMMA DirectEscrowInv ==
    ASSUME EscrowInv, NEW S \in SUBSET Accounts, Direct(S)
    PROVE  EscrowInv'
<1>1. ASSUME NEW b \in S, NEW r \in Refs, NEW s \in Accounts, NEW n \in Amounts,
             NEW d \in 0..Horizon,
             Initialize(b, r, [seller |-> s, amount |-> n, deadline |-> d])
      PROVE  EscrowInv'
  <2>1. [seller |-> s, amount |-> n, deadline |-> d] \in Terms
    BY AmountsAssumption, HorizonAssumption DEF Terms
  <2>2. QED
    BY <1>1, <2>1, InitializeEscrowInv
<1>2. ASSUME NEW b \in S, NEW r \in Refs, NEW s \in Accounts, Release(b, r, s)
      PROVE  EscrowInv'
  BY <1>2, ReleaseEscrowInv
<1>3. ASSUME NEW b \in S, NEW r \in Refs, Refund(b, r)
      PROVE  EscrowInv'
  BY <1>3, RefundEscrowInv
<1>4. ASSUME NEW a \in S, NEW x \in Addresses, NEW n \in Amounts, Transfer(a, x, n)
      PROVE  EscrowInv'
  BY <1>4, TransferEscrowInv
<1>5. QED
  BY <1>1, <1>2, <1>3, <1>4 DEF Direct

LEMMA TickEscrowInv == EscrowInv /\ Tick => EscrowInv'
BY HorizonAssumption DEF Tick, EscrowInv, TypeOK, Solvent, IsOpen

LEMMA NextEscrowInv == EscrowInv /\ [Next]_vars => EscrowInv'
<1> SUFFICES ASSUME EscrowInv, [Next]_vars PROVE EscrowInv'
  OBVIOUS
<1>1. CASE Direct(Accounts)
  BY <1>1, DirectEscrowInv
<1>2. CASE Tick
  BY <1>2, TickEscrowInv
<1>3. CASE UNCHANGED vars
  BY <1>3 DEF vars, EscrowInv, TypeOK, Solvent, IsOpen
<1>4. QED
  BY <1>1, <1>2, <1>3 DEF Next

(* Balances never go negative and escrow data stays well formed, and every *)
(* open escrow keeps at least its deposit and rent: `release` cannot fail  *)
(* for want of lamports (lib.rs:73-79).                                    *)
THEOREM EscrowInvariant == Spec => []EscrowInv
<1>1. Init => EscrowInv
  BY InitEscrowInv
<1>2. EscrowInv /\ [Next]_vars => EscrowInv'
  BY NextEscrowInv
<1>3. QED
  BY <1>1, <1>2, PTL DEF Spec

(* Every open escrow holds its deposit and its rent (lib.rs:73-79).        *)
THEOREM EscrowSolvent == Spec => []Solvent
<1>1. EscrowInv => Solvent
  BY DEF EscrowInv
<1>2. QED
  BY <1>1, EscrowInvariant, PTL
-----------------------------------------------------------------------------
StepByTerms == \A p \in Pdas : IsOpen(p) => Keeps(p) \/ Settles(p)

(* A step that leaves the terms of p and takes nothing from it keeps p.    *)
LEMMA InitializeByTerms ==
    ASSUME EscrowInv, NEW b \in Accounts, NEW r \in Refs, NEW t \in Terms, Initialize(b, r, t),
           NEW q \in Pdas, IsOpen(q)
    PROVE  Keeps(q)
<1> DEFINE p == <<b, r>>
<1>1. p \in Pdas /\ p \in Addresses /\ b # p
  BY PdaAddress
<1>2. /\ lamports \in [Addresses -> Nat]
      /\ lamports' = Deposit(lamports, b, p, t.amount)
      /\ t.amount \in Nat /\ lamports[b] >= TopUp(lamports, p) + t.amount
      /\ q # p
  BY DEF Initialize, CanInitialize, EscrowInv, TypeOK, Terms
<1>3. \A x \in Addresses \ {b, p} : lamports'[x] = lamports[x]
  BY <1>1, <1>2, DepositEffect
<1>4. lamports'[q] = lamports[q] /\ lamports[q] \in Nat
  BY <1>2, <1>3, AddressAssumption DEF Addresses
<1>5. escrow'[q] = escrow[q]
  BY <1>2 DEF Initialize, EscrowInv, TypeOK
<1>6. QED
  BY <1>4, <1>5 DEF Keeps, Gain

(* Closing p keeps every other PDA.                                        *)
LEMMA CloseKeepsOthers ==
    ASSUME EscrowInv, NEW p \in Pdas, NEW q \in Pdas \ {p},
           escrow' = [escrow EXCEPT ![p] = NoEscrow],
           lamports'[q] = lamports[q]
    PROVE  Keeps(q)
<1>1. lamports[q] \in Nat
  BY DEF EscrowInv, TypeOK, Addresses
<1>2. QED
  BY <1>1 DEF EscrowInv, TypeOK, Keeps, Gain

LEMMA ReleaseByTerms ==
    ASSUME EscrowInv, NEW b \in Accounts, NEW r \in Refs, NEW s \in Accounts, Release(b, r, s),
           NEW q \in Pdas, IsOpen(q)
    PROVE  Keeps(q) \/ Settles(q)
<1> DEFINE p == <<b, r>>
           n == escrow[p].amount
<1>1. p \in Pdas /\ p \in Addresses /\ b \in Addresses /\ b # p
  BY PdaAddress
<1>2. /\ IsOpen(p) /\ s = escrow[p].seller
      /\ lamports' = PayAndClose(lamports, b, p)
      /\ escrow' = [escrow EXCEPT ![p] = NoEscrow]
      /\ lamports \in [Addresses -> Nat]
  BY DEF Release, CanRelease, EscrowInv, TypeOK
<1>3. escrow[p] \in Terms /\ n <= lamports[p]
  BY <1>1, <1>2, OpenTerms
<1>4. /\ lamports' \in [Addresses -> Nat]
      /\ lamports'[p] = 0
      /\ b # s => lamports'[s] = lamports[s] + n
      /\ lamports'[b] = lamports[b] + lamports[p] - (IF b = s THEN 0 ELSE n)
      /\ \A x \in Addresses \ {b, p, s} : lamports'[x] = lamports[x]
  BY <1>1, <1>2, <1>3, ReleaseEffect
<1>5. CASE q = p
  <2>1. n \in Nat /\ s \in Addresses
    BY <1>3 DEF Terms, Addresses
  <2>2. escrow'[p] = NoEscrow
    BY <1>1, <1>2 DEF EscrowInv, TypeOK
  <2>3. \A x \in Addresses : lamports[x] \in Nat /\ lamports'[x] \in Nat
    BY <1>2, <1>4
  <2>4. /\ b # s => Gain(s) = n
        /\ Gain(b) = lamports[p] - IF b = s THEN 0 ELSE n
        /\ \A x \in Addresses \ {p, b, s} : Gain(x) = 0
    <3> HIDE DEF n, p
    <3> QED BY <1>1, <1>4, <2>1, <2>3 DEF Gain
  <2>5. p[1] = b
    OBVIOUS
  <2>6. PaidOut(p)
    BY <1>2, <2>4, <2>5 DEF PaidOut
  <2>7. \A x \in Addresses \ {p, p[1], escrow[p].seller} : Gain(x) = 0
    BY <1>2, <2>4, <2>5
  <2>8. Settles(p)
    BY <1>4, <2>2, <2>6, <2>7 DEF Settles
  <2>9. QED
    BY <1>5, <2>8
<1>6. CASE q # p
  BY <1>1, <1>2, <1>4, <1>6, AddressAssumption, CloseKeepsOthers DEF Addresses
<1>7. QED
  BY <1>5, <1>6

LEMMA RefundByTerms ==
    ASSUME EscrowInv, NEW b \in Accounts, NEW r \in Refs, Refund(b, r),
           NEW q \in Pdas, IsOpen(q)
    PROVE  Keeps(q) \/ Settles(q)
<1> DEFINE p == <<b, r>>
<1>1. p \in Pdas /\ p \in Addresses /\ b \in Addresses /\ b # p
  BY PdaAddress
<1>2. /\ IsOpen(p) /\ now >= escrow[p].deadline
      /\ lamports' = Close(lamports, b, p)
      /\ escrow' = [escrow EXCEPT ![p] = NoEscrow]
      /\ lamports \in [Addresses -> Nat]
  BY DEF Refund, CanRefund, EscrowInv, TypeOK
<1>3. /\ lamports' \in [Addresses -> Nat]
      /\ lamports'[p] = 0
      /\ lamports'[b] = lamports[b] + lamports[p]
      /\ \A x \in Addresses \ {b, p} : lamports'[x] = lamports[x]
  BY <1>1, <1>2, CloseEffect
<1>4. CASE q = p
  <2>1. escrow'[p] = NoEscrow
    BY <1>1, <1>2 DEF EscrowInv, TypeOK
  <2>2. Gain(b) = lamports[p] /\ \A x \in Addresses \ {b, p} : Gain(x) = 0
    <3> HIDE DEF p
    <3> QED BY <1>1, <1>2, <1>3 DEF Gain
  <2>3. p[1] = b
    OBVIOUS
  <2>4. Settles(p)
    BY <1>2, <1>3, <2>1, <2>2, <2>3 DEF Settles, TakenBack
  <2>5. QED
    BY <1>4, <2>4
<1>5. CASE q # p
  BY <1>1, <1>2, <1>3, <1>5, AddressAssumption, CloseKeepsOthers DEF Addresses
<1>6. QED
  BY <1>4, <1>5

LEMMA TransferByTerms ==
    ASSUME EscrowInv, NEW a \in Accounts, NEW x \in Addresses, NEW n \in Amounts, Transfer(a, x, n),
           NEW q \in Pdas, IsOpen(q)
    PROVE  Keeps(q)
<1>1. /\ lamports \in [Addresses -> Nat]
      /\ a \in Addresses /\ n \in Nat /\ n <= lamports[a]
      /\ lamports' = Move(lamports, a, x, n)
      /\ q \in Addresses /\ q # a
  BY AmountsAssumption, AddressAssumption DEF Transfer, EscrowInv, TypeOK, Addresses
<1>2. lamports'[q] = lamports[q] - (IF q = a THEN n ELSE 0) + (IF q = x THEN n ELSE 0)
  BY <1>1, MoveEffect
<1>3. Gain(q) >= 0
  BY <1>1, <1>2 DEF Gain
<1>4. QED
  BY <1>3 DEF Transfer, Keeps

LEMMA TickByTerms ==
    ASSUME EscrowInv, UNCHANGED <<lamports, escrow>>, NEW q \in Pdas
    PROVE  Keeps(q)
<1>1. lamports[q] \in Nat
  BY DEF EscrowInv, TypeOK, Addresses
<1>2. QED
  BY <1>1 DEF Keeps, Gain

LEMMA NextByTerms == EscrowInv /\ Next => StepByTerms
<1> SUFFICES ASSUME EscrowInv, Next, NEW q \in Pdas, IsOpen(q)
             PROVE  Keeps(q) \/ Settles(q)
  BY DEF StepByTerms
<1>1. ASSUME NEW b \in Accounts, NEW r \in Refs, NEW s \in Accounts, NEW n \in Amounts,
             NEW d \in 0..Horizon,
             Initialize(b, r, [seller |-> s, amount |-> n, deadline |-> d])
      PROVE  Keeps(q)
  <2>1. [seller |-> s, amount |-> n, deadline |-> d] \in Terms
    BY AmountsAssumption, HorizonAssumption DEF Terms
  <2>2. QED
    BY <1>1, <2>1, InitializeByTerms
<1>2. ASSUME NEW b \in Accounts, NEW r \in Refs, NEW s \in Accounts, Release(b, r, s)
      PROVE  Keeps(q) \/ Settles(q)
  BY <1>2, ReleaseByTerms
<1>3. ASSUME NEW b \in Accounts, NEW r \in Refs, Refund(b, r)
      PROVE  Keeps(q) \/ Settles(q)
  BY <1>3, RefundByTerms
<1>4. ASSUME NEW a \in Accounts, NEW x \in Addresses, NEW n \in Amounts, Transfer(a, x, n)
      PROVE  Keeps(q)
  BY <1>4, TransferByTerms
<1>5. CASE Tick
  BY <1>5, TickByTerms DEF Tick
<1>6. QED
  BY <1>1, <1>2, <1>3, <1>4, <1>5 DEF Next, Direct

(* A deposit ends only by paying the seller exactly its amount, or by      *)
(* going back whole to the buyer from the deadline on (lib.rs:68-98).      *)
THEOREM EscrowSettledByTerms == Spec => SettledByTerms
<1>1. EscrowInv /\ [Next]_vars => [StepByTerms]_vars
  BY NextByTerms
<1>2. Spec => [][StepByTerms]_vars
  BY <1>1, EscrowInvariant, PTL DEF Spec
<1>3. QED
  BY <1>2 DEF SettledByTerms, StepByTerms

-----------------------------------------------------------------------------
ArbiterInv == ArbiterTypeOK /\ Solvent

(* The pieces of an order: two different addresses, its own.               *)
LEMMA OrderAddresses ==
    ASSUME NEW r \in Refs
    PROVE  /\ Vault[r] \in Accounts /\ Vault[r] \in Addresses /\ Vault[r] \notin Wallets
           /\ OrderPda(r) \in Pdas /\ OrderPda(r) \in Addresses
           /\ Vault[r] # OrderPda(r)
           /\ \A q \in Refs \ {r} : /\ Vault[q] # Vault[r]
                                    /\ Vault[q] # OrderPda(r)
                                    /\ OrderPda(q) # OrderPda(r)
                                    /\ OrderPda(q) # Vault[r]
<1>1. Vault[r] \in Accounts /\ Vault[r] \notin Wallets
  BY VaultAssumption DEF Wallets
<1>2. \A q \in Refs : OrderPda(q) \in Pdas /\ Vault[q] \in Accounts
  BY VaultAssumption DEF OrderPda, Pdas
<1>3. \A q \in Refs \ {r} : Vault[q] # Vault[r] /\ OrderPda(q) # OrderPda(r)
  BY VaultAssumption DEF OrderPda
<1>4. QED
  BY <1>1, <1>2, <1>3, AddressAssumption DEF Addresses

LEMMA WalletAddress ==
    ASSUME NEW w \in Wallets
    PROVE  /\ w \in Accounts /\ w \in Addresses /\ w # ConfigAccount /\ w # Nobody
           /\ \A r \in Refs : w # Vault[r] /\ w # OrderPda(r) /\ <<w, r>> # OrderPda(r)
           /\ \A q, r \in Refs : <<w, q>> # OrderPda(r) /\ <<w, q>> # Vault[r]
<1>1. w \in Accounts /\ w \in Addresses /\ w # ConfigAccount /\ \A r \in Refs : w # Vault[r]
  BY DEF Wallets, Addresses
<1>2. \A q \in Refs : <<w, q>> \in Pdas /\ OrderPda(q) \in Pdas
  BY <1>1, VaultAssumption DEF OrderPda, Pdas
<1>3. QED
  BY <1>1, <1>2, AddressAssumption, VaultAssumption, NobodyAssumption DEF OrderPda

(* Opening moves amount and rent from the payer into the pot, of which the *)
(* escrow holds the amount and its rent at least.                          *)
LEMMA OpenEffect ==
    ASSUME ArbiterInv, NEW payer \in Wallets, NEW r \in Refs, NEW t \in Terms, Open(payer, r, t)
    PROVE  /\ lamports' \in [Addresses -> Nat]
           /\ lamports'[OrderPda(r)] >= Rent + t.amount
           /\ lamports'[payer] = lamports[payer] - (t.amount + Rent)
           /\ Pot(r)' = Pot(r) + t.amount + Rent
           /\ \A x \in Addresses \ {payer, Vault[r], OrderPda(r)} : lamports'[x] = lamports[x]
<1> DEFINE v == Vault[r]
           p == OrderPda(r)
           fund == t.amount + Rent
           funded == Move(lamports, payer, v, fund)
<1>1. /\ v \in Accounts /\ v \in Addresses /\ p \in Pdas /\ p \in Addresses /\ v # p
      /\ payer \in Addresses /\ payer # v /\ payer # p
  BY OrderAddresses, WalletAddress
<1>2. /\ lamports \in [Addresses -> Nat]
      /\ t.amount \in Nat /\ fund \in Nat /\ fund <= lamports[payer]
      /\ funded[v] >= TopUp(funded, p) + t.amount
      /\ lamports' = Deposit(funded, v, p, t.amount)
  BY RentAssumption DEF Open, CanInitialize, ArbiterInv, ArbiterTypeOK, TypeOK, Terms
<1>3. /\ funded \in [Addresses -> Nat]
      /\ \A x \in Addresses : funded[x] =
            lamports[x] - (IF x = payer THEN fund ELSE 0) + (IF x = v THEN fund ELSE 0)
  BY <1>1, <1>2, MoveEffect
<1>4. /\ funded[payer] = lamports[payer] - fund
      /\ funded[v] = lamports[v] + fund
      /\ \A x \in Addresses \ {payer, v} : funded[x] = lamports[x]
  <2> HIDE DEF v, p, fund, funded
  <2> QED BY <1>1, <1>2, <1>3
<1>5. /\ lamports' \in [Addresses -> Nat]
      /\ lamports'[p] >= Rent + t.amount
      /\ lamports'[p] = funded[p] + TopUp(funded, p) + t.amount
      /\ lamports'[v] = funded[v] - TopUp(funded, p) - t.amount
      /\ \A x \in Addresses \ {v, p} : lamports'[x] = funded[x]
  BY <1>1, <1>2, <1>3, DepositEffect
<1>6. TopUp(funded, p) \in Int /\ \A x \in Addresses : lamports[x] \in Nat /\ funded[x] \in Nat
  BY <1>1, <1>2, <1>3, RentAssumption DEF TopUp
<1>7. lamports'[v] + lamports'[p] = lamports[v] + lamports[p] + t.amount + Rent
  <2>1. funded[p] = lamports[p] /\ fund = t.amount + Rent
    BY <1>1, <1>4
  <2> HIDE DEF v, p, fund, funded
  <2> QED BY <1>1, <1>2, <1>4, <1>5, <1>6, <2>1, RentAssumption
<1>8. QED
  BY <1>1, <1>4, <1>5, <1>7 DEF Pot

(* Paying the seller of an order takes exactly the amount out of its pot.  *)
LEMMA ArbitrateReleaseEffect ==
    ASSUME ArbiterInv, NEW a \in Wallets, NEW r \in Refs, NEW s \in Wallets,
           ArbitrateRelease(a, r, s)
    PROVE  /\ lamports' \in [Addresses -> Nat]
           /\ s = escrow[OrderPda(r)].seller
           /\ lamports'[s] = lamports[s] + escrow[OrderPda(r)].amount
           /\ Pot(r)' = Pot(r) - escrow[OrderPda(r)].amount
           /\ \A x \in Addresses \ {s, Vault[r], OrderPda(r)} : lamports'[x] = lamports[x]
<1> DEFINE v == Vault[r]
           p == OrderPda(r)
           n == escrow[p].amount
<1>1. /\ v \in Accounts /\ v \in Addresses /\ p \in Pdas /\ p \in Addresses /\ v # p
      /\ s \in Addresses /\ s # v /\ s # p
  BY OrderAddresses, WalletAddress
<1>2. /\ lamports \in [Addresses -> Nat]
      /\ IsOpen(p) /\ s = escrow[p].seller
      /\ lamports' = PayAndClose(lamports, v, p)
      /\ EscrowInv
  BY DEF ArbitrateRelease, CanRelease, ArbiterInv, ArbiterTypeOK, EscrowInv, TypeOK
<1>3. escrow[p] \in Terms /\ n <= lamports[p]
  BY <1>1, <1>2, OpenTerms
<1>4. /\ lamports' \in [Addresses -> Nat]
      /\ lamports'[p] = 0
      /\ v # s => lamports'[s] = lamports[s] + n
      /\ lamports'[v] = lamports[v] + lamports[p] - (IF v = s THEN 0 ELSE n)
      /\ \A x \in Addresses \ {v, p, s} : lamports'[x] = lamports[x]
  BY <1>1, <1>2, <1>3, ReleaseEffect
<1>5. n \in Nat /\ lamports[v] \in Nat /\ lamports[p] \in Nat
  BY <1>1, <1>2, <1>3 DEF Terms
<1>6. lamports'[v] + lamports'[p] = lamports[v] + lamports[p] - n
  <2> HIDE DEF v, p, n
  <2> QED BY <1>1, <1>4, <1>5
<1>7. /\ lamports'[s] = lamports[s] + n
      /\ \A x \in Addresses \ {s, v, p} : lamports'[x] = lamports[x]
  <2> HIDE DEF v, p, n
  <2> QED BY <1>1, <1>4
<1>8. Pot(r)' = Pot(r) - n
  BY <1>1, <1>4, <1>5, <1>6 DEF Pot
<1>9. lamports' \in [Addresses -> Nat] /\ s = escrow[p].seller
  BY <1>2, <1>4
<1>10. QED
  BY <1>7, <1>8, <1>9

(* A refund empties the pot of the order into the receiver.                *)
LEMMA ArbitrateRefundEffect ==
    ASSUME ArbiterInv, NEW a \in Wallets, NEW r \in Refs, NEW q \in Wallets,
           ArbitrateRefund(a, r, q)
    PROVE  /\ lamports' \in [Addresses -> Nat]
           /\ lamports'[q] = lamports[q] + Pot(r)
           /\ Pot(r)' = 0
           /\ \A x \in Addresses \ {q, Vault[r], OrderPda(r)} : lamports'[x] = lamports[x]
<1> DEFINE v == Vault[r]
           p == OrderPda(r)
           closed == Close(lamports, v, p)
<1>1. /\ v \in Accounts /\ v \in Addresses /\ p \in Pdas /\ p \in Addresses /\ v # p
      /\ q \in Addresses /\ q # v /\ q # p
  BY OrderAddresses, WalletAddress
<1>2. /\ lamports \in [Addresses -> Nat]
      /\ lamports' = Move(closed, v, q, closed[v])
  BY DEF ArbitrateRefund, ArbiterInv, ArbiterTypeOK, TypeOK
<1>3. /\ closed \in [Addresses -> Nat]
      /\ closed[p] = 0
      /\ closed[v] = lamports[v] + lamports[p]
      /\ \A x \in Addresses \ {v, p} : closed[x] = lamports[x]
  BY <1>1, <1>2, CloseEffect
<1>4. closed[v] \in Nat
  BY <1>1, <1>3
<1>5. /\ lamports' \in [Addresses -> Nat]
      /\ \A x \in Addresses : lamports'[x] =
            closed[x] - (IF x = v THEN closed[v] ELSE 0) + (IF x = q THEN closed[v] ELSE 0)
  <2> HIDE DEF v, p, closed
  <2> QED BY <1>1, <1>2, <1>3, <1>4, MoveEffect
<1>6. \A x \in Addresses : closed[x] \in Nat /\ lamports[x] \in Nat
  BY <1>2, <1>3
<1>7. /\ lamports'[q] = lamports[q] + (lamports[v] + lamports[p])
      /\ lamports'[v] + lamports'[p] = 0
      /\ \A x \in Addresses \ {q, v, p} : lamports'[x] = lamports[x]
  <2> HIDE DEF v, p, closed
  <2>1. lamports'[q] = closed[q] + closed[v] /\ closed[q] = lamports[q]
    BY <1>1, <1>3, <1>4, <1>5, <1>6
  <2>2. lamports'[v] = 0 /\ lamports'[p] = 0
    BY <1>1, <1>3, <1>4, <1>5, <1>6
  <2>3. ASSUME NEW x \in Addresses \ {q, v, p}
        PROVE  lamports'[x] = lamports[x]
    <3>1. closed[x] = lamports[x] /\ lamports[x] \in Nat /\ closed[v] \in Nat
      BY <1>3, <1>4, <1>6
    <3>2. lamports'[x] = closed[x] - 0 + 0
      BY <1>5
    <3>3. QED
      BY <3>1, <3>2
  <2>4. lamports'[v] + lamports'[p] = 0
    BY <2>2
  <2>5. lamports'[q] = lamports[q] + (lamports[v] + lamports[p])
    BY <1>3, <2>1
  <2>6. QED
    BY <2>3, <2>4, <2>5
<1>8. QED
  BY <1>5, <1>7 DEF Pot

LEMMA InitConfigEffect ==
    ASSUME ArbiterInv, NEW admin \in Wallets, NEW a \in Wallets, InitConfig(admin, a)
    PROVE  /\ lamports' \in [Addresses -> Nat]
           /\ \A x \in Addresses \ {admin, ConfigAccount} : lamports'[x] = lamports[x]
<1>1. admin \in Addresses /\ ConfigAccount \in Addresses /\ admin # ConfigAccount
  BY WalletAddress, VaultAssumption DEF Addresses
<1>2. PICK rent \in Nat : /\ rent <= lamports[admin]
                          /\ lamports' = Move(lamports, admin, ConfigAccount, rent)
  <2>1. lamports[ConfigAccount] \in Nat
    BY <1>1 DEF ArbiterInv, ArbiterTypeOK, TypeOK
  <2>2. CASE lamports[ConfigAccount] < ConfigRent
    <3>1. ConfigRent - lamports[ConfigAccount] \in Nat
      BY <2>1, <2>2, ConfigRentAssumption
    <3>2. QED
      BY <2>2, <3>1 DEF InitConfig
  <2>3. CASE ~(lamports[ConfigAccount] < ConfigRent)
    BY <2>3 DEF InitConfig
  <2>4. QED
    BY <2>2, <2>3
<1>3. lamports \in [Addresses -> Nat]
  BY DEF ArbiterInv, ArbiterTypeOK, TypeOK
<1>4. /\ lamports' \in [Addresses -> Nat]
      /\ \A x \in Addresses : lamports'[x] =
            lamports[x] - (IF x = admin THEN rent ELSE 0) + (IF x = ConfigAccount THEN rent ELSE 0)
  BY <1>1, <1>2, <1>3, MoveEffect
<1>5. QED
  BY <1>1, <1>3, <1>4
-----------------------------------------------------------------------------
(* What a wallet signs itself only adds to the addresses that are neither  *)
(* its own nor PDAs it is the buyer of, and leaves others' escrows alone.  *)
LEMMA DirectEffect ==
    ASSUME EscrowInv, NEW w \in Accounts, Direct({w})
    PROVE  /\ lamports' \in [Addresses -> Nat]
           /\ now' = now
           /\ \A x \in Addresses : x # w /\ (\A r \in Refs : x # <<w, r>>)
                                 => lamports'[x] >= lamports[x]
           /\ \A p \in Pdas : (\A r \in Refs : p # <<w, r>>) => escrow'[p] = escrow[p]
<1>1. EscrowInv'
  BY DirectEscrowInv
<1>2. lamports \in [Addresses -> Nat] /\ lamports' \in [Addresses -> Nat]
  BY <1>1 DEF EscrowInv, TypeOK
<1>3. ASSUME NEW r \in Refs, NEW s \in Accounts, NEW n \in Amounts, NEW d \in 0..Horizon,
             Initialize(w, r, [seller |-> s, amount |-> n, deadline |-> d])
      PROVE  /\ now' = now
             /\ \A x \in Addresses \ {w, <<w, r>>} : lamports'[x] >= lamports[x]
             /\ \A p \in Pdas \ {<<w, r>>} : escrow'[p] = escrow[p]
  <2> DEFINE t == [seller |-> s, amount |-> n, deadline |-> d]
  <2>1. n \in Nat /\ t.amount = n
    BY AmountsAssumption
  <2>2. /\ <<w, r>> \in Pdas
        /\ lamports[w] >= TopUp(lamports, <<w, r>>) + n
        /\ lamports' = Deposit(lamports, w, <<w, r>>, n)
    BY <1>3, <2>1, PdaAddress DEF Initialize, CanInitialize
  <2>3. \A x \in Addresses \ {w, <<w, r>>} : lamports'[x] = lamports[x]
    BY <1>2, <2>1, <2>2, DepositEffect
  <2>4. QED
    BY <1>2, <1>3, <2>3 DEF Initialize, EscrowInv, TypeOK
<1>4. ASSUME NEW r \in Refs, NEW s \in Accounts, Release(w, r, s)
      PROVE  /\ now' = now
             /\ \A x \in Addresses \ {w, <<w, r>>} : lamports'[x] >= lamports[x]
             /\ \A p \in Pdas \ {<<w, r>>} : escrow'[p] = escrow[p]
  <2> DEFINE p == <<w, r>>
  <2>1. p \in Pdas /\ IsOpen(p) /\ s = escrow[p].seller /\ lamports' = PayAndClose(lamports, w, p)
    BY <1>4, PdaAddress DEF Release, CanRelease
  <2>2. escrow[p] \in Terms /\ escrow[p].amount <= lamports[p]
    BY <2>1, OpenTerms
  <2>3. /\ w # s => lamports'[s] = lamports[s] + escrow[p].amount
        /\ \A x \in Addresses \ {w, p, s} : lamports'[x] = lamports[x]
    BY <1>2, <2>1, <2>2, ReleaseEffect
  <2>4. escrow[p].amount \in Nat /\ s \in Addresses
    BY <2>2 DEF Terms, Addresses
  <2>5. \A x \in Addresses \ {w, p} : lamports'[x] >= lamports[x]
    <3> HIDE DEF p
    <3> QED BY <1>2, <2>3, <2>4
  <2>6. QED
    BY <1>4, <2>5 DEF Release, EscrowInv, TypeOK
<1>5. ASSUME NEW r \in Refs, Refund(w, r)
      PROVE  /\ now' = now
             /\ \A x \in Addresses \ {w, <<w, r>>} : lamports'[x] >= lamports[x]
             /\ \A p \in Pdas \ {<<w, r>>} : escrow'[p] = escrow[p]
  <2>1. <<w, r>> \in Pdas /\ lamports' = Close(lamports, w, <<w, r>>)
    BY <1>5, PdaAddress DEF Refund
  <2>2. \A x \in Addresses \ {w, <<w, r>>} : lamports'[x] = lamports[x]
    BY <1>2, <2>1, CloseEffect
  <2>3. QED
    BY <1>2, <1>5, <2>2 DEF Refund, EscrowInv, TypeOK
<1>6. ASSUME NEW y \in Addresses, NEW n \in Amounts, Transfer(w, y, n)
      PROVE  /\ now' = now
             /\ \A x \in Addresses \ {w} : lamports'[x] >= lamports[x]
             /\ escrow' = escrow
  <2>1. /\ w \in Addresses /\ n \in Nat /\ n <= lamports[w]
        /\ lamports' = Move(lamports, w, y, n)
    BY <1>6, AmountsAssumption DEF Transfer, Addresses
  <2>2. \A x \in Addresses : lamports'[x] =
            lamports[x] - (IF x = w THEN n ELSE 0) + (IF x = y THEN n ELSE 0)
    BY <1>2, <2>1, MoveEffect
  <2>3. QED
    BY <1>2, <1>6, <2>1, <2>2 DEF Transfer
<1>7. CASE \E r \in Refs : \/ \E s \in Accounts, n \in Amounts, d \in 0..Horizon :
                              Initialize(w, r, [seller |-> s, amount |-> n, deadline |-> d])
                         \/ \E s \in Accounts : Release(w, r, s)
                         \/ Refund(w, r)
  <2>1. PICK r \in Refs : /\ now' = now
                          /\ \A x \in Addresses \ {w, <<w, r>>} : lamports'[x] >= lamports[x]
                          /\ \A p \in Pdas \ {<<w, r>>} : escrow'[p] = escrow[p]
    BY <1>3, <1>4, <1>5, <1>7
  <2>2. QED
    BY <1>2, <2>1
<1>8. CASE \E y \in Addresses, n \in Amounts : Transfer(w, y, n)
  BY <1>2, <1>6, <1>8
<1>9. QED
  BY <1>7, <1>8 DEF Direct

LEMMA OpenArbiterInv ==
    ASSUME ArbiterInv, NEW payer \in Wallets, NEW r \in Refs, NEW t \in Terms, Open(payer, r, t),
           signer' = payer
    PROVE  ArbiterInv'
<1> DEFINE p == OrderPda(r)
<1>1. /\ lamports' \in [Addresses -> Nat]
      /\ lamports'[p] >= Rent + t.amount
      /\ \A x \in Addresses \ {payer, Vault[r], p} : lamports'[x] = lamports[x]
  BY OpenEffect
<1>2. p \in Pdas /\ escrow' = [escrow EXCEPT ![p] = t] /\ t.amount > 0
  BY OrderAddresses DEF Open, CanInitialize
<1>3. ArbiterTypeOK'
  BY <1>1, <1>2 DEF Open, ArbiterInv, ArbiterTypeOK, TypeOK
<1>4. ASSUME NEW q \in Pdas, IsOpen(q)'
      PROVE  escrow'[q].amount > 0 /\ lamports'[q] >= Rent + escrow'[q].amount
  <2>1. CASE q = p
    BY <1>1, <1>2, <2>1 DEF ArbiterInv, ArbiterTypeOK, TypeOK
  <2>2. CASE q # p
    <3>1. q \in Addresses \ {payer, Vault[r], p}
      BY <2>2, WalletAddress, OrderAddresses, AddressAssumption DEF Addresses
    <3>2. QED
      BY <1>1, <1>2, <1>4, <2>2, <3>1
         DEF ArbiterInv, ArbiterTypeOK, TypeOK, Solvent, IsOpen
  <2>3. QED
    BY <2>1, <2>2
<1>5. QED
  BY <1>3, <1>4 DEF ArbiterInv, Solvent

LEMMA CloseArbiterInv ==
    ASSUME ArbiterInv, NEW r \in Refs, NEW q \in Wallets,
           lamports' \in [Addresses -> Nat],
           \A x \in Addresses \ {q, Vault[r], OrderPda(r)} : lamports'[x] = lamports[x],
           escrow' = [escrow EXCEPT ![OrderPda(r)] = NoEscrow],
           UNCHANGED <<now, config>>, signer' \in Wallets
    PROVE  ArbiterInv'
<1>1. OrderPda(r) \in Pdas /\ q \in Accounts /\ Vault[r] \in Accounts
  BY OrderAddresses, WalletAddress
<1>2. \A x \in Pdas \ {OrderPda(r)} : lamports'[x] >= lamports[x]
  BY <1>1, AddressAssumption DEF ArbiterInv, ArbiterTypeOK, TypeOK, Addresses
<1>3. EscrowInv'
  BY <1>1, <1>2, CloseEscrowInv DEF ArbiterInv, ArbiterTypeOK, EscrowInv
<1>4. QED
  BY <1>3 DEF ArbiterInv, ArbiterTypeOK, EscrowInv

LEMMA InitConfigArbiterInv ==
    ASSUME ArbiterInv, NEW w \in Wallets, NEW a \in Wallets, InitConfig(w, a), signer' = w
    PROVE  ArbiterInv'
<1>1. /\ lamports' \in [Addresses -> Nat]
      /\ \A x \in Addresses \ {w, ConfigAccount} : lamports'[x] = lamports[x]
  BY InitConfigEffect
<1>2. \A p \in Pdas : lamports'[p] = lamports[p]
  BY <1>1, WalletAddress, VaultAssumption, AddressAssumption DEF Addresses
<1>3. QED
  BY <1>1, <1>2 DEF InitConfig, ArbiterInv, ArbiterTypeOK, TypeOK, Solvent, IsOpen

LEMMA InitArbiterInv == ArbiterInit => ArbiterInv
BY InitEscrowInv DEF ArbiterInit, ArbiterInv, ArbiterTypeOK, EscrowInv

LEMMA NextArbiterInv == ArbiterInv /\ [ArbiterNext]_arbiterVars => ArbiterInv'
<1> SUFFICES ASSUME ArbiterInv, [ArbiterNext]_arbiterVars PROVE ArbiterInv'
  OBVIOUS
<1>1. ASSUME NEW w \in Wallets, signer' = w, NEW a \in Wallets, InitConfig(w, a)
      PROVE  ArbiterInv'
  BY <1>1, InitConfigArbiterInv
<1>2. ASSUME NEW w \in Wallets, signer' = w, NEW r \in Refs, NEW s \in Wallets,
             NEW n \in Amounts, NEW d \in 0..Horizon,
             Open(w, r, [seller |-> s, amount |-> n, deadline |-> d])
      PROVE  ArbiterInv'
  <2>1. [seller |-> s, amount |-> n, deadline |-> d] \in Terms
    BY AmountsAssumption, HorizonAssumption DEF Terms, Wallets
  <2>2. QED
    BY <1>2, <2>1, OpenArbiterInv
<1>3. ASSUME NEW w \in Wallets, signer' = w, NEW r \in Refs, NEW s \in Wallets,
             ArbitrateRelease(w, r, s)
      PROVE  ArbiterInv'
  BY <1>3, ArbitrateReleaseEffect, CloseArbiterInv DEF ArbitrateRelease
<1>4. ASSUME NEW w \in Wallets, signer' = w, NEW r \in Refs, NEW q \in Wallets,
             ArbitrateRefund(w, r, q)
      PROVE  ArbiterInv'
  BY <1>4, ArbitrateRefundEffect, CloseArbiterInv DEF ArbitrateRefund
<1>5. ASSUME NEW w \in Wallets, signer' = w, Direct({w}), UNCHANGED config
      PROVE  ArbiterInv'
  <2>1. {w} \in SUBSET Accounts
    BY DEF Wallets
  <2>2. EscrowInv'
    BY <1>5, <2>1, DirectEscrowInv DEF ArbiterInv, ArbiterTypeOK, EscrowInv
  <2>3. QED
    BY <1>5, <2>2 DEF ArbiterInv, ArbiterTypeOK, EscrowInv
<1>6. CASE Tick /\ UNCHANGED <<config, signer>>
  BY <1>6, TickEscrowInv DEF ArbiterInv, ArbiterTypeOK, EscrowInv
<1>7. CASE UNCHANGED arbiterVars
  BY <1>7 DEF arbiterVars, ArbiterInv, ArbiterTypeOK, TypeOK, Solvent, IsOpen
<1>8. QED
  BY <1>1, <1>2, <1>3, <1>4, <1>5, <1>6, <1>7 DEF ArbiterNext, ArbiterStep

(* With vaults as buyers, too, balances never go negative, the arbiter is  *)
(* a wallet or not yet named, and every open escrow holds its deposit and  *)
(* its rent (escrow/src/lib.rs:73-79).                                     *)
THEOREM ArbiterInvariant == ArbiterSpec => []ArbiterInv
<1>1. ArbiterInit => ArbiterInv
  BY InitArbiterInv
<1>2. ArbiterInv /\ [ArbiterNext]_arbiterVars => ArbiterInv'
  BY NextArbiterInv
<1>3. QED
  BY <1>1, <1>2, PTL DEF ArbiterSpec
-----------------------------------------------------------------------------
(* The refinement: each transaction is a step of module Order.             *)

LEMMA OpenRefines ==
    ASSUME ArbiterInv, NEW payer \in Wallets, NEW r \in Refs, NEW t \in Terms,
           t.seller \in Wallets, Open(payer, r, t), signer' = payer
    PROVE  Promise!Place(r)
<1> DEFINE p == OrderPda(r)
<1>1. /\ lamports' \in [Addresses -> Nat]
      /\ lamports'[payer] = lamports[payer] - (t.amount + Rent)
      /\ Pot(r)' = Pot(r) + t.amount + Rent
      /\ \A x \in Addresses \ {payer, Vault[r], p} : lamports'[x] = lamports[x]
  BY OpenEffect
<1>2. /\ escrow[p] = NoEscrow /\ escrow' = [escrow EXCEPT ![p] = t]
      /\ t.amount > 0 /\ t.deadline > now
      /\ UNCHANGED <<now, config>>
  BY DEF Open, CanInitialize, IsOpen
<1>3. \A q \in Refs : escrow'[OrderPda(q)] = IF q = r THEN t ELSE escrow[OrderPda(q)]
  BY <1>2, OrderAddresses DEF ArbiterInv, ArbiterTypeOK, TypeOK
<1>4. \A q \in Refs \ {r} : Pot(q)' = Pot(q)
  BY <1>1, OrderAddresses, WalletAddress DEF Pot
<1>5. \A w \in Wallets \ {payer} : lamports'[w] = lamports[w]
  BY <1>1, OrderAddresses, WalletAddress
<1>6. t \in [seller : Wallets, amount : Nat, deadline : Nat]
  BY DEF Terms
<1>7. QED
  BY <1>1, <1>2, <1>3, <1>4, <1>5, <1>6 DEF Promise!Place, Promise!Orders

(* The parts of a settlement that do not depend on who is paid.            *)
LEMMA SettleRefines ==
    ASSUME ArbiterInv, NEW a \in Wallets, NEW r \in Refs, IsOpen(OrderPda(r)), a = config,
           signer' = a, escrow' = [escrow EXCEPT ![OrderPda(r)] = NoEscrow],
           UNCHANGED <<now, config>>
    PROVE  Promise!Settle(r)
<1>1. \A q \in Refs : escrow'[OrderPda(q)] = IF q = r THEN NoEscrow ELSE escrow[OrderPda(q)]
  BY OrderAddresses DEF ArbiterInv, ArbiterTypeOK, TypeOK
<1>2. config # Nobody /\ escrow[OrderPda(r)] # NoEscrow
  BY WalletAddress DEF IsOpen
<1>3. QED
  BY <1>1, <1>2 DEF Promise!Settle

LEMMA ReleaseRefines ==
    ASSUME ArbiterInv, NEW a \in Wallets, NEW r \in Refs, NEW s \in Wallets,
           ArbitrateRelease(a, r, s), signer' = a
    PROVE  Promise!PaySeller(r)
<1>1. /\ s = escrow[OrderPda(r)].seller
      /\ lamports'[s] = lamports[s] + escrow[OrderPda(r)].amount
      /\ Pot(r)' = Pot(r) - escrow[OrderPda(r)].amount
      /\ \A x \in Addresses \ {s, Vault[r], OrderPda(r)} : lamports'[x] = lamports[x]
  BY ArbitrateReleaseEffect
<1>2. Promise!Settle(r)
  BY SettleRefines DEF ArbitrateRelease, CanRelease
<1>3. \A q \in Refs \ {r} : Pot(q)' = Pot(q)
  BY <1>1, OrderAddresses, WalletAddress DEF Pot
<1>4. \A w \in Wallets \ {s} : lamports'[w] = lamports[w]
  BY <1>1, OrderAddresses, WalletAddress
<1>5. QED
  BY <1>1, <1>2, <1>3, <1>4 DEF Promise!PaySeller

LEMMA RefundRefines ==
    ASSUME ArbiterInv, NEW a \in Wallets, NEW r \in Refs, NEW q \in Wallets,
           ArbitrateRefund(a, r, q), signer' = a
    PROVE  Promise!Reimburse(r, q)
<1>1. /\ lamports'[q] = lamports[q] + Pot(r)
      /\ Pot(r)' = 0
      /\ \A x \in Addresses \ {q, Vault[r], OrderPda(r)} : lamports'[x] = lamports[x]
  BY ArbitrateRefundEffect
<1>2. Promise!Settle(r) /\ now >= escrow[OrderPda(r)].deadline
  BY SettleRefines DEF ArbitrateRefund, CanRefund
<1>3. \A x \in Refs \ {r} : Pot(x)' = Pot(x)
  BY <1>1, OrderAddresses, WalletAddress DEF Pot
<1>4. \A w \in Wallets \ {q} : lamports'[w] = lamports[w]
  BY <1>1, OrderAddresses, WalletAddress
<1>5. QED
  BY <1>1, <1>2, <1>3, <1>4 DEF Promise!Reimburse

(* Balances give pots and purses.                                          *)
LEMMA Holdings ==
    ASSUME NEW bal \in [Addresses -> Nat]
    PROVE  /\ [r \in Refs |-> bal[Vault[r]] + bal[OrderPda(r)]] \in [Refs -> Nat]
           /\ [w \in Wallets |-> bal[w]] \in [Wallets -> Nat]
<1>1. \A r \in Refs : bal[Vault[r]] \in Nat /\ bal[OrderPda(r)] \in Nat
  BY OrderAddresses
<1>2. \A w \in Wallets : bal[w] \in Nat
  BY WalletAddress
<1>3. QED
  BY <1>1, <1>2

LEMMA DirectRefines ==
    ASSUME ArbiterInv, NEW w \in Wallets, Direct({w}), UNCHANGED config
    PROVE  Promise!Outside
<1>1. /\ lamports' \in [Addresses -> Nat]
      /\ now' = now
      /\ \A x \in Addresses : x # w /\ (\A r \in Refs : x # <<w, r>>) => lamports'[x] >= lamports[x]
      /\ \A p \in Pdas : (\A r \in Refs : p # <<w, r>>) => escrow'[p] = escrow[p]
  BY WalletAddress, DirectEffect DEF ArbiterInv, ArbiterTypeOK, EscrowInv
<1>2. \A r \in Refs : escrow'[OrderPda(r)] = escrow[OrderPda(r)]
  BY <1>1, OrderAddresses, WalletAddress
<1>3. ASSUME NEW r \in Refs
      PROVE  Pot(r)' >= Pot(r)
  <2>1. lamports'[Vault[r]] >= lamports[Vault[r]] /\ lamports'[OrderPda(r)] >= lamports[OrderPda(r)]
    BY <1>1, OrderAddresses, WalletAddress
  <2>2. /\ lamports[Vault[r]] \in Nat /\ lamports'[Vault[r]] \in Nat
        /\ lamports[OrderPda(r)] \in Nat /\ lamports'[OrderPda(r)] \in Nat
    BY <1>1, OrderAddresses DEF ArbiterInv, ArbiterTypeOK, TypeOK
  <2>3. QED
    BY <2>1, <2>2 DEF Pot
<1>4. /\ [r \in Refs |-> Pot(r)]' \in [Refs -> Nat]
      /\ [x \in Wallets |-> lamports[x]]' \in [Wallets -> Nat]
  BY <1>1, Holdings DEF Pot
<1>5. QED
  BY <1>1, <1>2, <1>3, <1>4 DEF Promise!Outside

LEMMA InitConfigRefines ==
    ASSUME ArbiterInv, NEW w \in Wallets, NEW a \in Wallets, InitConfig(w, a)
    PROVE  Promise!Appoint
<1>1. /\ lamports' \in [Addresses -> Nat]
      /\ \A x \in Addresses \ {w, ConfigAccount} : lamports'[x] = lamports[x]
  BY InitConfigEffect
<1>2. \A r \in Refs : OrderPda(r) # ConfigAccount /\ Vault[r] # ConfigAccount
  BY OrderAddresses, VaultAssumption, AddressAssumption
<1>3. \A r \in Refs : Pot(r)' = Pot(r)
  BY <1>1, <1>2, OrderAddresses, WalletAddress DEF Pot
<1>4. [x \in Wallets |-> lamports[x]]' \in [Wallets -> Nat]
  BY <1>1, Holdings
<1>5. QED
  BY <1>3, <1>4 DEF InitConfig, Promise!Appoint

LEMMA InitRefines == ArbiterInit => Promise!OrderInit
<1> SUFFICES ASSUME ArbiterInit PROVE Promise!OrderInit
  OBVIOUS
<1>1. lamports \in [Addresses -> Nat]
  BY InitArbiterInv DEF ArbiterInv, ArbiterTypeOK, TypeOK
<1>2. \A r \in Refs : escrow[OrderPda(r)] = NoEscrow
  BY OrderAddresses DEF ArbiterInit, Init
<1>3. QED
  BY <1>1, <1>2, Holdings DEF ArbiterInit, Init, Pot, Promise!OrderInit

LEMMA NextRefines ==
    ArbiterInv /\ [ArbiterNext]_arbiterVars => [Promise!OrderNext]_Promise!orderVars
<1> SUFFICES ASSUME ArbiterInv, [ArbiterNext]_arbiterVars
             PROVE  Promise!OrderNext \/ UNCHANGED Promise!orderVars
  OBVIOUS
<1>1. ASSUME NEW w \in Wallets, signer' = w, NEW a \in Wallets, InitConfig(w, a)
      PROVE  Promise!OrderNext
  BY <1>1, InitConfigRefines DEF Promise!OrderNext, Promise!Signed
<1>2. ASSUME NEW w \in Wallets, signer' = w, NEW r \in Refs, NEW s \in Wallets,
             NEW n \in Amounts, NEW d \in 0..Horizon,
             Open(w, r, [seller |-> s, amount |-> n, deadline |-> d])
      PROVE  Promise!OrderNext
  <2>1. [seller |-> s, amount |-> n, deadline |-> d] \in Terms
    BY AmountsAssumption, HorizonAssumption DEF Terms, Wallets
  <2>2. QED
    BY <1>2, <2>1, OpenRefines DEF Promise!OrderNext, Promise!Signed
<1>3. ASSUME NEW w \in Wallets, signer' = w, NEW r \in Refs, NEW s \in Wallets,
             ArbitrateRelease(w, r, s)
      PROVE  Promise!OrderNext
  BY <1>3, ReleaseRefines DEF Promise!OrderNext, Promise!Signed
<1>4. ASSUME NEW w \in Wallets, signer' = w, NEW r \in Refs, NEW q \in Wallets,
             ArbitrateRefund(w, r, q)
      PROVE  Promise!OrderNext
  BY <1>4, RefundRefines DEF Promise!OrderNext, Promise!Signed
<1>5. ASSUME NEW w \in Wallets, signer' = w, Direct({w}), UNCHANGED config
      PROVE  Promise!OrderNext
  BY <1>5, DirectRefines DEF Promise!OrderNext, Promise!Signed
<1>6. CASE Tick /\ UNCHANGED <<config, signer>>
  BY <1>6 DEF Tick, Pot, Promise!OrderNext, Promise!Pass
<1>7. CASE UNCHANGED arbiterVars
  BY <1>7 DEF arbiterVars, Pot, Promise!orderVars
<1>8. QED
  BY <1>1, <1>2, <1>3, <1>4, <1>5, <1>6, <1>7 DEF ArbiterNext, ArbiterStep

(* The arbiter program implements module Order: whoever funds an order has *)
(* no power over it, and only the appointed arbiter's signature ends it,   *)
(* by the two ways of its header (arbiter/src/lib.rs:7-15).                *)
THEOREM ArbiterKeepsPromise == ArbiterSpec => KeepsPromise
<1>1. ArbiterInit => Promise!OrderInit
  BY InitRefines
<1>2. ArbiterInv /\ [ArbiterNext]_arbiterVars => [Promise!OrderNext]_Promise!orderVars
  BY NextRefines
<1>3. QED
  BY <1>1, <1>2, ArbiterInvariant, PTL DEF ArbiterSpec, KeepsPromise, Promise!OrderSpec
-----------------------------------------------------------------------------
(* Direct deposits.  The arbiter's instructions move lamports between      *)
(* wallets, vaults and the vaults' escrows, none of which is the escrow of *)
(* a wallet.                                                               *)
WalletStepByTerms ==
    \A p \in Pdas : p[1] \in Wallets /\ IsOpen(p) => Keeps(p) \/ Settles(p)

LEMMA UntouchedKeeps ==
    ASSUME ArbiterInv, NEW p \in Pdas, lamports'[p] = lamports[p], escrow'[p] = escrow[p]
    PROVE  Keeps(p)
<1>1. p \in Addresses /\ lamports[p] \in Nat
  BY DEF Addresses, ArbiterInv, ArbiterTypeOK, TypeOK
<1>2. QED
  BY <1>1 DEF Keeps, Gain

LEMMA WalletPda ==
    ASSUME NEW p \in Pdas, p[1] \in Wallets
    PROVE  /\ p \in Addresses /\ p \notin Accounts
           /\ \A r \in Refs : p # Vault[r] /\ p # OrderPda(r)
<1>1. p \in Addresses /\ p \notin Accounts
  BY AddressAssumption DEF Addresses
<1>2. ASSUME NEW r \in Refs
      PROVE  p # Vault[r] /\ p # OrderPda(r)
  <2>1. Vault[r] \in Accounts /\ Vault[r] \notin Wallets
    BY OrderAddresses
  <2>2. <<Vault[r], r>>[1] = Vault[r]
    OBVIOUS
  <2>3. QED
    BY <1>1, <2>1, <2>2 DEF OrderPda
<1>3. QED
  BY <1>1, <1>2

LEMMA NextWalletsByTerms == ArbiterInv /\ ArbiterNext => WalletStepByTerms
<1> SUFFICES ASSUME ArbiterInv, ArbiterNext, NEW p \in Pdas, p[1] \in Wallets, IsOpen(p)
             PROVE  Keeps(p) \/ Settles(p)
  BY DEF WalletStepByTerms
<1>0. /\ p \in Addresses /\ p \notin Accounts
      /\ \A r \in Refs : p # Vault[r] /\ p # OrderPda(r)
      /\ \A w \in Wallets : p # w /\ w \in Accounts
      /\ ConfigAccount \in Accounts
      /\ escrow \in [Pdas -> Terms \cup {NoEscrow}]
  BY WalletPda, WalletAddress, VaultAssumption DEF ArbiterInv, ArbiterTypeOK, TypeOK
<1>1. ASSUME NEW w \in Wallets, NEW a \in Wallets, InitConfig(w, a)
      PROVE  Keeps(p)
  <2>1. lamports'[p] = lamports[p]
    BY <1>0, <1>1, InitConfigEffect
  <2>2. QED
    BY <1>1, <2>1, UntouchedKeeps DEF InitConfig
<1>2. ASSUME NEW w \in Wallets, NEW r \in Refs, NEW s \in Wallets, NEW n \in Amounts,
             NEW d \in 0..Horizon, Open(w, r, [seller |-> s, amount |-> n, deadline |-> d])
      PROVE  Keeps(p)
  <2>1. [seller |-> s, amount |-> n, deadline |-> d] \in Terms
    BY AmountsAssumption, HorizonAssumption DEF Terms, Wallets
  <2>2. lamports'[p] = lamports[p]
    BY <1>0, <1>2, <2>1, OpenEffect
  <2>3. escrow'[p] = escrow[p]
    BY <1>0, <1>2 DEF Open
  <2>4. QED
    BY <2>2, <2>3, UntouchedKeeps
<1>3. ASSUME NEW w \in Wallets, NEW r \in Refs, NEW s \in Wallets, ArbitrateRelease(w, r, s)
      PROVE  Keeps(p)
  <2>1. lamports'[p] = lamports[p]
    BY <1>0, <1>3, ArbitrateReleaseEffect
  <2>2. escrow'[p] = escrow[p]
    BY <1>0, <1>3 DEF ArbitrateRelease
  <2>3. QED
    BY <2>1, <2>2, UntouchedKeeps
<1>4. ASSUME NEW w \in Wallets, NEW r \in Refs, NEW q \in Wallets, ArbitrateRefund(w, r, q)
      PROVE  Keeps(p)
  <2>1. lamports'[p] = lamports[p]
    BY <1>0, <1>4, ArbitrateRefundEffect
  <2>2. escrow'[p] = escrow[p]
    BY <1>0, <1>4 DEF ArbitrateRefund
  <2>3. QED
    BY <2>1, <2>2, UntouchedKeeps
<1>5. ASSUME Direct(Accounts) \/ Tick
      PROVE  Keeps(p) \/ Settles(p)
  BY <1>5, NextByTerms DEF Next, StepByTerms, EscrowInv, ArbiterInv, ArbiterTypeOK
<1>6. ASSUME NEW w \in Wallets, Direct({w})
      PROVE  Direct(Accounts)
  BY <1>0, <1>6 DEF Direct
<1>7. QED
  BY <1>1, <1>2, <1>3, <1>4, <1>5, <1>6 DEF ArbiterNext, ArbiterStep

(* Direct deposits end by their terms whatever the arbiter program does    *)
(* beside them (escrow/src/lib.rs:68-98).                                  *)
THEOREM ArbiterWalletsByTerms == ArbiterSpec => WalletsByTerms
<1>1. ArbiterInv /\ [ArbiterNext]_arbiterVars => [WalletStepByTerms]_arbiterVars
  BY NextWalletsByTerms
<1>2. ArbiterSpec => [][WalletStepByTerms]_arbiterVars
  BY <1>1, ArbiterInvariant, PTL DEF ArbiterSpec
<1>3. QED
  BY <1>2 DEF WalletsByTerms, WalletStepByTerms
=============================================================================
