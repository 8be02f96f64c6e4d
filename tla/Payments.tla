------------------------------ MODULE Payments ------------------------------
(***************************************************************************)
(* SOL transfers that carry a reference, as Solana Pay has them, and the   *)
(* ways in which the agents of this repository send and verify them.  The  *)
(* quickstart (Purchase), the broker (Broker) and the bridge (Bridge) are  *)
(* deployed one at a time.                                                 *)
(***************************************************************************)
EXTENDS Naturals, Sequences, FiniteSets

CONSTANTS MaxRefs,     \* bound on the references that are generated
          MaxFaults,   \* bound on the calls that fail
          Demos,       \* the deployments that are checked
          Payers,      \* the wallets that pay
          None

ASSUME PaymentsAssumption ==
  /\ MaxRefs \in Nat /\ MaxFaults \in Nat
  /\ None \notin Nat

VARIABLES demo,      \* which deployment runs
          chain,     \* the transfers that landed; a signature is an index
          debited,   \* by payer: the lamports its wallet has sent
          refs,      \* how many references have been generated
          faults

payVars == <<demo, chain, debited, refs, faults>>

PaymentsInit ==
  /\ demo \in Demos
  /\ chain = <<>>
  /\ debited = [p \in Payers |-> 0]
  /\ refs = 0
  /\ faults = 0

Transfer(from, to, amount, ref) ==
  [from |-> from, to |-> to, amount |-> amount, ref |-> ref]

\* Keypair.generate(): references are numbered in the order they are made.
NewRef(ref) == refs < MaxRefs /\ ref = refs + 1 /\ refs' = ref

Fault == faults < MaxFaults /\ faults' = faults + 1

\* sendAndConfirmTransaction may throw before or after the transfer landed.
Land(t) ==
  /\ chain' = Append(chain, t)
  /\ debited' = [debited EXCEPT ![t.from] = @ + t.amount]
Landed(t) == Land(t) /\ UNCHANGED faults
Thrown(t) == Fault /\ (Land(t) \/ UNCHANGED <<chain, debited>>)

Paid(t, to, amount, ref) == t.to = to /\ t.amount >= amount /\ t.ref = ref

\* validateTransfer of a signature.
ValidTransfer(sig, to, amount, ref) ==
  sig \in DOMAIN chain /\ Paid(chain[sig], to, amount, ref)

\* findReference: the oldest transfer that carries the reference counts.
OldestWith(ref) ==
  CHOOSE i \in DOMAIN chain :
    chain[i].ref = ref /\ \A j \in 1..(i - 1) : chain[j].ref # ref

VerifyPayment(to, amount, ref) ==
  /\ \E i \in DOMAIN chain : chain[i].ref = ref
  /\ ValidTransfer(OldestWith(ref), to, amount, ref)

=============================================================================
