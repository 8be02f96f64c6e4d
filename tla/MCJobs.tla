------------------------------- MODULE MCJobs -------------------------------
(* Small instances of JobQueue: two workers, and requests that share a key. *)
EXTENDS JobQueue, TLC

CONSTANTS first, second, late, key1

SharedKey == [q \in Requests |-> key1]
=============================================================================
