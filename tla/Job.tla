-------------------------------- MODULE Job ---------------------------------
(***************************************************************************)
(* What the queue promises whoever follows a market job by its status      *)
(* (GET /v1/market-jobs/:id, docs/WORKER_ARCHITECTURE.md): no lists, keys, *)
(* workers or records.  A job waits, runs, and ends completed or, with its *)
(* attempts used up, dead-lettered; a failed attempt sends it back to wait.*)
(* Without a fault an end is an end: only after a request to Redis or an   *)
(* append has thrown may a completed job turn out to have failed.          *)
(***************************************************************************)
EXTENDS Naturals

CONSTANTS Ids, MaxAttempts

VARIABLES
    status,     \* status[j]: what a reader of job j is told, or "none"
    attempts,   \* attempts[j]: the attempts begun
    lapsed      \* a fault has struck

jobStatusVars == <<status, attempts, lapsed>>

JobInit ==
    /\ status = [j \in Ids |-> "none"]
    /\ attempts = [j \in Ids |-> 0]
    /\ lapsed = FALSE

Turn(j, from, to) == status[j] = from /\ status' = [status EXCEPT ![j] = to]

Accept(j) == Turn(j, "none", "queued") /\ UNCHANGED attempts

Begin(j) ==
    /\ Turn(j, "queued", "running")
    /\ attempts[j] < MaxAttempts
    /\ attempts' = [attempts EXCEPT ![j] = @ + 1]

Succeed(j) == Turn(j, "running", "completed") /\ UNCHANGED attempts

FailFrom(j, from) ==
    /\ \/ attempts[j] < MaxAttempts /\ Turn(j, from, "failed")
       \/ attempts[j] = MaxAttempts /\ Turn(j, from, "dead_lettered")
    /\ UNCHANGED attempts

Return(j) == Turn(j, "failed", "queued") /\ UNCHANGED attempts

(* A market that is open, and recorded so, before its record throws.       *)
Relapse(j) == lapsed /\ FailFrom(j, "completed")

JobStep(j) ==
    Accept(j) \/ Begin(j) \/ Succeed(j) \/ FailFrom(j, "running") \/ Return(j) \/ Relapse(j)

JobNext ==
    /\ lapsed' \in {lapsed, TRUE}
    /\ (\E j \in Ids : JobStep(j)) \/ UNCHANGED <<status, attempts>>

JobSpec == JobInit /\ [][JobNext]_jobStatusVars
=============================================================================
