------------------------------ MODULE JobQueue ------------------------------
(***************************************************************************)
(* The start_market job queue (examples/marketplace/feed/src):             *)
(* redisQueue.ts and the POST /v1/markets handler on one side, worker.ts   *)
(* and marketLauncher.ts on the other, Redis and the job log between them. *)
(*                                                                         *)
(* Every Redis command is atomic and every await a step of its own.  A     *)
(* fault is a command or a file append that throws, before or after it     *)
(* took effect, or a worker that dies; MaxFaults bounds them.  A request   *)
(* makes at most one job, so the job it makes carries the request's name   *)
(* (a randomUUID in the code).  The organization and activation records    *)
(* written after a launch are abstracted to whether they throw.            *)
(***************************************************************************)
EXTENDS Integers, Sequences, FiniteSets

CONSTANTS
    Requests,       \* POST /v1/markets calls, retries included
    Key,            \* Key[q]: the Idempotency-Key of request q, or NoKey
    Workers,
    MaxAttempts,    \* START_MARKET_MAX_ATTEMPTS
    MaxFaults,      \* bound: faults
    MaxTrouble,     \* bound: faults, plus twice the SIGTERMs and the requests that
                    \* begin while another is handled
    MaxTime,        \* bound: the clock that stamps records; 0 leaves stamps out
    Stoppable,      \* workers that may be sent SIGTERM
    NoKey, NoJob

ASSUME StoppableAssumption == Stoppable \subseteq Workers
ASSUME AttemptsAssumption == MaxAttempts \in Nat \ {0}
ASSUME BoundAssumption == MaxFaults \in Nat /\ MaxTrouble \in Nat /\ MaxTime \in Nat

VARIABLES
    api,        \* api[q]: the step request q is at
    answer,     \* answer[q]: the job of its 202 response, or NoJob
    known,      \* history: known[q], the jobs answered under q's key when q began,
                \* if no request with that key was still unanswered
    beside,     \* history: how many requests began while another was handled
    keyed,      \* keyed[k]: the job id stored under idempotency key k
    stored,     \* stored[j]: the payload of hash j in Redis, or NoJob
    logged,     \* logged[j]: the job-log record getPersistedStartMarketJob finds
    queue, dead,    \* the two Redis lists, head first
    pc, held,   \* pc[w], held[w]: the step worker w is at, the job it holds
    stopping,   \* stopping[w]: SIGTERM was received
    sessions,   \* sessions[j]: market sessions launched for job j
    time, faults

asked == <<known, beside>>
apiVars == <<api, answer, asked, keyed>>
jobVars == <<stored, logged>>
workerVars == <<pc, held, stopping>>
jobQueueVars == <<apiVars, jobVars, queue, dead, workerVars, sessions, time, faults>>

Keys == {Key[q] : q \in Requests} \ {NoKey}
Statuses == {"queued", "running", "completed", "failed", "dead_lettered"}
Jobs == [id : Requests, status : Statuses, attempts : 0..MaxAttempts, updatedAt : 0..MaxTime]
ASSUME NoJobAssumption == NoJob \notin Requests /\ NoJob \notin Jobs

Holding == {"reserved", "launching", "recording", "failing", "backoff", "requeue", "bury"}

JobsTypeOK ==
    /\ api \in [Requests -> {"new", "lookup", "claim", "save", "push", "done", "error"}]
    /\ answer \in [Requests -> Requests \cup {NoJob}]
    /\ known \in [Requests -> SUBSET (Requests \cup {NoJob})] /\ beside \in Nat
    /\ keyed \in [Keys -> Requests \cup {NoJob}]
    /\ stored \in [Requests -> Jobs \cup {NoJob}]
    /\ logged \in [Requests -> Jobs \cup {NoJob}]
    /\ queue \in Seq(Jobs) /\ dead \in Seq(Jobs)
    /\ pc \in [Workers -> {"loop", "reserve", "stopped", "down"} \cup Holding]
    /\ held \in [Workers -> Jobs \cup {NoJob}]
    /\ \A w \in Workers : held[w] # NoJob <=> pc[w] \in Holding
    /\ stopping \in [Workers -> BOOLEAN]
    /\ sessions \in [Requests -> Nat]
    /\ time \in 0..MaxTime /\ faults \in 0..MaxFaults
-----------------------------------------------------------------------------
NoFault == UNCHANGED faults

Trouble == faults + 2 * (Cardinality({w \in Workers : stopping[w]}) + beside)

Fault == faults < MaxFaults /\ Trouble < MaxTrouble /\ faults' = faults + 1

(* The log is read back by sorting a job's records on updatedAt, newest    *)
(* first; the sort is stable, so of two equal stamps the older record wins.*)
Log(job) ==
    logged' = IF logged[job.id] = NoJob \/ logged[job.id].updatedAt < job.updatedAt
              THEN [logged EXCEPT ![job.id] = job] ELSE logged

Store(job) == stored' = [stored EXCEPT ![job.id] = job]

SetJob(job) == Store(job) /\ Log(job) /\ NoFault

(* HSET throws, or the append after it does.                               *)
SetJobThrows(job) == Fault /\ UNCHANGED logged /\ (Store(job) \/ UNCHANGED stored)

(* Definitions named ...Mutant are slips this code could have had.  No     *)
(* specification uses them: each shows that a property would catch it.     *)
PushMutant(job) == UNCHANGED queue

Push(job) == queue' = <<job>> \o queue

PushThrowsMutant(job) == Fault /\ queue' = <<job, job>> \o queue

(* LPUSH throws: its reply is lost, or it never ran.                       *)
PushThrows(job) == Fault /\ (Push(job) \/ UNCHANGED queue)

JobsInit ==
    /\ api = [q \in Requests |-> "new"]
    /\ answer = [q \in Requests |-> NoJob]
    /\ known = [q \in Requests |-> {}]
    /\ beside = 0
    /\ keyed = [k \in Keys |-> NoJob]
    /\ stored = [j \in Requests |-> NoJob]
    /\ logged = [j \in Requests |-> NoJob]
    /\ queue = <<>>
    /\ dead = <<>>
    /\ pc = [w \in Workers |-> "loop"]
    /\ held = [w \in Workers |-> NoJob]
    /\ stopping = [w \in Workers |-> FALSE]
    /\ sessions = [j \in Requests |-> 0]
    /\ time = 0
    /\ faults = 0
-----------------------------------------------------------------------------
(* enqueueStartMarketJob, one step per Redis command.                      *)

Goto(q, step) == api' = [api EXCEPT ![q] = step]
Respond(q, j) == Goto(q, "done") /\ answer' = [answer EXCEPT ![q] = j]

NewJob(q) == [id |-> q, status |-> "queued", attempts |-> 0, updatedAt |-> time]

UnderWay == {p \in Requests : api[p] \in {"lookup", "claim", "save", "push"}}
Earlier(q) == {p \in Requests : Key[q] # NoKey /\ Key[p] = Key[q] /\ api[p] # "new"}

GetKey(q) ==
    /\ api[q] = "new"
    /\ \/ UnderWay = {} /\ UNCHANGED beside
       \/ UnderWay # {} /\ Trouble + 1 < MaxTrouble /\ beside' = beside + 1
    /\ Goto(q, IF Key[q] = NoKey THEN "save"
               ELSE IF keyed[Key[q]] = NoJob THEN "claim" ELSE "lookup")
    /\ known' = [known EXCEPT ![q] = IF \A p \in Earlier(q) : api[p] = "done"
                                     THEN {answer[p] : p \in Earlier(q)} ELSE {}]
    /\ UNCHANGED <<answer, keyed, jobVars, queue, faults>>

(* A key whose job was never saved is free again.                          *)
GetExisting(q) ==
    /\ api[q] = "lookup"
    /\ LET j == keyed[Key[q]]
       IN IF stored[j] = NoJob THEN Goto(q, "claim") /\ UNCHANGED answer ELSE Respond(q, j)
    /\ UNCHANGED <<asked, keyed, jobVars, queue, faults>>

ClaimMutant(q) == keyed

Claim(q) == [keyed EXCEPT ![Key[q]] = q]

SetKey(q) ==
    /\ api[q] = "claim"
    /\ \/ Goto(q, "save") /\ keyed' = Claim(q) /\ NoFault
       \/ Goto(q, "error") /\ Fault /\ keyed' \in {keyed, Claim(q)}
    /\ UNCHANGED <<answer, asked, jobVars, queue>>

SaveJob(q) ==
    /\ api[q] = "save"
    /\ \/ Goto(q, "push") /\ SetJob(NewJob(q))
       \/ Goto(q, "error") /\ SetJobThrows(NewJob(q))
    /\ UNCHANGED <<answer, asked, keyed, queue>>

PushNew(q) ==
    /\ api[q] = "push"
    /\ \/ Respond(q, q) /\ Push(stored[q]) /\ NoFault
       \/ Goto(q, "error") /\ UNCHANGED answer /\ PushThrows(stored[q])
    /\ UNCHANGED <<asked, keyed, jobVars>>

ApiStep(q) ==
    /\ GetKey(q) \/ GetExisting(q) \/ SetKey(q) \/ SaveJob(q) \/ PushNew(q)
    /\ UNCHANGED <<dead, workerVars, sessions, time>>
-----------------------------------------------------------------------------
(* The worker.  runJob's uncaught errors are logged by main, which goes on *)
(* with the next job: the one in hand is dropped.                          *)

Move(w, step, job) ==
    /\ pc' = [pc EXCEPT ![w] = step]
    /\ held' = [held EXCEPT ![w] = job]

Finish(w) == Move(w, "loop", NoJob)
Stamp(job, status) == [job EXCEPT !.status = status, !.updatedAt = time]

Loop(w) ==
    /\ pc[w] = "loop"
    /\ Move(w, IF stopping[w] THEN "stopped" ELSE "reserve", NoJob)
    /\ UNCHANGED <<jobVars, queue, dead, sessions, faults>>

PoppedMutant == queue

Popped == SubSeq(queue, 1, Len(queue) - 1)

(* BRPOP takes the job off the list for good; a reply that is lost ends    *)
(* the process.                                                            *)
Reserve(w) ==
    /\ pc[w] = "reserve"
    /\ \/ queue = <<>> /\ Finish(w) /\ NoFault /\ UNCHANGED queue
       \/ /\ queue # <<>>
          /\ queue' = Popped
          /\ \/ Move(w, "reserved", queue[Len(queue)]) /\ NoFault
             \/ Move(w, "down", NoJob) /\ Fault
    /\ UNCHANGED <<jobVars, dead, sessions>>

Running(w) == [Stamp(held[w], "running") EXCEPT !.attempts = @ + 1]

StartAttempt(w) ==
    /\ pc[w] = "reserved"
    /\ \/ SetJob(Running(w)) /\ Move(w, "launching", Running(w))
       \/ SetJobThrows(Running(w)) /\ Finish(w)
    /\ UNCHANGED <<queue, dead, sessions>>

(* The launcher's child may fail, or print its session; a child that is    *)
(* late is not killed, and its session starts all the same.                *)
Launch(w) ==
    /\ pc[w] = "launching"
    /\ \/ Move(w, "recording", held[w]) /\ sessions' = [sessions EXCEPT ![held[w].id] = @ + 1]
       \/ /\ Move(w, "failing", held[w])
          /\ sessions' \in {sessions, [sessions EXCEPT ![held[w].id] = @ + 1]}
    /\ UNCHANGED <<jobVars, queue, dead, faults>>

Complete(w) ==
    /\ pc[w] = "recording"
    /\ \/ SetJob(Stamp(held[w], "completed")) /\ Finish(w)
       \/ SetJobThrows(Stamp(held[w], "completed")) /\ Move(w, "failing", held[w])
    /\ UNCHANGED <<queue, dead, sessions>>

OffByOneMutant(job) == job.attempts <= MaxAttempts

MayRetry(job) == job.attempts < MaxAttempts

(* The record of the failure and that of the retry are stamped together,   *)
(* before the backoff.                                                     *)
Fail(w) ==
    LET failed == Stamp(held[w], "failed")
    IN /\ pc[w] = "failing"
       /\ IF MayRetry(held[w])
          THEN \/ SetJob(failed) /\ Move(w, "backoff", Stamp(held[w], "queued"))
               \/ SetJobThrows(failed) /\ Finish(w)
          ELSE \/ /\ SetJob(Stamp(held[w], "dead_lettered"))
                  /\ Move(w, "bury", Stamp(held[w], "dead_lettered"))
               \/ SetJobThrows(Stamp(held[w], "dead_lettered")) /\ Finish(w)
       /\ UNCHANGED <<queue, dead, sessions>>

SaveRetry(w) ==
    /\ pc[w] = "backoff"
    /\ \/ SetJob(held[w]) /\ Move(w, "requeue", held[w])
       \/ SetJobThrows(held[w]) /\ Finish(w)
    /\ UNCHANGED <<queue, dead, sessions>>

RequeueMutant(w) ==
    /\ pc[w] = "requeue"
    /\ IF stopping[w] THEN UNCHANGED queue ELSE Push(held[w])
    /\ Finish(w)
    /\ UNCHANGED <<jobVars, dead, sessions, faults>>

Requeue(w) ==
    /\ pc[w] = "requeue"
    /\ \/ Push(held[w]) /\ NoFault
       \/ PushThrows(held[w])
    /\ Finish(w)
    /\ UNCHANGED <<jobVars, dead, sessions>>

Bury(w) ==
    /\ pc[w] = "bury"
    /\ \/ dead' = <<held[w]>> \o dead /\ NoFault
       \/ dead' \in {dead, <<held[w]>> \o dead} /\ Fault
    /\ Finish(w)
    /\ UNCHANGED <<jobVars, queue, sessions>>

(* Two steps of a worker are an await apart, and stamped apart.            *)
Advance == time' = IF time < MaxTime THEN time + 1 ELSE time

WorkerStep(w) ==
    /\ Advance
    /\ \/ Loop(w) \/ Reserve(w) \/ StartAttempt(w) \/ Launch(w) \/ Complete(w)
       \/ Fail(w) \/ SaveRetry(w) \/ Requeue(w) \/ Bury(w)
    /\ UNCHANGED <<apiVars, stopping>>

(* SIGTERM only sets a flag.                                               *)
Stop(w) ==
    /\ w \in Stoppable
    /\ ~stopping[w]
    /\ Trouble + 1 < MaxTrouble
    /\ stopping' = [stopping EXCEPT ![w] = TRUE]
    /\ UNCHANGED <<apiVars, jobVars, queue, dead, pc, held, sessions, time, faults>>

Crash(w) ==
    /\ pc[w] \notin {"stopped", "down"}
    /\ Fault
    /\ Move(w, "down", NoJob)
    /\ UNCHANGED <<apiVars, jobVars, queue, dead, stopping, sessions, time>>

Restart(w) ==
    /\ pc[w] = "down"
    /\ Finish(w)
    /\ stopping' = [stopping EXCEPT ![w] = FALSE]
    /\ UNCHANGED <<apiVars, jobVars, queue, dead, sessions, time, faults>>

JobsNext ==
    \/ \E q \in Requests : ApiStep(q)
    \/ \E w \in Workers : WorkerStep(w) \/ Stop(w) \/ Crash(w) \/ Restart(w)

(* Both processes go on by themselves: a promise of the code settles, and  *)
(* each Redis command and each launch has a timeout.  A worker that died is*)
(* not assumed to come back.                                               *)
JobsSpec ==
    /\ JobsInit /\ [][JobsNext]_jobQueueVars
    /\ \A q \in Requests : WF_jobQueueVars(ApiStep(q))
    /\ \A w \in Workers : WF_jobQueueVars(WorkerStep(w))
-----------------------------------------------------------------------------
Holds(w, j) == held[w] # NoJob /\ held[w].id = j
Queued(j) == \E i \in DOMAIN queue : queue[i].id = j
InHand(j) == \E w \in Workers : Holds(w, j)

Ended(j) == stored[j] # NoJob /\ stored[j].status \in {"completed", "dead_lettered"}

(* A job is never in two places: no two workers run it at once, and no     *)
(* retry overtakes an attempt that is still running (redisQueue.ts:64-79), *)
(* although every push may throw after it took effect.                     *)
OneHolder ==
    /\ \A i, k \in DOMAIN queue : queue[i].id = queue[k].id => i = k
    /\ \A w, v \in Workers : held[w] # NoJob /\ Holds(v, held[w].id) => v = w
    /\ \A w \in Workers : held[w] # NoJob => ~Queued(held[w].id)

(* A job launches at most one session an attempt, so at most MaxAttempts,  *)
(* whatever fails between launch and record; and it is buried once, when   *)
(* all of its attempts are used up and no copy of it is left to run        *)
(* (worker.ts:46-85, docs/WORKER_ARCHITECTURE.md:60, 65).                  *)
LaunchesBounded ==
    /\ \A j \in Requests : sessions[j] <= MaxAttempts
    /\ \A i \in DOMAIN dead :
          /\ dead[i].attempts = MaxAttempts
          /\ ~Queued(dead[i].id) /\ ~InHand(dead[i].id)
          /\ \A k \in DOMAIN dead : dead[k].id = dead[i].id => k = i

(* Requests with one key are answered with one job                         *)
(* (docs/WORKER_ARCHITECTURE.md:57-58).                                    *)
SameJobForKey ==
    \A p, q \in Requests :
       Key[p] = Key[q] /\ Key[p] # NoKey /\ NoJob \notin {answer[p], answer[q]}
          => answer[p] = answer[q]

(* Requests with one key may overlap and be answered with several jobs; but*)
(* once those begun so far are all answered, no later request opens a      *)
(* further job: it is answered with one of theirs (redisQueue.ts:41-49).   *)
AnsweredKeyStands ==
    \A q \in Requests : known[q] # {} /\ answer[q] # NoJob => answer[q] \in known[q]

(* Whoever reads a job's status from Redis sees a job of module Job: it    *)
(* waits, runs and ends in order, an attempt at a time, and without a fault*)
(* its end is final, although it is written by whichever process holds it, *)
(* each record before the push that passes the job on (worker.ts:29-94,    *)
(* redisQueue.ts:64-90).                                                   *)
Status == [j \in Requests |-> IF stored[j] = NoJob THEN "none" ELSE stored[j].status]

Attempts == [j \in Requests |-> IF stored[j] = NoJob THEN 0 ELSE stored[j].attempts]

Promise == INSTANCE Job WITH Ids <- Requests, MaxAttempts <- MaxAttempts,
                             status <- Status, attempts <- Attempts, lapsed <- faults > 0

KeepsOrder == Promise!JobSpec

(* Every job a client was given ends, completed or dead-lettered, unless a *)
(* fault strikes, as long as one worker is not told to stop.               *)
JobsEnd == \A j \in Requests : (\E q \in Requests : answer[q] = j) ~> (Ended(j) \/ faults > 0)

(* A worker told to stop first sees to the job in hand: when it leaves, the*)
(* job has ended or is back for another worker, unless a fault struck      *)
(* (docs/WORKER_ARCHITECTURE.md:64, "drains in-flight jobs").              *)
StopDrains ==
    \A w \in Stoppable, j \in Requests :
       stopping[w] /\ held[w] # NoJob /\ held[w].id = j
          ~> \/ pc[w] = "stopped" /\ (Ended(j) \/ Queued(j) \/ InHand(j))
             \/ faults > 0
=============================================================================
