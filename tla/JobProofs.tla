----------------------------- MODULE JobProofs ------------------------------
(***************************************************************************)
(* Proofs about the job queue, for any requests, keys, workers and bounds. *)
(***************************************************************************)
EXTENDS JobQueue, FiniteSetTheorems, TLAPS

(* What is passed on is on record as it is: whoever takes it goes on from  *)
(* the record.                                                             *)
Waiting(job) ==
    /\ job.status = "queued"
    /\ job.attempts < MaxAttempts
    /\ stored[job.id] = job

(* The record of the job in hand, at each step of its worker.              *)
Fit(w) ==
    LET job == held[w]
        record == stored[job.id]
    IN /\ pc[w] \in {"reserved", "requeue"} => Waiting(job)
       /\ pc[w] \in {"launching", "recording"} => job.status = "running" /\ record = job
       /\ pc[w] = "launching" => sessions[job.id] < job.attempts
       /\ pc[w] = "failing" =>
             /\ job.status = "running"
             /\ record # NoJob
             /\ record.attempts = job.attempts
             /\ record.status = "running" \/ (record.status = "completed" /\ faults > 0)
       /\ pc[w] = "backoff" =>
             /\ job.status = "queued" /\ job.attempts < MaxAttempts
             /\ record # NoJob
             /\ record.status = "failed" /\ record.attempts = job.attempts
       /\ pc[w] = "bury" =>
             /\ job.status = "dead_lettered" /\ job.attempts = MaxAttempts
             /\ record = job
             /\ \A i \in DOMAIN dead : dead[i].id # job.id

(* The record of a job, in Redis and on the way there.                     *)
Recorded(j) ==
    /\ stored[j] = NoJob => sessions[j] = 0
    /\ stored[j] # NoJob => stored[j].id = j /\ sessions[j] <= stored[j].attempts
    /\ api[j] \in {"lookup", "claim"} => Key[j] # NoKey
    /\ api[j] \in {"new", "lookup", "claim", "save"} => stored[j] = NoJob
    /\ api[j] = "push" =>
          stored[j] # NoJob /\ Waiting(stored[j]) /\ ~Queued(j) /\ ~InHand(j)

Buried(i) ==
    /\ dead[i].status = "dead_lettered" /\ dead[i].attempts = MaxAttempts
    /\ stored[dead[i].id] = dead[i]
    /\ \A k \in DOMAIN dead : dead[k].id = dead[i].id => k = i

JobsInv ==
    /\ JobsTypeOK
    /\ OneHolder
    /\ \A i \in DOMAIN queue : Waiting(queue[i])
    /\ \A w \in Workers : Fit(w)
    /\ \A j \in Requests : Recorded(j)
    /\ \A i \in DOMAIN dead : Buried(i)
-----------------------------------------------------------------------------
(* Sequences of records with an id.                                        *)

Has(s, j) == \E i \in DOMAIN s : s[i].id = j
Distinct(s) == \A i, k \in DOMAIN s : s[i].id = s[k].id => i = k

(* LPUSH adds its record, and nothing else.                                *)
LEMMA Pushing ==
    ASSUME NEW S, NEW s \in Seq(S), NEW e \in S,
           NEW t, t = <<e>> \o s
    PROVE  /\ t \in Seq(S)
           /\ \A i \in DOMAIN t : t[i] = e \/ \E k \in DOMAIN s : t[i] = s[k]
           /\ \A j : Has(t, j) <=> j = e.id \/ Has(s, j)
           /\ Distinct(s) /\ ~Has(s, e.id) => Distinct(t)
<1>1. t \in Seq(S) /\ Len(t) = Len(s) + 1
  OBVIOUS
<1>2. t[1] = e /\ \A i \in 2..Len(t) : t[i] = s[i - 1]
  OBVIOUS
<1>3. DOMAIN t = 1..(Len(s) + 1) /\ DOMAIN s = 1..Len(s) /\ Len(s) \in Nat
  BY <1>1
<1>4. \A i \in DOMAIN t : t[i] = e \/ \E k \in DOMAIN s : t[i] = s[k]
  BY <1>1, <1>2, <1>3
<1>5. \A i \in DOMAIN s : t[i + 1] = s[i] /\ i + 1 \in DOMAIN t
  BY <1>1, <1>2, <1>3
<1>6. ASSUME NEW j PROVE Has(t, j) <=> j = e.id \/ Has(s, j)
  <2>1. Has(t, j) => j = e.id \/ Has(s, j)
    BY <1>4 DEF Has
  <2>2. 1 \in DOMAIN t
    BY <1>3
  <2>3. j = e.id \/ Has(s, j) => Has(t, j)
    BY <1>2, <1>5, <2>2 DEF Has
  <2> QED
    BY <2>1, <2>3
<1>7. ASSUME Distinct(s), ~Has(s, e.id) PROVE Distinct(t)
  BY <1>1, <1>2, <1>3, <1>7 DEF Has, Distinct
<1> QED
  BY <1>1, <1>4, <1>6, <1>7

(* BRPOP takes the last record off, and nothing else.                      *)
LEMMA Popping ==
    ASSUME NEW S, NEW s \in Seq(S), s # <<>>,
           NEW t, t = SubSeq(s, 1, Len(s) - 1)
    PROVE  /\ t \in Seq(S)
           /\ s[Len(s)] \in S /\ Len(s) \in DOMAIN s
           /\ \A i \in DOMAIN t : i \in DOMAIN s /\ t[i] = s[i]
           /\ \A j : Has(t, j) => Has(s, j)
           /\ Distinct(s) => Distinct(t) /\ ~Has(t, s[Len(s)].id)
<1>1. Len(s) \in Nat \ {0} /\ DOMAIN s = 1..Len(s)
  OBVIOUS
<1>2. t \in Seq(S) /\ Len(t) = Len(s) - 1 /\ \A i \in 1..Len(t) : t[i] = s[i]
  BY <1>1
<1>3. DOMAIN t = 1..(Len(s) - 1)
  BY <1>1, <1>2
<1> QED
  BY <1>1, <1>2, <1>3 DEF Has, Distinct
-----------------------------------------------------------------------------
(* Parts of the invariant that a step leaves alone.                        *)

LEMMA HandsKept ==
    ASSUME JobsInv, UNCHANGED <<pc, held, stored, sessions, dead>>, faults > 0 => faults' > 0
    PROVE  \A w \in Workers : Fit(w)'
<1> SUFFICES ASSUME NEW w \in Workers PROVE Fit(w)'
  OBVIOUS
<1>1. Fit(w)
  BY DEF JobsInv
<1> QED
  BY <1>1 DEF Fit, Waiting

LEMMA QueueKept ==
    ASSUME JobsInv, UNCHANGED <<queue, stored>>
    PROVE  \A i \in DOMAIN queue' : Waiting(queue[i])'
BY DEF JobsInv, Waiting

LEMMA GraveKept ==
    ASSUME JobsInv, UNCHANGED <<dead, stored>>
    PROVE  \A i \in DOMAIN dead' : Buried(i)'
BY DEF JobsInv, Buried

(* Whatever is queued, in hand or buried is on record.                     *)
LEMMA OnRecord ==
    ASSUME JobsInv
    PROVE  /\ \A i \in DOMAIN queue : queue[i] \in Jobs /\ stored[queue[i].id] = queue[i]
           /\ \A i \in DOMAIN dead : dead[i] \in Jobs /\ stored[dead[i].id] = dead[i]
           /\ \A w \in Workers : held[w] # NoJob =>
                 pc[w] \in Holding /\ held[w] \in Jobs /\ stored[held[w].id] # NoJob
<1>1. \A i \in DOMAIN queue : queue[i] \in Jobs
  BY DEF JobsInv, JobsTypeOK
<1>2. \A i \in DOMAIN dead : dead[i] \in Jobs
  BY DEF JobsInv, JobsTypeOK
<1>3. ASSUME NEW w \in Workers, held[w] # NoJob
      PROVE  pc[w] \in Holding /\ held[w] \in Jobs
  BY <1>3 DEF JobsInv, JobsTypeOK
<1>4. ASSUME NEW w \in Workers, held[w] # NoJob
      PROVE  stored[held[w].id] # NoJob
  <2>1. Fit(w) /\ pc[w] \in Holding /\ held[w] # NoJob
    BY <1>3, <1>4 DEF JobsInv
  <2> QED
    BY <2>1 DEF Fit, Waiting, Holding
<1> QED
  BY <1>1, <1>2, <1>3, <1>4 DEF JobsInv, Waiting, Buried

(* A step about one job leaves those who hold another alone.               *)
LEMMA OthersKept ==
    ASSUME JobsInv, NEW j \in Requests, NEW w \in Workers,
           held[w] # NoJob => held[w].id # j,
           pc'[w] = pc[w], held'[w] = held[w], faults > 0 => faults' > 0,
           \A k \in Requests \ {j} : stored'[k] = stored[k] /\ sessions'[k] = sessions[k],
           \A i \in DOMAIN dead' :
              dead'[i].id = j \/ \E k \in DOMAIN dead : dead'[i] = dead[k]
    PROVE  Fit(w)'
<1>1. Fit(w)
  BY DEF JobsInv
<1>2. CASE held[w] = NoJob
  BY <1>2, NoJobAssumption DEF JobsInv, JobsTypeOK, Fit, Holding
<1>3. CASE held[w] # NoJob
  <2>1. held[w] \in Jobs /\ held[w].id \in Requests \ {j}
    BY <1>3, OnRecord DEF Jobs
  <2> QED
    BY <1>1, <2>1 DEF Fit, Waiting
<1> QED
  BY <1>2, <1>3

(* A job in hand is nowhere else, and neither new nor buried.              *)
LEMMA HandFacts ==
    ASSUME JobsInv, NEW w \in Workers, held[w] # NoJob
    PROVE  /\ held[w] \in Jobs /\ pc[w] \in Holding
           /\ stored[held[w].id] \in Jobs /\ stored[held[w].id].attempts <= MaxAttempts
           /\ \A v \in Workers \ {w} : held[v] # NoJob => held[v].id # held[w].id
           /\ \A i \in DOMAIN queue : queue[i].id # held[w].id
           /\ api[held[w].id] \in {"done", "error"}
           /\ \A i \in DOMAIN dead : dead[i].id # held[w].id
<1>1. /\ held[w] \in Jobs /\ pc[w] \in Holding /\ stored[held[w].id] # NoJob
      /\ held[w].id \in Requests
  BY OnRecord DEF Jobs
<1>2. stored[held[w].id] \in Jobs /\ stored[held[w].id].attempts <= MaxAttempts
  BY <1>1, AttemptsAssumption DEF JobsInv, JobsTypeOK, Jobs
<1>3. \A v \in Workers \ {w} : held[v] # NoJob => held[v].id # held[w].id
  BY DEF JobsInv, OneHolder, Holds
<1>4. \A i \in DOMAIN queue : queue[i].id # held[w].id
  BY DEF JobsInv, OneHolder, Queued
<1>5. InHand(held[w].id)
  BY DEF InHand, Holds
<1>6. api[held[w].id] \in {"done", "error"}
  BY <1>1, <1>5 DEF JobsInv, JobsTypeOK, Recorded
<1>7. \A i \in DOMAIN dead : dead[i].id # held[w].id
  <2>1. Fit(w) /\ \A i \in DOMAIN dead : Buried(i)
    BY DEF JobsInv
  <2> QED
    BY <1>1, <2>1 DEF Fit, Waiting, Buried, Holding
<1> QED
  BY <1>1, <1>2, <1>3, <1>4, <1>6, <1>7

(* A worker's step about the job in hand, which stays there or is dropped. *)
LEMMA HandStep ==
    ASSUME JobsInv, NEW w \in Workers, held[w] # NoJob, NEW job \in Jobs \cup {NoJob},
           NEW step, Move(w, step, job), job # NoJob => job.id = held[w].id,
           UNCHANGED <<apiVars, queue, dead>>, faults > 0 => faults' > 0,
           stored' \in [Requests -> Jobs \cup {NoJob}],
           \A k \in Requests \ {held[w].id} : stored'[k] = stored[k] /\ sessions'[k] = sessions[k],
           stored'[held[w].id].id = held[w].id, stored'[held[w].id] # NoJob,
           sessions'[held[w].id] <= stored'[held[w].id].attempts,
           Fit(w)'
    PROVE  /\ OneHolder'
           /\ \A i \in DOMAIN queue' : Waiting(queue[i])'
           /\ \A v \in Workers : Fit(v)'
           /\ \A j \in Requests : Recorded(j)'
           /\ \A i \in DOMAIN dead' : Buried(i)'
<1> PICK j \in Requests : j = held[w].id
  BY HandFacts DEF Jobs
<1>1. /\ \A v \in Workers \ {w} : held[v] # NoJob => held[v].id # j
      /\ \A i \in DOMAIN queue : queue[i].id # j
      /\ api[j] \in {"done", "error"}
      /\ \A i \in DOMAIN dead : dead[i].id # j
  BY HandFacts DEF Jobs
<1>2. /\ \A v \in Workers \ {w} : pc'[v] = pc[v] /\ held'[v] = held[v]
      /\ held'[w] = job
  BY DEF Move, JobsInv, JobsTypeOK
<1>3. OneHolder'
  BY <1>1, <1>2 DEF JobsInv, OneHolder, Holds, Queued
<1>4. \A i \in DOMAIN queue' : Waiting(queue[i])'
  BY <1>1, OnRecord DEF JobsInv, Waiting, Jobs
<1>5. \A v \in Workers : Fit(v)'
  BY <1>1, <1>2, OthersKept
<1>6. \A i \in DOMAIN dead' : Buried(i)'
  BY <1>1, OnRecord DEF JobsInv, Buried, Jobs
<1>7. \A k \in Requests : Recorded(k)'
  <2>1. ASSUME NEW k \in Requests, k # j PROVE Recorded(k)'
    <3>1. InHand(k)' => InHand(k)
      BY <1>2, <2>1 DEF InHand, Holds
    <3>2. Recorded(k) /\ stored'[k] = stored[k] /\ sessions'[k] = sessions[k] /\ api'[k] = api[k]
      BY <2>1 DEF JobsInv, apiVars
    <3> QED
      BY <3>1, <3>2 DEF Recorded, Waiting, Queued, apiVars
  <2>2. /\ stored'[j] # NoJob /\ stored'[j].id = j /\ sessions'[j] <= stored'[j].attempts
        /\ api'[j] \in {"done", "error"}
    BY <1>1 DEF apiVars
  <2>3. Recorded(j)'
    BY <2>2 DEF Recorded
  <2> QED
    BY <2>1, <2>3
<1> QED
  BY <1>3, <1>4, <1>5, <1>6, <1>7

(* setJob, whether it throws or not.                                       *)
LEMMA Setting ==
    ASSUME JobsInv, NEW job \in Jobs, SetJob(job) \/ SetJobThrows(job)
    PROVE  /\ stored' \in [Requests -> Jobs \cup {NoJob}]
           /\ logged' \in [Requests -> Jobs \cup {NoJob}]
           /\ \A k \in Requests \ {job.id} : stored'[k] = stored[k]
           /\ stored'[job.id] \in {stored[job.id], job}
           /\ SetJob(job) => stored'[job.id] = job /\ faults' = faults
           /\ SetJobThrows(job) => faults' > 0
           /\ faults' \in 0..MaxFaults /\ (faults > 0 => faults' > 0)
<1>1. stored \in [Requests -> Jobs \cup {NoJob}] /\ logged \in [Requests -> Jobs \cup {NoJob}]
  BY DEF JobsInv, JobsTypeOK
<1>2. job.id \in Requests
  BY DEF Jobs
<1>3. faults' \in 0..MaxFaults /\ (faults > 0 => faults' > 0)
  BY BoundAssumption DEF SetJob, SetJobThrows, Fault, NoFault, JobsInv, JobsTypeOK
<1>4. SetJobThrows(job) => faults' > 0
  BY BoundAssumption DEF SetJobThrows, Fault, JobsInv, JobsTypeOK
<1>5. stored' \in {stored, [stored EXCEPT ![job.id] = job]}
  BY DEF SetJob, SetJobThrows, Store
<1>6. logged' \in {logged, [logged EXCEPT ![job.id] = job]}
  BY DEF SetJob, SetJobThrows, Log
<1> QED
  BY <1>1, <1>2, <1>3, <1>4, <1>5, <1>6 DEF SetJob, Store, NoFault

(* An LPUSH of a record whose job is not queued, or one that never ran.    *)
LEMMA Queueing ==
    ASSUME JobsInv, NEW job \in Jobs, ~Has(queue, job.id),
           queue' \in {queue, <<job>> \o queue}
    PROVE  /\ queue' \in Seq(Jobs)
           /\ \A i \in DOMAIN queue' :
                 queue'[i] = job \/ \E k \in DOMAIN queue : queue'[i] = queue[k]
           /\ \A j : Has(queue', j) => j = job.id \/ Has(queue, j)
           /\ Distinct(queue')
<1>1. queue \in Seq(Jobs) /\ Distinct(queue)
  BY DEF JobsInv, JobsTypeOK, OneHolder, Distinct
<1>2. CASE queue' = queue
  BY <1>1, <1>2
<1>3. CASE queue' = <<job>> \o queue
  <2>1. PICK s, t : s = queue /\ t = queue'
    OBVIOUS
  <2>2. s \in Seq(Jobs) /\ t = <<job>> \o s /\ Distinct(s) /\ ~Has(s, job.id)
    BY <1>1, <1>3, <2>1
  <2>3. t \in Seq(Jobs) /\ Distinct(t)
    BY <2>2, Pushing
  <2>4. \A i \in DOMAIN t : t[i] = job \/ \E k \in DOMAIN s : t[i] = s[k]
    BY <2>2, Pushing
  <2>5. \A j : Has(t, j) => j = job.id \/ Has(s, j)
    BY <2>2, Pushing
  <2> QED
    BY <2>1, <2>3, <2>4, <2>5
<1> QED
  BY <1>2, <1>3
-----------------------------------------------------------------------------
LEMMA InitHolds == JobsInit => JobsInv
<1> SUFFICES ASSUME JobsInit PROVE JobsInv
  OBVIOUS
<1>1. queue \in Seq(Jobs) /\ dead \in Seq(Jobs) /\ DOMAIN queue = {} /\ DOMAIN dead = {}
  BY DEF JobsInit
<1>2. JobsTypeOK
  BY <1>1, AttemptsAssumption, BoundAssumption DEF JobsInit, JobsTypeOK, Holding, Keys
<1>3. OneHolder
  BY <1>1 DEF JobsInit, OneHolder, Holds
<1> QED
  BY <1>1, <1>2, <1>3 DEF JobsInv, JobsInit, Fit, Recorded

LEMMA GetKeyKeeps ==
    ASSUME JobsInv, NEW q \in Requests, ApiStep(q), GetKey(q) PROVE JobsInv'
<1> USE DEF ApiStep, GetKey, Goto, workerVars, jobVars
<1>1. JobsTypeOK'
  <2>1. {answer[p] : p \in Earlier(q)} \subseteq Requests \cup {NoJob}
    BY DEF Earlier, JobsInv, JobsTypeOK
  <2>2. /\ known' \in [Requests -> SUBSET (Requests \cup {NoJob})] /\ beside' \in Nat
        /\ api' \in [Requests -> {"new", "lookup", "claim", "save", "push", "done", "error"}]
    BY <2>1 DEF JobsInv, JobsTypeOK
  <2> QED
    BY <2>2 DEF JobsInv, JobsTypeOK
<1>2. OneHolder'
  BY DEF JobsInv, OneHolder, Holds, Queued
<1>3. (faults > 0 => faults' > 0) /\ UNCHANGED <<pc, held, stored, sessions, dead, queue>>
  BY DEF JobsInv, JobsTypeOK
<1>4. \A j \in Requests : Recorded(j)'
  BY DEF JobsInv, JobsTypeOK, Recorded, Waiting, Queued, InHand, Holds
<1> QED
  BY <1>1, <1>2, <1>3, <1>4, HandsKept, QueueKept, GraveKept DEF JobsInv

LEMMA GetExistingKeeps ==
    ASSUME JobsInv, NEW q \in Requests, ApiStep(q), GetExisting(q) PROVE JobsInv'
<1> USE DEF ApiStep, GetExisting, Goto, Respond, workerVars, jobVars
<1>1. JobsTypeOK'
  <2>1. Key[q] \in Keys /\ keyed[Key[q]] \in Requests \cup {NoJob}
    BY DEF JobsInv, JobsTypeOK, Recorded, Keys
  <2> QED
    BY <2>1 DEF asked, JobsInv, JobsTypeOK
<1>2. OneHolder'
  BY DEF JobsInv, OneHolder, Holds, Queued
<1>3. (faults > 0 => faults' > 0) /\ UNCHANGED <<pc, held, stored, sessions, dead, queue>>
  OBVIOUS
<1>4. \A j \in Requests : Recorded(j)'
  BY DEF JobsInv, JobsTypeOK, Recorded, Waiting, Queued, InHand, Holds
<1> QED
  BY <1>1, <1>2, <1>3, <1>4, HandsKept, QueueKept, GraveKept DEF JobsInv

LEMMA SetKeyKeeps ==
    ASSUME JobsInv, NEW q \in Requests, ApiStep(q), SetKey(q) PROVE JobsInv'
<1> USE DEF ApiStep, SetKey, Goto, Claim, NoFault, Fault, workerVars, jobVars
<1>1. JobsTypeOK'
  <2>1. faults' \in 0..MaxFaults
    BY BoundAssumption DEF JobsInv, JobsTypeOK
  <2>2. keyed' \in [Keys -> Requests \cup {NoJob}]
    BY DEF JobsInv, JobsTypeOK
  <2>3. api' \in [Requests -> {"new", "lookup", "claim", "save", "push", "done", "error"}]
    BY DEF JobsInv, JobsTypeOK
  <2> QED
    BY <2>1, <2>2, <2>3 DEF asked, JobsInv, JobsTypeOK
<1>2. OneHolder'
  BY DEF JobsInv, OneHolder, Holds, Queued
<1>3. (faults > 0 => faults' > 0) /\ UNCHANGED <<pc, held, stored, sessions, dead, queue>>
  BY DEF JobsInv, JobsTypeOK
<1>4. \A j \in Requests : Recorded(j)'
  BY DEF JobsInv, JobsTypeOK, Recorded, Waiting, Queued, InHand, Holds
<1> QED
  BY <1>1, <1>2, <1>3, <1>4, HandsKept, QueueKept, GraveKept DEF JobsInv

LEMMA SaveJobKeeps ==
    ASSUME JobsInv, NEW q \in Requests, ApiStep(q), SaveJob(q) PROVE JobsInv'
<1> USE DEF ApiStep, SaveJob, Goto, workerVars
<1>1. stored[q] = NoJob /\ sessions[q] = 0
  BY DEF JobsInv, Recorded
<1>2. /\ \A i \in DOMAIN queue : queue[i].id # q
      /\ \A i \in DOMAIN dead : dead[i].id # q
      /\ \A w \in Workers : held[w] # NoJob => held[w].id # q
  BY <1>1, OnRecord, NoJobAssumption
<1>3. /\ NewJob(q) \in Jobs /\ NewJob(q).id = q
      /\ NewJob(q).status = "queued" /\ NewJob(q).attempts = 0 /\ 0 < MaxAttempts
  <2>1. time \in 0..MaxTime
    BY DEF JobsInv, JobsTypeOK
  <2> QED
    BY <2>1, AttemptsAssumption DEF NewJob, Jobs, Statuses
<1>4. stored' \in {stored, [stored EXCEPT ![q] = NewJob(q)]}
  BY <1>3 DEF SetJob, SetJobThrows, Store
<1>5. logged' \in {logged, [logged EXCEPT ![q] = NewJob(q)]}
  BY <1>3 DEF SetJob, SetJobThrows, Log
<1>6. faults' \in 0..MaxFaults /\ (faults > 0 => faults' > 0)
  BY BoundAssumption DEF SetJob, SetJobThrows, Fault, NoFault, JobsInv, JobsTypeOK
<1>7. JobsTypeOK'
  <2>1. stored \in [Requests -> Jobs \cup {NoJob}] /\ logged \in [Requests -> Jobs \cup {NoJob}]
    BY DEF JobsInv, JobsTypeOK
  <2>2. stored' \in [Requests -> Jobs \cup {NoJob}] /\ logged' \in [Requests -> Jobs \cup {NoJob}]
    BY <1>3, <1>4, <1>5, <2>1
  <2>3. api' \in [Requests -> {"new", "lookup", "claim", "save", "push", "done", "error"}]
    BY DEF JobsInv, JobsTypeOK
  <2> QED
    BY <1>6, <2>2, <2>3 DEF asked, JobsInv, JobsTypeOK
<1>8. OneHolder'
  BY DEF JobsInv, OneHolder, Holds, Queued
<1>9. \A w \in Workers : Fit(w)'
  BY <1>2, <1>4, <1>6, OthersKept DEF JobsInv, JobsTypeOK
<1>10. \A i \in DOMAIN queue' : Waiting(queue[i])'
  BY <1>2, <1>4, OnRecord DEF JobsInv, JobsTypeOK, Waiting, Jobs
<1>11. \A i \in DOMAIN dead' : Buried(i)'
  BY <1>2, <1>4, OnRecord DEF JobsInv, JobsTypeOK, Buried, Jobs
<1>12. \A j \in Requests \ {q} : Recorded(j)'
  BY <1>4 DEF JobsInv, JobsTypeOK, Recorded, Waiting, Queued, InHand, Holds
<1>13. Recorded(q)'
  <2>1. q \in DOMAIN stored /\ q \in DOMAIN api /\ sessions'[q] = 0
    BY <1>1 DEF JobsInv, JobsTypeOK
  <2>2. ~Queued(q)' /\ ~InHand(q)'
    BY <1>2 DEF Queued, InHand, Holds
  <2>3. CASE api'[q] = "push"
    <3>1. stored'[q] = NewJob(q)
      BY <1>3, <2>1, <2>3 DEF SetJob, Store
    <3> QED
      BY <1>3, <2>1, <2>2, <2>3, <3>1, NoJobAssumption DEF Recorded, Waiting
  <2>4. CASE api'[q] = "error"
    BY <1>3, <1>4, <2>1, <2>4, <1>1, NoJobAssumption DEF Recorded
  <2> QED
    BY <2>1, <2>3, <2>4
<1> QED
  BY <1>7, <1>8, <1>9, <1>10, <1>11, <1>12, <1>13 DEF JobsInv

LEMMA PushNewKeeps ==
    ASSUME JobsInv, NEW q \in Requests, ApiStep(q), PushNew(q) PROVE JobsInv'
<1> USE DEF ApiStep, PushNew, Goto, Respond, workerVars, jobVars
<1>1. /\ stored[q] \in Jobs /\ stored[q].id = q /\ Waiting(stored[q])
      /\ ~Has(queue, q) /\ \A w \in Workers : held[w] # NoJob => held[w].id # q
  BY DEF JobsInv, JobsTypeOK, Recorded, Queued, InHand, Holds, Has
<1>2. PICK job \in Jobs : job = stored[q]
  BY <1>1
<1>3. /\ queue' \in Seq(Jobs)
      /\ \A i \in DOMAIN queue' : queue'[i] = stored[q] \/ \E k \in DOMAIN queue : queue'[i] = queue[k]
      /\ \A j : Has(queue', j) => j = q \/ Has(queue, j)
      /\ Distinct(queue')
  <2>1. queue' \in {queue, <<job>> \o queue} /\ ~Has(queue, job.id)
    BY <1>1, <1>2 DEF Push, PushThrows
  <2> QED
    BY <1>1, <1>2, <2>1, Queueing
<1>4. faults' \in 0..MaxFaults /\ (faults > 0 => faults' > 0)
  BY BoundAssumption DEF PushThrows, Fault, NoFault, JobsInv, JobsTypeOK
<1>5. JobsTypeOK'
  <2>1. /\ api \in [Requests -> {"new", "lookup", "claim", "save", "push", "done", "error"}]
        /\ answer \in [Requests -> Requests \cup {NoJob}]
    BY DEF JobsInv, JobsTypeOK
  <2>2. /\ api' \in [Requests -> {"new", "lookup", "claim", "save", "push", "done", "error"}]
        /\ answer' \in [Requests -> Requests \cup {NoJob}]
    BY <2>1
  <2>3. UNCHANGED <<known, beside, keyed, stored, logged, dead, pc, held, stopping, sessions, time>>
    BY DEF asked
  <2> QED
    BY <1>3, <1>4, <2>2, <2>3 DEF JobsInv, JobsTypeOK
<1>6. OneHolder'
  BY <1>1, <1>3 DEF JobsInv, OneHolder, Holds, Queued, Has, Distinct
<1>7. \A i \in DOMAIN queue' : Waiting(queue[i])'
  BY <1>1, <1>3 DEF JobsInv, Waiting
<1>8. \A j \in Requests : Recorded(j)'
  <2>1. ASSUME NEW j \in Requests \ {q} PROVE Recorded(j)'
    BY <1>3 DEF JobsInv, JobsTypeOK, Recorded, Waiting, Queued, InHand, Holds, Has
  <2>2. api'[q] \in {"done", "error"}
    BY DEF JobsInv, JobsTypeOK
  <2>3. Recorded(q)'
    BY <1>1, <2>2 DEF JobsInv, Recorded
  <2> QED
    BY <2>1, <2>3
<1> QED
  BY <1>4, <1>5, <1>6, <1>7, <1>8, HandsKept, GraveKept DEF JobsInv
-----------------------------------------------------------------------------
(* The types of what a worker's step leaves behind.                        *)
LEMMA Moving ==
    ASSUME JobsInv, NEW w \in Workers, NEW job \in Jobs \cup {NoJob},
           NEW step \in {"loop", "reserve", "stopped", "down"} \cup Holding,
           Move(w, step, job), job # NoJob <=> step \in Holding,
           UNCHANGED apiVars, stopping' \in [Workers -> BOOLEAN],
           time' \in 0..MaxTime, faults' \in 0..MaxFaults,
           stored' \in [Requests -> Jobs \cup {NoJob}],
           logged' \in [Requests -> Jobs \cup {NoJob}],
           queue' \in Seq(Jobs), dead' \in Seq(Jobs), sessions' \in [Requests -> Nat]
    PROVE  /\ JobsTypeOK'
           /\ pc'[w] = step /\ held'[w] = job
           /\ \A v \in Workers \ {w} : pc'[v] = pc[v] /\ held'[v] = held[v]
<1> DEFINE Steps == {"loop", "reserve", "stopped", "down"} \cup Holding
<1>1. /\ pc \in [Workers -> Steps]
      /\ held \in [Workers -> Jobs \cup {NoJob}]
      /\ \A v \in Workers : held[v] # NoJob <=> pc[v] \in Holding
  BY DEF JobsInv, JobsTypeOK
<1>2. /\ pc'[w] = step /\ held'[w] = job
      /\ \A v \in Workers \ {w} : pc'[v] = pc[v] /\ held'[v] = held[v]
  BY <1>1 DEF Move
<1>3. /\ pc' \in [Workers -> Steps]
      /\ held' \in [Workers -> Jobs \cup {NoJob}]
  BY <1>1 DEF Move
<1>4. \A v \in Workers : held'[v] # NoJob <=> pc'[v] \in Holding
  BY <1>1, <1>2
<1> HIDE DEF Steps
<1>5. pc' \in [Workers -> {"loop", "reserve", "stopped", "down"} \cup Holding]
  BY <1>3 DEF Steps
<1> QED
  BY <1>2, <1>3, <1>4, <1>5 DEF JobsInv, JobsTypeOK, apiVars, asked

(* A worker that has no job, or lets go of it, and changes nothing else.   *)
LEMMA LettingGo ==
    ASSUME JobsInv, NEW w \in Workers, NEW step \in {"loop", "reserve", "stopped", "down"},
           Move(w, step, NoJob), UNCHANGED <<apiVars, jobVars, queue, dead, sessions>>,
           stopping' \in [Workers -> BOOLEAN], time' \in 0..MaxTime,
           faults' \in 0..MaxFaults, faults > 0 => faults' > 0
    PROVE  JobsInv'
<1>1. step \notin Holding /\ NoJob \in Jobs \cup {NoJob}
  BY DEF Holding
<1>2. /\ JobsTypeOK'
      /\ pc'[w] = step /\ held'[w] = NoJob
      /\ \A v \in Workers \ {w} : pc'[v] = pc[v] /\ held'[v] = held[v]
  BY <1>1, Moving DEF JobsInv, JobsTypeOK, jobVars
<1>3. OneHolder'
  BY <1>2 DEF JobsInv, OneHolder, Holds, Queued
<1>4. \A v \in Workers : Fit(v)'
  <2>1. Fit(w)'
    BY <1>1, <1>2 DEF Fit, Holding
  <2>2. ASSUME NEW v \in Workers \ {w} PROVE Fit(v)'
    BY <1>2 DEF JobsInv, Fit, Waiting, jobVars
  <2> QED
    BY <2>1, <2>2
<1>5. \A j \in Requests : Recorded(j)'
  BY <1>2 DEF JobsInv, Recorded, Waiting, Queued, InHand, Holds, jobVars, apiVars
<1> QED
  BY <1>2, <1>3, <1>4, <1>5, QueueKept, GraveKept DEF JobsInv, jobVars

(* A worker's setJob, and its next step.                                   *)
LEMMA Writing ==
    ASSUME JobsInv, NEW w \in Workers, held[w] # NoJob,
           NEW record \in Jobs, record.id = held[w].id,
           sessions[held[w].id] <= record.attempts,
           SetJob(record) \/ SetJobThrows(record),
           NEW job \in Jobs \cup {NoJob}, job # NoJob => job.id = held[w].id,
           NEW step \in {"loop", "reserve", "stopped", "down"} \cup Holding,
           job # NoJob <=> step \in Holding, Move(w, step, job),
           UNCHANGED <<apiVars, stopping, queue, dead, sessions>>, Advance, Fit(w)'
    PROVE  JobsInv'
<1>1. /\ stored' \in [Requests -> Jobs \cup {NoJob}]
      /\ logged' \in [Requests -> Jobs \cup {NoJob}]
      /\ \A k \in Requests \ {held[w].id} : stored'[k] = stored[k]
      /\ stored'[held[w].id] \in {stored[held[w].id], record}
      /\ faults' \in 0..MaxFaults /\ (faults > 0 => faults' > 0)
  BY Setting
<1>2. /\ stored[held[w].id] # NoJob /\ stored[held[w].id].id = held[w].id
      /\ sessions[held[w].id] <= stored[held[w].id].attempts
  BY OnRecord DEF JobsInv, Recorded, Jobs
<1>3. /\ stored'[held[w].id] # NoJob /\ stored'[held[w].id].id = held[w].id
      /\ sessions'[held[w].id] <= stored'[held[w].id].attempts
  BY <1>1, <1>2, NoJobAssumption
<1>4. time' \in 0..MaxTime
  BY BoundAssumption DEF Advance, JobsInv, JobsTypeOK
<1>5. JobsTypeOK'
  BY <1>1, <1>4, Moving DEF JobsInv, JobsTypeOK
<1>6. UNCHANGED <<apiVars, queue, dead>> /\ sessions' = sessions
  OBVIOUS
<1>7. /\ OneHolder'
      /\ \A i \in DOMAIN queue' : Waiting(queue[i])'
      /\ \A v \in Workers : Fit(v)'
      /\ \A j \in Requests : Recorded(j)'
      /\ \A i \in DOMAIN dead' : Buried(i)'
  BY <1>1, <1>3, <1>6, HandStep
<1> QED
  BY <1>5, <1>7 DEF JobsInv

LEMMA Moved ==
    ASSUME JobsInv, NEW w \in Workers, NEW step, NEW job, Move(w, step, job)
    PROVE  pc'[w] = step /\ held'[w] = job
BY DEF JobsInv, JobsTypeOK, Move

(* What a worker knows of the job in hand.                                 *)
LEMMA HandRecord ==
    ASSUME JobsInv, NEW w \in Workers, pc[w] \in Holding
    PROVE  /\ held[w] # NoJob /\ held[w] \in Jobs /\ held[w].id \in Requests
           /\ held[w].attempts \in 0..MaxAttempts /\ MaxAttempts \in Nat /\ time \in 0..MaxTime
           /\ stored[held[w].id] # NoJob
           /\ sessions[held[w].id] \in Nat
           /\ sessions[held[w].id] <= stored[held[w].id].attempts
           /\ Fit(w)
<1>1. held[w] # NoJob /\ time \in 0..MaxTime /\ Fit(w)
  BY DEF JobsInv, JobsTypeOK
<1>2. held[w] \in Jobs /\ stored[held[w].id] # NoJob
  BY <1>1, OnRecord
<1>3. held[w].id \in Requests /\ held[w].attempts \in 0..MaxAttempts
  BY <1>2 DEF Jobs
<1> QED
  BY <1>1, <1>2, <1>3, AttemptsAssumption DEF JobsInv, JobsTypeOK, Recorded

LEMMA Stamping ==
    ASSUME NEW job \in Jobs, NEW status \in Statuses, time \in 0..MaxTime
    PROVE  /\ Stamp(job, status) \in Jobs /\ Stamp(job, status) # NoJob
           /\ Stamp(job, status).id = job.id
           /\ Stamp(job, status).attempts = job.attempts
           /\ Stamp(job, status).status = status
BY NoJobAssumption DEF Stamp, Jobs

LEMMA StartAttemptKeeps ==
    ASSUME JobsInv, NEW w \in Workers, Advance, UNCHANGED <<apiVars, stopping>>,
           StartAttempt(w)
    PROVE  JobsInv'
<1>1. pc[w] = "reserved" /\ UNCHANGED <<apiVars, stopping, queue, dead, sessions>>
  BY DEF StartAttempt
<1>2. /\ held[w] # NoJob /\ held[w] \in Jobs /\ held[w].id \in Requests
      /\ time \in 0..MaxTime /\ sessions[held[w].id] \in Nat
      /\ sessions[held[w].id] <= held[w].attempts
      /\ held[w].attempts \in Nat /\ held[w].attempts < MaxAttempts /\ MaxAttempts \in Nat
  BY <1>1, HandRecord DEF Fit, Waiting, Holding
<1>3. PICK record : record = Running(w)
  OBVIOUS
<1>4. /\ record \in Jobs /\ record.id = held[w].id /\ record.status = "running"
      /\ record.attempts = held[w].attempts + 1
  <2>1. PICK job \in Jobs : job = Stamp(held[w], "running")
    BY <1>2, Stamping DEF Statuses
  <2>2. job.id = held[w].id /\ job.status = "running" /\ job.attempts = held[w].attempts
    BY <1>2, <2>1, Stamping DEF Statuses
  <2>3. record = [job EXCEPT !.attempts = job.attempts + 1]
    BY <1>3, <2>1 DEF Running
  <2>4. job.attempts + 1 \in 0..MaxAttempts
    BY <1>2, <2>2
  <2> QED
    BY <2>2, <2>3, <2>4 DEF Jobs
<1>5. CASE SetJob(record) /\ Move(w, "launching", record)
  <2>1. pc'[w] = "launching" /\ held'[w] = record /\ stored'[held[w].id] = record
    BY <1>4, <1>5, Moved, Setting
  <2>2. Fit(w)'
    BY <1>1, <1>2, <1>4, <2>1 DEF Fit
  <2>3. record # NoJob /\ "launching" \in Holding
    BY <1>4, NoJobAssumption DEF Holding
  <2> QED
    BY <1>1, <1>2, <1>4, <1>5, <2>2, <2>3, Writing
<1>6. CASE SetJobThrows(record) /\ Finish(w)
  <2>1. Fit(w)' /\ Move(w, "loop", NoJob) /\ "loop" \notin Holding
    BY <1>6, Moved DEF Fit, Finish, Holding
  <2> QED
    BY <1>1, <1>2, <1>4, <1>6, <2>1, Writing
<1> QED
  BY <1>3, <1>5, <1>6 DEF StartAttempt

LEMMA LaunchKeeps ==
    ASSUME JobsInv, NEW w \in Workers, Advance, UNCHANGED <<apiVars, stopping>>, Launch(w)
    PROVE  JobsInv'
<1>1. pc[w] = "launching" /\ UNCHANGED <<apiVars, stopping, jobVars, queue, dead, faults>>
  BY DEF Launch
<1>2. /\ held[w] # NoJob /\ held[w] \in Jobs /\ held[w].id \in Requests
      /\ held[w].status = "running" /\ stored[held[w].id] = held[w]
      /\ sessions[held[w].id] \in Nat /\ sessions[held[w].id] < held[w].attempts
      /\ held[w].attempts \in Nat
  BY <1>1, HandRecord DEF Fit, Holding
<1>3. PICK step \in {"recording", "failing"} : Move(w, step, held[w])
  BY DEF Launch
<1>4. pc'[w] = step /\ held'[w] = held[w] /\ step \in Holding
  BY <1>3, Moved DEF Holding
<1>5. /\ sessions' \in {sessions, [sessions EXCEPT ![held[w].id] = @ + 1]}
      /\ sessions \in [Requests -> Nat]
  BY DEF Launch, JobsInv, JobsTypeOK
<1>6. /\ sessions' \in [Requests -> Nat]
      /\ \A k \in Requests \ {held[w].id} : sessions'[k] = sessions[k]
      /\ sessions'[held[w].id] <= held[w].attempts
  BY <1>2, <1>5
<1>7. Fit(w)'
  BY <1>1, <1>2, <1>3, <1>4, NoJobAssumption DEF Fit, jobVars
<1>8. JobsTypeOK'
  <2>1. time' \in 0..MaxTime
    BY BoundAssumption DEF Advance, JobsInv, JobsTypeOK
  <2> QED
    BY <1>1, <1>2, <1>3, <1>4, <1>6, <2>1, Moving DEF JobsInv, JobsTypeOK, jobVars
<1>9. /\ OneHolder'
      /\ \A i \in DOMAIN queue' : Waiting(queue[i])'
      /\ \A v \in Workers : Fit(v)'
      /\ \A j \in Requests : Recorded(j)'
      /\ \A i \in DOMAIN dead' : Buried(i)'
  <2>1. /\ stored' = stored /\ stored \in [Requests -> Jobs \cup {NoJob}]
        /\ stored'[held[w].id] # NoJob /\ stored'[held[w].id].id = held[w].id
        /\ sessions'[held[w].id] <= stored'[held[w].id].attempts
    BY <1>1, <1>2, <1>6 DEF jobVars, JobsInv, JobsTypeOK
  <2>2. \A k \in Requests \ {held[w].id} : stored'[k] = stored[k] /\ sessions'[k] = sessions[k]
    BY <1>6, <2>1
  <2>3. UNCHANGED <<apiVars, queue, dead>> /\ (faults > 0 => faults' > 0)
    BY <1>1
  <2> QED
    BY <1>2, <1>3, <1>7, <2>1, <2>2, <2>3, HandStep
<1> QED
  BY <1>8, <1>9 DEF JobsInv

LEMMA CompleteKeeps ==
    ASSUME JobsInv, NEW w \in Workers, Advance, UNCHANGED <<apiVars, stopping>>, Complete(w)
    PROVE  JobsInv'
<1>1. pc[w] = "recording" /\ UNCHANGED <<apiVars, stopping, queue, dead, sessions>>
  BY DEF Complete
<1>2. /\ held[w] # NoJob /\ held[w] \in Jobs /\ held[w].id \in Requests
      /\ time \in 0..MaxTime /\ held[w].status = "running" /\ stored[held[w].id] = held[w]
      /\ sessions[held[w].id] <= held[w].attempts
  BY <1>1, HandRecord DEF Fit, Holding
<1>3. PICK record \in Jobs : record = Stamp(held[w], "completed")
  BY <1>2, Stamping DEF Statuses
<1>4. /\ record.id = held[w].id /\ record.status = "completed"
      /\ record.attempts = held[w].attempts /\ record # NoJob
  BY <1>2, <1>3, Stamping DEF Statuses
<1>5. CASE SetJob(record) /\ Finish(w)
  <2>1. Fit(w)' /\ Move(w, "loop", NoJob) /\ "loop" \notin Holding
    BY <1>5, Moved DEF Fit, Finish, Holding
  <2> QED
    BY <1>1, <1>2, <1>4, <1>5, <2>1, Writing
<1>6. CASE SetJobThrows(record) /\ Move(w, "failing", held[w])
  <2>1. /\ pc'[w] = "failing" /\ held'[w] = held[w] /\ faults' > 0
        /\ stored'[held[w].id] \in {held[w], record}
    BY <1>2, <1>4, <1>6, Moved, Setting
  <2>2. Fit(w)'
    BY <1>2, <1>4, <2>1 DEF Fit
  <2>3. "failing" \in Holding
    BY DEF Holding
  <2> QED
    BY <1>1, <1>2, <1>4, <1>6, <2>2, <2>3, Writing
<1> QED
  BY <1>3, <1>5, <1>6 DEF Complete

LEMMA FailKeeps ==
    ASSUME JobsInv, NEW w \in Workers, Advance, UNCHANGED <<apiVars, stopping>>, Fail(w)
    PROVE  JobsInv'
<1>1. pc[w] = "failing" /\ UNCHANGED <<apiVars, stopping, queue, dead, sessions>>
  BY DEF Fail
<1>2. /\ held[w] # NoJob /\ held[w] \in Jobs /\ held[w].id \in Requests
      /\ time \in 0..MaxTime /\ stored[held[w].id].attempts = held[w].attempts
      /\ sessions[held[w].id] <= held[w].attempts
      /\ held[w].attempts \in 0..MaxAttempts /\ MaxAttempts \in Nat
  BY <1>1, HandRecord DEF Fit, Holding
<1>3. ASSUME NEW status \in {"failed", "dead_lettered"}, NEW record \in Jobs,
             record = Stamp(held[w], status), SetJobThrows(record), Finish(w)
      PROVE  JobsInv'
  <2>1. record.id = held[w].id /\ record.attempts = held[w].attempts
    BY <1>2, <1>3, Stamping DEF Statuses
  <2>2. Fit(w)' /\ Move(w, "loop", NoJob) /\ "loop" \notin Holding
    BY <1>3, Moved DEF Fit, Finish, Holding
  <2> QED
    BY <1>1, <1>2, <1>3, <2>1, <2>2, Writing
<1>4. CASE MayRetry(held[w])
  <2>1. PICK record \in Jobs, job \in Jobs :
           record = Stamp(held[w], "failed") /\ job = Stamp(held[w], "queued")
    BY <1>2, Stamping DEF Statuses
  <2>2. /\ record.id = held[w].id /\ record.attempts = held[w].attempts
        /\ record.status = "failed" /\ record # NoJob
        /\ job.id = held[w].id /\ job.attempts = held[w].attempts
        /\ job.status = "queued" /\ job # NoJob
    BY <1>2, <2>1, Stamping DEF Statuses
  <2>3. CASE SetJob(record) /\ Move(w, "backoff", job)
    <3>1. pc'[w] = "backoff" /\ held'[w] = job /\ stored'[held[w].id] = record
      BY <2>2, <2>3, Moved, Setting
    <3>2. Fit(w)' /\ "backoff" \in Holding
      BY <1>2, <1>4, <2>2, <3>1 DEF Fit, MayRetry, Holding
    <3> QED
      BY <1>1, <1>2, <2>2, <2>3, <3>2, Writing
  <2>4. CASE SetJobThrows(record) /\ Finish(w)
    BY <1>3, <2>1, <2>4
  <2> QED
    BY <1>4, <2>1, <2>3, <2>4 DEF Fail
<1>5. CASE ~MayRetry(held[w])
  <2>1. PICK record \in Jobs : record = Stamp(held[w], "dead_lettered")
    BY <1>2, Stamping DEF Statuses
  <2>2. /\ record.id = held[w].id /\ record.attempts = MaxAttempts
        /\ record.attempts = held[w].attempts
        /\ record.status = "dead_lettered" /\ record # NoJob
    BY <1>2, <1>5, <2>1, Stamping DEF Statuses, MayRetry
  <2>3. CASE SetJob(record) /\ Move(w, "bury", record)
    <3>1. pc'[w] = "bury" /\ held'[w] = record /\ stored'[held[w].id] = record
      BY <2>2, <2>3, Moved, Setting
    <3>2. dead' = dead /\ \A i \in DOMAIN dead : dead[i].id # record.id
      BY <1>1, <1>2, <2>2, HandFacts
    <3>3. Fit(w)' /\ "bury" \in Holding
      BY <2>2, <3>1, <3>2 DEF Fit, Holding
    <3> QED
      BY <1>1, <1>2, <2>2, <2>3, <3>3, Writing
  <2>4. CASE SetJobThrows(record) /\ Finish(w)
    BY <1>3, <2>1, <2>4
  <2> QED
    BY <1>5, <2>1, <2>3, <2>4 DEF Fail
<1> QED
  BY <1>4, <1>5

LEMMA SaveRetryKeeps ==
    ASSUME JobsInv, NEW w \in Workers, Advance, UNCHANGED <<apiVars, stopping>>, SaveRetry(w)
    PROVE  JobsInv'
<1>1. pc[w] = "backoff" /\ UNCHANGED <<apiVars, stopping, queue, dead, sessions>>
  BY DEF SaveRetry
<1>2. /\ held[w] # NoJob /\ held[w] \in Jobs /\ held[w].id \in Requests
      /\ held[w].status = "queued" /\ held[w].attempts < MaxAttempts
      /\ sessions[held[w].id] <= held[w].attempts
  BY <1>1, HandRecord DEF Fit, Holding
<1>3. CASE SetJob(held[w]) /\ Move(w, "requeue", held[w])
  <2>1. pc'[w] = "requeue" /\ held'[w] = held[w] /\ stored'[held[w].id] = held[w]
    BY <1>2, <1>3, Moved, Setting
  <2>2. Fit(w)' /\ "requeue" \in Holding
    BY <1>2, <2>1 DEF Fit, Waiting, Holding
  <2> QED
    BY <1>1, <1>2, <1>3, <2>2, Writing
<1>4. CASE SetJobThrows(held[w]) /\ Finish(w)
  <2>1. Fit(w)' /\ Move(w, "loop", NoJob) /\ "loop" \notin Holding
    BY <1>4, Moved DEF Fit, Finish, Holding
  <2> QED
    BY <1>1, <1>2, <1>4, <2>1, Writing
<1> QED
  BY <1>3, <1>4 DEF SaveRetry

LEMMA RequeueKeeps ==
    ASSUME JobsInv, NEW w \in Workers, Advance, UNCHANGED <<apiVars, stopping>>, Requeue(w)
    PROVE  JobsInv'
<1>1. /\ pc[w] = "requeue" /\ Move(w, "loop", NoJob)
      /\ UNCHANGED <<apiVars, stopping, jobVars, dead, sessions>>
  BY DEF Requeue, Finish
<1>2. PICK job \in Jobs : job = held[w]
  BY <1>1, HandRecord DEF Holding
<1>3. /\ job # NoJob /\ Waiting(job) /\ job.id \in Requests
      /\ \A v \in Workers \ {w} : held[v] # NoJob => held[v].id # job.id
      /\ \A i \in DOMAIN queue : queue[i].id # job.id
      /\ api[job.id] \in {"done", "error"}
  BY <1>1, <1>2, HandRecord, HandFacts DEF Fit, Holding
<1>4. queue' \in {queue, <<job>> \o queue} /\ ~Has(queue, job.id)
  BY <1>2, <1>3 DEF Requeue, Push, PushThrows, Has
<1>5. /\ queue' \in Seq(Jobs)
      /\ \A i \in DOMAIN queue' : queue'[i] = job \/ \E k \in DOMAIN queue : queue'[i] = queue[k]
      /\ \A j : Has(queue', j) => j = job.id \/ Has(queue, j)
      /\ Distinct(queue')
  BY <1>4, Queueing
<1>6. faults' \in 0..MaxFaults /\ (faults > 0 => faults' > 0) /\ time' \in 0..MaxTime
  BY BoundAssumption DEF Requeue, PushThrows, Fault, NoFault, Advance, JobsInv, JobsTypeOK
<1>7. /\ JobsTypeOK'
      /\ pc'[w] = "loop" /\ held'[w] = NoJob
      /\ \A v \in Workers \ {w} : pc'[v] = pc[v] /\ held'[v] = held[v]
  BY <1>1, <1>5, <1>6, Moving DEF JobsInv, JobsTypeOK, jobVars, Holding
<1>8. OneHolder'
  BY <1>3, <1>5, <1>7 DEF JobsInv, OneHolder, Holds, Queued, Has, Distinct
<1>9. \A i \in DOMAIN queue' : Waiting(queue[i])'
  BY <1>1, <1>3, <1>5 DEF JobsInv, Waiting, jobVars
<1>10. \A v \in Workers : Fit(v)'
  <2>1. Fit(w)'
    BY <1>7 DEF Fit
  <2>2. ASSUME NEW v \in Workers \ {w} PROVE Fit(v)'
    BY <1>1, <1>6, <1>7 DEF JobsInv, Fit, Waiting, jobVars
  <2> QED
    BY <2>1, <2>2
<1>11. \A j \in Requests : Recorded(j)'
  BY <1>1, <1>3, <1>5, <1>7
     DEF JobsInv, Recorded, Waiting, Queued, InHand, Holds, Has, jobVars, apiVars
<1> QED
  BY <1>1, <1>7, <1>8, <1>9, <1>10, <1>11, GraveKept DEF JobsInv, jobVars

LEMMA BuryKeeps ==
    ASSUME JobsInv, NEW w \in Workers, Advance, UNCHANGED <<apiVars, stopping>>, Bury(w)
    PROVE  JobsInv'
<1>1. /\ pc[w] = "bury" /\ Move(w, "loop", NoJob)
      /\ UNCHANGED <<apiVars, stopping, jobVars, queue, sessions>>
  BY DEF Bury, Finish
<1>2. PICK job \in Jobs : job = held[w]
  BY <1>1, HandRecord DEF Holding
<1>3. /\ job # NoJob /\ stored[job.id] = job /\ job.id \in Requests
      /\ job.status = "dead_lettered" /\ job.attempts = MaxAttempts
      /\ \A v \in Workers \ {w} : held[v] # NoJob => held[v].id # job.id
      /\ \A i \in DOMAIN dead : dead[i].id # job.id
  BY <1>1, <1>2, HandRecord, HandFacts DEF Fit, Holding
<1>4. /\ dead' \in Seq(Jobs)
      /\ \A i \in DOMAIN dead' : dead'[i] = job \/ \E k \in DOMAIN dead : dead'[i] = dead[k]
      /\ Distinct(dead')
  <2>1. dead \in Seq(Jobs) /\ Distinct(dead) /\ ~Has(dead, job.id)
    BY <1>3 DEF JobsInv, JobsTypeOK, Buried, Distinct, Has
  <2>2. CASE dead' = dead
    BY <2>1, <2>2
  <2>3. CASE dead' = <<job>> \o dead
    <3>1. PICK s, t : s = dead /\ t = dead'
      OBVIOUS
    <3>2. s \in Seq(Jobs) /\ t = <<job>> \o s /\ Distinct(s) /\ ~Has(s, job.id)
      BY <2>1, <2>3, <3>1
    <3>3. t \in Seq(Jobs) /\ Distinct(t)
      BY <3>2, Pushing
    <3>4. \A i \in DOMAIN t : t[i] = job \/ \E k \in DOMAIN s : t[i] = s[k]
      BY <3>2, Pushing
    <3> QED
      BY <3>1, <3>3, <3>4
  <2> QED
    BY <1>2, <2>2, <2>3 DEF Bury
<1>5. faults' \in 0..MaxFaults /\ (faults > 0 => faults' > 0) /\ time' \in 0..MaxTime
  BY BoundAssumption DEF Bury, Fault, NoFault, Advance, JobsInv, JobsTypeOK
<1>6. /\ JobsTypeOK'
      /\ pc'[w] = "loop" /\ held'[w] = NoJob
      /\ \A v \in Workers \ {w} : pc'[v] = pc[v] /\ held'[v] = held[v]
  BY <1>1, <1>4, <1>5, Moving DEF JobsInv, JobsTypeOK, jobVars, Holding
<1>7. OneHolder'
  BY <1>1, <1>6 DEF JobsInv, OneHolder, Holds, Queued
<1>8. \A v \in Workers : Fit(v)'
  <2>1. Fit(w)'
    BY <1>6 DEF Fit
  <2>2. ASSUME NEW v \in Workers \ {w} PROVE Fit(v)'
    <3>1. pc[v] = "bury" => held[v] # NoJob
      BY DEF JobsInv, JobsTypeOK, Holding
    <3> QED
      BY <1>1, <1>3, <1>4, <1>5, <1>6, <3>1 DEF JobsInv, Fit, Waiting, jobVars
  <2> QED
    BY <2>1, <2>2
<1>9. \A j \in Requests : Recorded(j)'
  BY <1>1, <1>6 DEF JobsInv, Recorded, Waiting, Queued, InHand, Holds, jobVars, apiVars
<1>10. \A i \in DOMAIN dead' : Buried(i)'
  BY <1>1, <1>3, <1>4 DEF JobsInv, Buried, Distinct, jobVars
<1> QED
  BY <1>1, <1>6, <1>7, <1>8, <1>9, <1>10, QueueKept DEF JobsInv, jobVars

LEMMA ReserveKeeps ==
    ASSUME JobsInv, NEW w \in Workers, Advance, UNCHANGED <<apiVars, stopping>>, Reserve(w)
    PROVE  JobsInv'
<1>1. /\ pc[w] = "reserve" /\ held[w] = NoJob
      /\ UNCHANGED <<apiVars, stopping, jobVars, dead, sessions>>
  BY DEF Reserve, JobsInv, JobsTypeOK, Holding
<1>2. faults' \in 0..MaxFaults /\ (faults > 0 => faults' > 0) /\ time' \in 0..MaxTime
  BY BoundAssumption DEF Reserve, Fault, NoFault, Advance, JobsInv, JobsTypeOK
<1>3. CASE queue' = queue /\ Finish(w)
  BY <1>1, <1>2, <1>3, LettingGo DEF Finish, JobsInv, JobsTypeOK
<1>4. ASSUME queue # <<>>, queue' = Popped,
             NEW step \in {"reserved", "down"}, NEW job \in Jobs \cup {NoJob}, Move(w, step, job),
             job = (IF step = "reserved" THEN queue[Len(queue)] ELSE NoJob)
      PROVE  JobsInv'
  <2>1. PICK s, t : s = queue /\ t = queue' /\ s \in Seq(Jobs) /\ s # <<>> /\ Distinct(s)
    BY <1>4 DEF JobsInv, JobsTypeOK, OneHolder, Distinct
  <2>2. t = SubSeq(s, 1, Len(s) - 1)
    BY <1>4, <2>1 DEF Popped
  <2>3. /\ t \in Seq(Jobs) /\ Distinct(t)
        /\ s[Len(s)] \in Jobs /\ Len(s) \in DOMAIN s /\ ~Has(t, s[Len(s)].id)
    BY <2>1, <2>2, Popping
  <2>4. \A i \in DOMAIN t : i \in DOMAIN s /\ t[i] = s[i]
    BY <2>1, <2>2, Popping
  <2>5. /\ queue' \in Seq(Jobs) /\ Distinct(queue')
        /\ \A i \in DOMAIN queue' : i \in DOMAIN queue /\ queue'[i] = queue[i]
    BY <2>1, <2>3, <2>4
  <2>6. job # NoJob => /\ job \in Jobs /\ Queued(job.id) /\ ~Has(queue', job.id)
                       /\ Waiting(job)
    BY <1>4, <2>1, <2>3, NoJobAssumption DEF JobsInv, Queued
  <2>7. /\ job # NoJob <=> step \in Holding
        /\ step \in {"loop", "reserve", "stopped", "down"} \cup Holding
    BY <1>4, <2>1, <2>3, NoJobAssumption DEF Holding
  <2>8. /\ JobsTypeOK'
        /\ pc'[w] = step /\ held'[w] = job
        /\ \A v \in Workers \ {w} : pc'[v] = pc[v] /\ held'[v] = held[v]
    <3>1. /\ UNCHANGED apiVars /\ stopping' \in [Workers -> BOOLEAN]
          /\ stored' \in [Requests -> Jobs \cup {NoJob}]
          /\ logged' \in [Requests -> Jobs \cup {NoJob}]
          /\ dead' \in Seq(Jobs) /\ sessions' \in [Requests -> Nat]
      BY <1>1 DEF JobsInv, JobsTypeOK, jobVars
    <3> QED
      BY <1>2, <1>4, <2>5, <2>7, <3>1, Moving
  <2>9. OneHolder'
    BY <2>5, <2>6, <2>8 DEF JobsInv, OneHolder, Holds, Queued, Has, Distinct
  <2>10. \A i \in DOMAIN queue' : Waiting(queue[i])'
    BY <1>1, <2>5 DEF JobsInv, Waiting, jobVars
  <2>11. \A v \in Workers : Fit(v)'
    <3>1. Fit(w)'
      BY <1>1, <1>4, <2>6, <2>7, <2>8 DEF Fit, Waiting, Holding, jobVars
    <3>2. ASSUME NEW v \in Workers \ {w} PROVE Fit(v)'
      BY <1>1, <1>2, <2>8 DEF JobsInv, Fit, Waiting, jobVars
    <3> QED
      BY <3>1, <3>2
  <2>12. \A j \in Requests : Recorded(j)'
    BY <1>1, <2>5, <2>6, <2>8
       DEF JobsInv, Recorded, Waiting, Queued, InHand, Holds, jobVars, apiVars
  <2> QED
    BY <1>1, <2>8, <2>9, <2>10, <2>11, <2>12, GraveKept DEF JobsInv, jobVars
<1>5. queue # <<>> => queue[Len(queue)] \in Jobs
  BY DEF JobsInv, JobsTypeOK
<1> QED
  BY <1>3, <1>4, <1>5 DEF Reserve

LEMMA LoopKeeps ==
    ASSUME JobsInv, NEW w \in Workers, Advance, UNCHANGED <<apiVars, stopping>>, Loop(w)
    PROVE  JobsInv'
<1>1. PICK step \in {"stopped", "reserve"} : Move(w, step, NoJob)
  BY DEF Loop
<1>2. time' \in 0..MaxTime
  BY BoundAssumption DEF Advance, JobsInv, JobsTypeOK
<1> QED
  BY <1>1, <1>2, LettingGo DEF Loop, JobsInv, JobsTypeOK
-----------------------------------------------------------------------------
(* Whatever steps the requests and the workers take, and whatever throws   *)
(* or dies between them, every job is on record, in one place at a time,   *)
(* and fits the step of whoever holds it.                                  *)
THEOREM JobsInvariant == JobsSpec => []JobsInv
<1>1. JobsInit => JobsInv
  BY InitHolds
<1>2. JobsInv /\ [JobsNext]_jobQueueVars => JobsInv'
  <2> SUFFICES ASSUME JobsInv, [JobsNext]_jobQueueVars PROVE JobsInv'
    OBVIOUS
  <2>1. ASSUME NEW q \in Requests, ApiStep(q) PROVE JobsInv'
    <3>1. GetKey(q) \/ GetExisting(q) \/ SetKey(q) \/ SaveJob(q) \/ PushNew(q)
      BY <2>1 DEF ApiStep
    <3> QED
      BY <2>1, <3>1, GetKeyKeeps, GetExistingKeeps, SetKeyKeeps, SaveJobKeeps, PushNewKeeps
  <2>2. ASSUME NEW w \in Workers, WorkerStep(w) PROVE JobsInv'
    <3>1. Advance /\ UNCHANGED <<apiVars, stopping>>
      BY <2>2 DEF WorkerStep
    <3>2. CASE Loop(w) \/ Reserve(w) \/ StartAttempt(w) \/ Launch(w)
      BY <3>1, <3>2, LoopKeeps, ReserveKeeps, StartAttemptKeeps, LaunchKeeps
    <3>3. CASE Complete(w) \/ Fail(w) \/ SaveRetry(w)
      BY <3>1, <3>3, CompleteKeeps, FailKeeps, SaveRetryKeeps
    <3>4. CASE Requeue(w) \/ Bury(w)
      BY <3>1, <3>4, RequeueKeeps, BuryKeeps
    <3> QED
      BY <2>2, <3>2, <3>3, <3>4 DEF WorkerStep
  <2>3. ASSUME NEW w \in Workers, Stop(w) PROVE JobsInv'
    <3>1. UNCHANGED <<apiVars, jobVars, queue, dead, pc, held, sessions, time, faults>>
      BY <2>3 DEF Stop
    <3>2. JobsTypeOK'
      BY <2>3, <3>1 DEF Stop, JobsInv, JobsTypeOK, apiVars, asked, jobVars
    <3>3. OneHolder' /\ \A j \in Requests : Recorded(j)'
      BY <3>1 DEF JobsInv, OneHolder, Holds, Queued, Recorded, Waiting, InHand, apiVars, jobVars
    <3> QED
      BY <3>1, <3>2, <3>3, HandsKept, QueueKept, GraveKept DEF JobsInv, jobVars
  <2>4. ASSUME NEW w \in Workers, Crash(w) PROVE JobsInv'
    <3>1. faults' \in 0..MaxFaults /\ (faults > 0 => faults' > 0)
      BY <2>4, BoundAssumption DEF Crash, Fault, JobsInv, JobsTypeOK
    <3> QED
      BY <2>4, <3>1, LettingGo DEF Crash, JobsInv, JobsTypeOK
  <2>5. ASSUME NEW w \in Workers, Restart(w) PROVE JobsInv'
    BY <2>5, LettingGo DEF Restart, Finish, JobsInv, JobsTypeOK
  <2>6. CASE UNCHANGED jobQueueVars
    <3>1. /\ UNCHANGED <<api, answer, known, beside, keyed, stored, logged, queue, dead, pc, held, stopping>>
          /\ UNCHANGED <<sessions, time, faults>>
      BY <2>6 DEF jobQueueVars, apiVars, asked, jobVars, workerVars
    <3>2. JobsTypeOK'
      BY <3>1 DEF JobsInv, JobsTypeOK
    <3>3. OneHolder' /\ \A j \in Requests : Recorded(j)'
      BY <3>1 DEF JobsInv, OneHolder, Holds, Queued, Recorded, Waiting, InHand
    <3> QED
      BY <3>1, <3>2, <3>3, HandsKept, QueueKept, GraveKept DEF JobsInv
  <2> QED
    BY <2>1, <2>2, <2>3, <2>4, <2>5, <2>6 DEF JobsNext
<1> QED
  BY <1>1, <1>2, PTL DEF JobsSpec

(* The state of the queue, its records and its workers keep their types.   *)
THEOREM JobsTypes == JobsSpec => []JobsTypeOK
<1>1. JobsInv => JobsTypeOK
  BY DEF JobsInv
<1> QED
  BY <1>1, JobsInvariant, PTL

(* A job is queued once or in one worker's hands, never both: LPUSH and    *)
(* BRPOP pass it on, and a push that throws is never tried again.          *)
THEOREM JobHasOneHolder == JobsSpec => []OneHolder
<1>1. JobsInv => OneHolder
  BY DEF JobsInv
<1> QED
  BY <1>1, JobsInvariant, PTL

(* A job starts at most START_MARKET_MAX_ATTEMPTS sessions, and is buried  *)
(* once, with its attempts used up and nothing of it left to run.          *)
THEOREM JobLaunchesBounded == JobsSpec => []LaunchesBounded
<1>1. JobsInv => LaunchesBounded
  <2> SUFFICES ASSUME JobsInv PROVE LaunchesBounded
    OBVIOUS
  <2>1. ASSUME NEW j \in Requests PROVE sessions[j] <= MaxAttempts
    <3>1. /\ sessions[j] \in Nat /\ MaxAttempts \in Nat /\ stored[j] \in Jobs \cup {NoJob}
          /\ Recorded(j)
      BY AttemptsAssumption DEF JobsInv, JobsTypeOK
    <3>2. CASE stored[j] = NoJob
      BY <3>1, <3>2 DEF Recorded
    <3>3. CASE stored[j] \in Jobs
      <4>1. stored[j].attempts \in 0..MaxAttempts
        BY <3>3 DEF Jobs
      <4> QED
        BY <3>1, <3>3, <4>1, NoJobAssumption DEF Recorded
    <3> QED
      BY <3>1, <3>2, <3>3
  <2>2. ASSUME NEW i \in DOMAIN dead
        PROVE  /\ dead[i].attempts = MaxAttempts
               /\ \A k \in DOMAIN dead : dead[k].id = dead[i].id => k = i
    BY DEF JobsInv, Buried
  <2>3. ASSUME NEW i \in DOMAIN dead, Queued(dead[i].id) PROVE FALSE
    <3>1. PICK k \in DOMAIN queue : queue[k].id = dead[i].id
      BY <2>3 DEF Queued
    <3> QED
      BY <3>1 DEF JobsInv, Waiting, Buried
  <2>4. ASSUME NEW i \in DOMAIN dead, InHand(dead[i].id) PROVE FALSE
    <3>1. PICK w \in Workers : held[w] # NoJob /\ held[w].id = dead[i].id
      BY <2>4 DEF InHand, Holds
    <3> QED
      BY <3>1, HandFacts
  <2> QED
    BY <2>1, <2>2, <2>3, <2>4 DEF LaunchesBounded
<1> QED
  BY <1>1, JobsInvariant, PTL
-----------------------------------------------------------------------------
(* Requests with a key, however many at a time.                            *)

(* What a key names has been claimed, and is on record once it is answered.*)
Names(k) ==
    LET j == keyed[k]
    IN j # NoJob =>
          /\ j \in Requests /\ Key[j] = k
          /\ api[j] \in {"save", "push", "done", "error"}
          /\ api[j] = "done" => answer[j] = j /\ stored[j] # NoJob

(* A request that has gone past the look-up has found or claimed its key.  *)
Claimed(q) ==
    /\ Key[q] # NoKey /\ api[q] \in {"lookup", "save", "push", "done"} => keyed[Key[q]] # NoJob
    /\ api[q] = "claim" => Key[q] # NoKey
    /\ answer[q] # NoJob <=> api[q] = "done"
    /\ api[q] = "new" => known[q] = {}

(* From when q began with every earlier request answered, its key names one*)
(* of their jobs, and nobody claims it again.                              *)
Stands(q) ==
    known[q] # {} =>
       /\ Key[q] # NoKey
       /\ keyed[Key[q]] \in known[q] /\ keyed[Key[q]] # NoJob /\ stored[keyed[Key[q]]] # NoJob
       /\ \A p \in Requests : Key[p] = Key[q] => api[p] \in {"new", "lookup", "done"}
       /\ answer[q] # NoJob => answer[q] \in known[q]

KeysInv ==
    /\ \A k \in Keys : Names(k)
    /\ \A q \in Requests : Claimed(q) /\ Stands(q)

(* No step of a worker saves a job for the first time, or takes it away.   *)
LEMMA WorkersSaveAgain ==
    ASSUME JobsInv, NEW w \in Workers, WorkerStep(w)
    PROVE  /\ UNCHANGED <<api, answer, asked, keyed>>
           /\ \A j \in Requests : stored'[j] = NoJob <=> stored[j] = NoJob
<1>1. UNCHANGED <<api, answer, asked, keyed>>
  BY DEF WorkerStep, apiVars
<1>2. CASE stored' = stored
  BY <1>1, <1>2
<1>3. CASE StartAttempt(w) \/ Complete(w) \/ Fail(w) \/ SaveRetry(w)
  <2>1. held[w] \in Jobs /\ held[w] # NoJob /\ pc[w] \in Holding
    BY <1>3, HandRecord DEF StartAttempt, Complete, Fail, SaveRetry, Holding, JobsInv, JobsTypeOK
  <2>2. stored[held[w].id] # NoJob /\ held[w].id \in Requests
    BY <2>1, OnRecord DEF Jobs
  <2>3. PICK record : /\ record.id = held[w].id /\ record # NoJob
                      /\ SetJob(record) \/ SetJobThrows(record)
    <3>1. \A s \in Statuses : Stamp(held[w], s).id = held[w].id /\ Stamp(held[w], s) # NoJob
      BY <2>1, HandRecord, Stamping
    <3>2. CASE StartAttempt(w)
      <4>1. PICK job \in Jobs : job = Stamp(held[w], "running")
        BY <2>1, HandRecord, Stamping DEF Statuses
      <4>2. held[w].attempts \in 0..MaxAttempts /\ held[w].attempts < MaxAttempts
        BY <2>1, <3>2, HandRecord DEF StartAttempt, Fit, Waiting
      <4>3. job.id = held[w].id /\ job.attempts = held[w].attempts
        BY <2>1, <4>1, HandRecord, Stamping DEF Statuses
      <4>4. Running(w) = [job EXCEPT !.attempts = job.attempts + 1]
        BY <4>1 DEF Running
      <4>5. Running(w) \in Jobs /\ Running(w).id = held[w].id
        BY <4>2, <4>3, <4>4, AttemptsAssumption DEF Jobs
      <4> QED
        BY <3>2, <4>5, NoJobAssumption DEF StartAttempt
    <3>3. CASE Complete(w)
      BY <3>1, <3>3 DEF Complete, Statuses
    <3>4. CASE Fail(w)
      BY <3>1, <3>4 DEF Fail, Statuses
    <3>5. CASE SaveRetry(w)
      BY <2>1, <3>5 DEF SaveRetry
    <3> QED
      BY <1>3, <3>2, <3>3, <3>4, <3>5
  <2>4. stored' = stored \/ stored' = [stored EXCEPT ![held[w].id] = record]
    BY <2>3 DEF SetJob, SetJobThrows, Store
  <2> QED
    BY <1>1, <2>2, <2>3, <2>4 DEF JobsInv, JobsTypeOK
<1> QED
  BY <1>2, <1>3 DEF WorkerStep, Loop, Reserve, Launch, Requeue, Bury, jobVars

LEMMA KeysKept ==
    ASSUME KeysInv, UNCHANGED <<api, answer, asked, keyed>>,
           JobsInv, \A j \in Requests : stored'[j] = NoJob <=> stored[j] = NoJob
    PROVE  KeysInv'
<1>1. \A k \in Keys : keyed[k] \in Requests \cup {NoJob}
  BY DEF JobsInv, JobsTypeOK
<1>2. \A q \in Requests : Key[q] # NoKey => Key[q] \in Keys
  BY DEF Keys
<1>3. ASSUME NEW k \in Keys PROVE Names(k)'
  BY <1>1 DEF KeysInv, Names
<1>4. ASSUME NEW q \in Requests PROVE Claimed(q)' /\ Stands(q)'
  BY <1>1, <1>2 DEF KeysInv, Claimed, Stands, asked
<1> QED
  BY <1>3, <1>4 DEF KeysInv

(* A step of one request.                                                  *)
LEMMA RequestSteps ==
    ASSUME KeysInv, JobsInv, NEW q \in Requests, ApiStep(q)
    PROVE  /\ \A p \in Requests \ {q} : api'[p] = api[p] /\ answer'[p] = answer[p] /\ known'[p] = known[p]
           /\ \A j \in Requests : stored[j] # NoJob => stored'[j] # NoJob
<1> USE DEF ApiStep, Goto, asked
<1>1. \A p \in Requests \ {q} : api'[p] = api[p] /\ answer'[p] = answer[p] /\ known'[p] = known[p]
  BY DEF GetKey, GetExisting, SetKey, SaveJob, PushNew, Respond, JobsInv, JobsTypeOK
<1>2. ASSUME NEW j \in Requests, stored[j] # NoJob PROVE stored'[j] # NoJob
  <2>1. time \in 0..MaxTime
    BY DEF JobsInv, JobsTypeOK
  <2>2. NewJob(q) \in Jobs /\ NewJob(q).id = q
    BY <2>1, AttemptsAssumption DEF NewJob, Jobs, Statuses
  <2>3. stored' = stored \/ stored' = [stored EXCEPT ![q] = NewJob(q)]
    BY <2>2 DEF GetKey, GetExisting, SetKey, SaveJob, PushNew, SetJob, SetJobThrows, Store,
       jobVars
  <2> QED
    BY <1>2, <2>2, <2>3, NoJobAssumption DEF JobsInv, JobsTypeOK
<1> QED
  BY <1>1, <1>2

(* It moves from one step to another, and only a claim sets a key.         *)
LEMMA RequestMoves ==
    ASSUME KeysInv, JobsInv, NEW q \in Requests, ApiStep(q)
    PROVE  \/ /\ api[q] = "new" /\ api'[q] \in {"save", "claim", "lookup"}
              /\ api'[q] = "save" <=> Key[q] = NoKey
              /\ api'[q] = "lookup" => keyed[Key[q]] # NoJob
              /\ api'[q] = "claim" => keyed[Key[q]] = NoJob
              /\ answer'[q] = answer[q] /\ UNCHANGED <<keyed, stored>>
              /\ known'[q] = IF \A p \in Earlier(q) : api[p] = "done"
                             THEN {answer[p] : p \in Earlier(q)} ELSE {}
           \/ /\ api[q] = "lookup" /\ api'[q] \in {"claim", "done"}
              /\ api'[q] = "claim" => stored[keyed[Key[q]]] = NoJob /\ answer'[q] = answer[q]
              /\ api'[q] = "done" => answer'[q] = keyed[Key[q]]
              /\ known'[q] = known[q] /\ UNCHANGED <<keyed, stored>>
           \/ /\ api[q] = "claim" /\ api'[q] \in {"save", "error"}
              /\ keyed' \in {keyed, Claim(q)} /\ (api'[q] = "save" => keyed' = Claim(q))
              /\ answer'[q] = answer[q] /\ known'[q] = known[q] /\ UNCHANGED stored
           \/ /\ api[q] = "save" /\ api'[q] \in {"push", "error"}
              /\ answer'[q] = answer[q] /\ known'[q] = known[q] /\ UNCHANGED keyed
           \/ /\ api[q] = "push" /\ api'[q] \in {"done", "error"}
              /\ api'[q] = "done" => answer'[q] = q
              /\ api'[q] = "error" => answer'[q] = answer[q]
              /\ known'[q] = known[q] /\ UNCHANGED <<keyed, stored>>
<1>1. q \in DOMAIN api /\ q \in DOMAIN answer /\ q \in DOMAIN known
  BY DEF JobsInv, JobsTypeOK
<1>2. CASE GetKey(q)
  BY <1>1, <1>2 DEF GetKey, Goto, jobVars
<1>3. CASE GetExisting(q)
  BY <1>1, <1>3 DEF GetExisting, Goto, Respond, jobVars, asked
<1>4. CASE SetKey(q)
  BY <1>1, <1>4 DEF SetKey, Goto, jobVars, asked
<1>5. CASE SaveJob(q)
  BY <1>1, <1>5 DEF SaveJob, Goto, asked
<1>6. CASE PushNew(q)
  BY <1>1, <1>6 DEF PushNew, Goto, Respond, jobVars, asked
<1> QED
  BY <1>2, <1>3, <1>4, <1>5, <1>6 DEF ApiStep

LEMMA RequestKeepsKeys ==
    ASSUME KeysInv, JobsInv, NEW q \in Requests, ApiStep(q)
    PROVE  KeysInv'
<1>1. /\ \A p \in Requests \ {q} : api'[p] = api[p] /\ answer'[p] = answer[p] /\ known'[p] = known[p]
      /\ \A j \in Requests : stored[j] # NoJob => stored'[j] # NoJob
  BY RequestSteps
<1>2. /\ \A k \in Keys : keyed[k] \in Requests \cup {NoJob}
      /\ \A p \in Requests : Key[p] # NoKey => Key[p] \in Keys
      /\ keyed \in [Keys -> Requests \cup {NoJob}] /\ NoJob \notin Requests
      /\ \A p \in Requests : answer[p] \in Requests \cup {NoJob}
  BY NoJobAssumption DEF JobsInv, JobsTypeOK, Keys
<1>3. api[q] = "push" => stored[q] # NoJob
  BY DEF JobsInv, Recorded
<1>4. /\ keyed' = keyed \/ (api[q] = "claim" /\ keyed' = Claim(q))
      /\ api[q] # "claim" => keyed' = keyed
  BY RequestMoves
<1>5. api[q] = "claim" => Key[q] \in Keys
  BY <1>2 DEF KeysInv, Claimed
<1>6. ASSUME NEW k \in Keys PROVE Names(k)'
  <2>1. Names(k)
    BY DEF KeysInv
  <2>2. ASSUME keyed'[k] = keyed[k], keyed[k] # q PROVE Names(k)'
    BY <1>1, <1>2, <2>1, <2>2 DEF Names
  <2>3. ASSUME keyed'[k] = keyed[k], keyed[k] = q PROVE Names(k)'
    <3>1. q # NoJob /\ Key[q] = k /\ api[q] \in {"save", "push", "done", "error"}
      BY <1>2, <2>1, <2>3 DEF Names
    <3>2. /\ api'[q] \in {"save", "push", "done", "error"}
          /\ api'[q] = "done" => answer'[q] = q /\ stored[q] # NoJob
      BY <1>3, <3>1, RequestMoves
    <3> QED
      BY <1>1, <2>3, <3>1, <3>2 DEF Names
  <2>4. ASSUME keyed'[k] # keyed[k] PROVE Names(k)'
    <3>1. api[q] = "claim" /\ k = Key[q] /\ keyed'[k] = q
      BY <1>2, <1>4, <1>5, <2>4 DEF Claim
    <3>2. api'[q] \in {"save", "error"}
      BY <3>1, RequestMoves
    <3> QED
      BY <3>1, <3>2 DEF Names
  <2> QED
    BY <2>2, <2>3, <2>4
<1>7. ASSUME NEW k \in Keys, keyed[k] # NoJob PROVE keyed'[k] # NoJob
  BY <1>2, <1>4, <1>5, <1>7 DEF Claim
<1>8. ASSUME NEW p \in Requests PROVE Claimed(p)'
  <2>1. Claimed(p)
    BY DEF KeysInv
  <2>2. CASE p # q
    BY <1>1, <1>2, <1>7, <2>1, <2>2 DEF Claimed
  <2>3. CASE p = q
    <3>1. api'[q] = "claim" => Key[q] # NoKey
      BY <2>1, <2>3, RequestMoves DEF Claimed, JobsInv, Recorded
    <3>2. answer'[q] # NoJob <=> api'[q] = "done"
      <4>1. api[q] = "lookup" => Key[q] # NoKey /\ keyed[Key[q]] # NoJob
        BY <2>1, <2>3 DEF Claimed, JobsInv, Recorded
      <4> QED
        BY <1>2, <2>1, <2>3, <4>1, RequestMoves DEF Claimed
    <3>3. Key[q] # NoKey /\ api'[q] \in {"lookup", "save", "push", "done"} => keyed'[Key[q]] # NoJob
      <4>1. CASE api[q] = "claim"
        BY <1>2, <1>5, <4>1, RequestMoves DEF Claim
      <4>2. CASE api[q] # "claim"
        BY <1>2, <1>4, <2>1, <2>3, <4>2, RequestMoves DEF Claimed
      <4> QED
        BY <4>1, <4>2
    <3>4. api'[q] # "new"
      BY RequestMoves
    <3> QED
      BY <2>3, <3>1, <3>2, <3>3, <3>4 DEF Claimed
  <2> QED
    BY <2>2, <2>3
<1>9. ASSUME NEW p \in Requests, known[p] # {} PROVE Stands(p)'
  <2>1. Stands(p) /\ Key[p] \in Keys
    BY <1>2, <1>9 DEF KeysInv, Stands
  <2>2. Key[q] = Key[p] => api[q] \in {"new", "lookup", "done"}
    BY <1>9, <2>1 DEF Stands
  <2>3. keyed'[Key[p]] = keyed[Key[p]]
    BY <1>2, <1>4, <1>5, <2>1, <2>2 DEF Claim
  <2>4. keyed[Key[p]] \in Requests /\ stored'[keyed[Key[p]]] # NoJob
    BY <1>1, <1>2, <1>9, <2>1 DEF Stands
  <2>5. Key[q] = Key[p] => /\ api'[q] \in {"new", "lookup", "done"}
                           /\ answer'[q] \in {answer[q], keyed[Key[p]]}
    BY <1>9, <2>1, <2>2, RequestMoves DEF Stands
  <2>6. known'[p] = known[p]
    BY <1>1, <1>9, <2>1, <2>2, RequestMoves DEF KeysInv, Claimed
  <2> QED
    BY <1>1, <1>9, <2>1, <2>3, <2>4, <2>5, <2>6 DEF Stands
<1>10. ASSUME NEW p \in Requests, known[p] = {}, known'[p] # {} PROVE Stands(p)'
  <2>1. p = q
    BY <1>1, <1>10
  <2>2. /\ api[q] = "new" /\ UNCHANGED <<keyed, stored>> /\ answer'[q] = answer[q]
        /\ \A e \in Earlier(q) : api[e] = "done"
        /\ known'[q] = {answer[e] : e \in Earlier(q)}
        /\ Key[q] # NoKey /\ keyed[Key[q]] # NoJob => api'[q] = "lookup"
    BY <1>10, <2>1, RequestMoves
  <2>3. PICK e \in Requests : Key[q] # NoKey /\ Key[e] = Key[q] /\ api[e] = "done"
    BY <1>10, <2>1, <2>2 DEF Earlier
  <2> DEFINE j == keyed[Key[q]]
  <2>4. j # NoJob
    BY <2>3 DEF KeysInv, Claimed
  <2>5. Key[q] \in Keys /\ Names(Key[q])
    BY <1>2, <2>3 DEF KeysInv
  <2>6. j \in Requests /\ Key[j] = Key[q] /\ api[j] # "new"
    BY <2>4, <2>5 DEF Names
  <2>7. j \in Earlier(q)
    BY <2>3, <2>6 DEF Earlier
  <2>8. answer[j] = j /\ stored[j] # NoJob
    BY <2>2, <2>4, <2>5, <2>7 DEF Names
  <2>9. j \in known'[q]
    BY <2>2, <2>7, <2>8
  <2>10. \A x \in Requests : Key[x] = Key[q] => api[x] \in {"new", "done"}
    BY <2>2, <2>3 DEF Earlier
  <2>11. \A x \in Requests : Key[x] = Key[q] => api'[x] \in {"new", "lookup", "done"}
    BY <1>1, <2>2, <2>3, <2>4, <2>10
  <2>12. answer'[q] = NoJob
    BY <2>2 DEF KeysInv, Claimed
  <2> QED
    BY <2>1, <2>2, <2>3, <2>4, <2>8, <2>9, <2>11, <2>12 DEF Stands
<1>11. \A p \in Requests : Stands(p)'
  BY <1>9, <1>10 DEF Stands
<1> QED
  BY <1>6, <1>8, <1>11 DEF KeysInv

(* Requests may overlap, and then one key may be answered with several     *)
(* jobs; but once those that have begun are all answered, a request with   *)
(* their key opens no further job, whatever fails elsewhere                *)
(* (redisQueue.ts:41-49).                                                  *)
THEOREM JobForKey == JobsSpec => []AnsweredKeyStands
<1>1. JobsInit => KeysInv
  BY DEF JobsInit, KeysInv, Names, Claimed, Stands
<1>2. JobsInv /\ KeysInv /\ [JobsNext]_jobQueueVars => KeysInv'
  <2> SUFFICES ASSUME JobsInv, KeysInv, [JobsNext]_jobQueueVars PROVE KeysInv'
    OBVIOUS
  <2>1. ASSUME NEW q \in Requests, ApiStep(q) PROVE KeysInv'
    BY <2>1, RequestKeepsKeys
  <2>2. ASSUME NEW w \in Workers, WorkerStep(w) PROVE KeysInv'
    BY <2>2, WorkersSaveAgain, KeysKept
  <2>3. CASE \E w \in Workers : Stop(w) \/ Crash(w) \/ Restart(w)
    BY <2>3, KeysKept DEF Stop, Crash, Restart, apiVars, jobVars
  <2>4. CASE UNCHANGED jobQueueVars
    BY <2>4, KeysKept DEF jobQueueVars, apiVars, jobVars
  <2> QED
    BY <2>1, <2>2, <2>3, <2>4 DEF JobsNext
<1>3. KeysInv => AnsweredKeyStands
  BY DEF KeysInv, Stands, AnsweredKeyStands
<1> QED
  BY <1>1, <1>2, <1>3, JobsInvariant, PTL DEF JobsSpec
-----------------------------------------------------------------------------
(* The queue implements module Job.                                        *)

LEMMA StillLapsed ==
    ASSUME faults > 0 => faults' > 0
    PROVE  (faults' > 0) \in {faults > 0, TRUE}
<1>1. CASE faults > 0
  <2>1. (faults' > 0) = TRUE
    BY <1>1
  <2> QED
    BY <2>1
<1>2. CASE ~(faults > 0)
  <2>1. (faults > 0) = FALSE /\ (faults' > 0) \in BOOLEAN
    BY <1>2
  <2> QED
    BY <2>1
<1> QED
  BY <1>1, <1>2

(* What readers see changes with setJob alone, and as it says.             *)
LEMMA Reading ==
    ASSUME JobsInv, NEW record \in Jobs, SetJob(record) \/ SetJobThrows(record)
    PROVE  \/ UNCHANGED <<Status, Attempts>>
           \/ /\ Status' = [Status EXCEPT ![record.id] = record.status]
              /\ Attempts' = [Attempts EXCEPT ![record.id] = record.attempts]
<1>1. stored' = stored \/ stored' = [stored EXCEPT ![record.id] = record]
  BY DEF SetJob, SetJobThrows, Store
<1>2. CASE stored' = stored
  BY <1>2 DEF Status, Attempts
<1>3. CASE stored' = [stored EXCEPT ![record.id] = record]
  <2>1. record # NoJob /\ record.id \in Requests /\ stored \in [Requests -> Jobs \cup {NoJob}]
    BY NoJobAssumption DEF Jobs, JobsInv, JobsTypeOK
  <2>2. stored'[record.id] = record /\ \A k \in Requests \ {record.id} : stored'[k] = stored[k]
    BY <1>3, <2>1
  <2>3. Status' = [Status EXCEPT ![record.id] = record.status]
    BY <2>1, <2>2 DEF Status
  <2>4. Attempts' = [Attempts EXCEPT ![record.id] = record.attempts]
    BY <2>1, <2>2 DEF Attempts
  <2> QED
    BY <2>3, <2>4
<1> QED
  BY <1>1, <1>2, <1>3

LEMMA FaultsGrow ==
    ASSUME JobsInv, JobsNext PROVE faults > 0 => faults' > 0
<1>1. faults \in Nat
  BY BoundAssumption DEF JobsInv, JobsTypeOK
<1>2. faults' = faults \/ faults' = faults + 1
  BY DEF JobsNext, ApiStep, GetKey, GetExisting, SetKey, SaveJob, PushNew, WorkerStep, Loop,
         Reserve, StartAttempt, Launch, Complete, Fail, SaveRetry, Requeue, Bury, Stop, Crash,
         Restart, SetJob, SetJobThrows, PushThrows, NoFault, Fault
<1> QED
  BY <1>1, <1>2

LEMMA SaveJobPromised ==
    ASSUME JobsInv, NEW q \in Requests, SaveJob(q)
    PROVE  Promise!Accept(q) \/ UNCHANGED <<Status, Attempts>>
<1>1. stored[q] = NoJob
  BY DEF SaveJob, JobsInv, Recorded
<1>2. PICK record \in Jobs : record = NewJob(q)
  <2>1. time \in 0..MaxTime
    BY DEF JobsInv, JobsTypeOK
  <2>2. NewJob(q) \in Jobs
    BY <2>1, AttemptsAssumption DEF NewJob, Jobs, Statuses
  <2> QED
    BY <2>2
<1>3. record.id = q /\ record.status = "queued" /\ record.attempts = 0
  BY <1>2 DEF NewJob
<1>4. Status[q] = "none" /\ Attempts[q] = 0
  BY <1>1 DEF Status, Attempts
<1>5. Attempts = [Attempts EXCEPT ![q] = 0]
  BY <1>4 DEF Attempts
<1> QED
  BY <1>2, <1>3, <1>4, <1>5, Reading DEF SaveJob, Promise!Accept, Promise!Turn

LEMMA HandStatus ==
    ASSUME JobsInv, NEW w \in Workers, pc[w] \in Holding
    PROVE  /\ Status[held[w].id] = stored[held[w].id].status
           /\ Attempts[held[w].id] = stored[held[w].id].attempts
           /\ Attempts = [Attempts EXCEPT ![held[w].id] = stored[held[w].id].attempts]
<1>1. held[w].id \in Requests /\ stored[held[w].id] # NoJob
  BY HandRecord
<1> QED
  BY <1>1 DEF Status, Attempts

LEMMA StartAttemptPromised ==
    ASSUME JobsInv, NEW w \in Workers, StartAttempt(w)
    PROVE  Promise!Begin(held[w].id) \/ UNCHANGED <<Status, Attempts>>
<1>1. pc[w] = "reserved" /\ "reserved" \in Holding
  BY DEF StartAttempt, Holding
<1>2. /\ held[w] \in Jobs /\ Waiting(held[w]) /\ time \in 0..MaxTime
      /\ held[w].attempts \in Nat /\ MaxAttempts \in Nat
  BY <1>1, HandRecord DEF Fit
<1>3. PICK job \in Jobs : job = Stamp(held[w], "running")
  BY <1>2, Stamping DEF Statuses
<1>4. job.id = held[w].id /\ job.status = "running" /\ job.attempts = held[w].attempts
  BY <1>2, <1>3, Stamping DEF Statuses
<1>5. PICK record : record = [job EXCEPT !.attempts = job.attempts + 1]
  OBVIOUS
<1>6. record = Running(w)
  BY <1>3, <1>5 DEF Running
<1>7. job.attempts + 1 \in 0..MaxAttempts
  BY <1>2, <1>4 DEF Waiting
<1>8. /\ record \in Jobs /\ record.id = held[w].id /\ record.status = "running"
      /\ record.attempts = held[w].attempts + 1
  BY <1>4, <1>5, <1>7 DEF Jobs
<1>9. /\ Status[held[w].id] = "queued" /\ Attempts[held[w].id] = held[w].attempts
      /\ held[w].attempts < MaxAttempts
  BY <1>1, <1>2, HandStatus DEF Waiting
<1> QED
  BY <1>6, <1>8, <1>9, Reading DEF StartAttempt, Promise!Begin, Promise!Turn

LEMMA CompletePromised ==
    ASSUME JobsInv, NEW w \in Workers, Complete(w)
    PROVE  Promise!Succeed(held[w].id) \/ UNCHANGED <<Status, Attempts>>
<1>1. pc[w] = "recording" /\ "recording" \in Holding
  BY DEF Complete, Holding
<1>2. /\ held[w] \in Jobs /\ held[w].status = "running" /\ stored[held[w].id] = held[w]
      /\ time \in 0..MaxTime
  BY <1>1, HandRecord DEF Fit
<1>3. PICK record \in Jobs : record = Stamp(held[w], "completed")
  BY <1>2, Stamping DEF Statuses
<1>4. /\ record.id = held[w].id /\ record.status = "completed"
      /\ record.attempts = held[w].attempts
  BY <1>2, <1>3, Stamping DEF Statuses
<1>5. /\ Status[held[w].id] = "running"
      /\ Attempts = [Attempts EXCEPT ![held[w].id] = held[w].attempts]
  BY <1>1, <1>2, HandStatus
<1> QED
  BY <1>3, <1>4, <1>5, Reading DEF Complete, Promise!Succeed, Promise!Turn

LEMMA FailPromised ==
    ASSUME JobsInv, NEW w \in Workers, Fail(w)
    PROVE  \/ Promise!FailFrom(held[w].id, "running") \/ Promise!Relapse(held[w].id)
           \/ UNCHANGED <<Status, Attempts>>
<1>1. pc[w] = "failing" /\ "failing" \in Holding
  BY DEF Fail, Holding
<1>2. /\ held[w] \in Jobs /\ stored[held[w].id].attempts = held[w].attempts
      /\ \/ stored[held[w].id].status = "running"
         \/ stored[held[w].id].status = "completed" /\ faults > 0
      /\ time \in 0..MaxTime /\ held[w].attempts \in 0..MaxAttempts /\ MaxAttempts \in Nat
  BY <1>1, HandRecord DEF Fit
<1>3. /\ Status[held[w].id] = stored[held[w].id].status
      /\ Attempts[held[w].id] = held[w].attempts
      /\ Attempts = [Attempts EXCEPT ![held[w].id] = held[w].attempts]
  BY <1>1, <1>2, HandStatus
<1>4. PICK from \in {"running", "completed"} :
         Status[held[w].id] = from /\ (from = "completed" => faults > 0)
  BY <1>2, <1>3
<1>5. ASSUME NEW status \in {"failed", "dead_lettered"}, NEW record \in Jobs,
             record = Stamp(held[w], status), SetJob(record) \/ SetJobThrows(record),
             status = "failed" => held[w].attempts < MaxAttempts,
             status = "dead_lettered" => held[w].attempts = MaxAttempts
      PROVE  Promise!FailFrom(held[w].id, from) \/ UNCHANGED <<Status, Attempts>>
  <2>1. /\ record.id = held[w].id /\ record.status = status
        /\ record.attempts = held[w].attempts
    BY <1>2, <1>5, Stamping DEF Statuses
  <2> QED
    BY <1>3, <1>4, <1>5, <2>1, Reading DEF Promise!FailFrom, Promise!Turn
<1>6. Promise!FailFrom(held[w].id, from) \/ UNCHANGED <<Status, Attempts>>
  <2>1. PICK failed \in Jobs, buried \in Jobs :
           failed = Stamp(held[w], "failed") /\ buried = Stamp(held[w], "dead_lettered")
    BY <1>2, Stamping DEF Statuses
  <2>2. CASE MayRetry(held[w])
    <3>1. (SetJob(failed) \/ SetJobThrows(failed)) /\ held[w].attempts < MaxAttempts
      BY <2>1, <2>2 DEF Fail, MayRetry
    <3> QED
      BY <1>5, <2>1, <3>1
  <2>3. CASE ~MayRetry(held[w])
    <3>1. (SetJob(buried) \/ SetJobThrows(buried)) /\ held[w].attempts = MaxAttempts
      BY <1>2, <2>1, <2>3 DEF Fail, MayRetry
    <3> QED
      BY <1>5, <2>1, <3>1
  <2> QED
    BY <2>2, <2>3
<1> QED
  BY <1>4, <1>6 DEF Promise!Relapse

LEMMA SaveRetryPromised ==
    ASSUME JobsInv, NEW w \in Workers, SaveRetry(w)
    PROVE  Promise!Return(held[w].id) \/ UNCHANGED <<Status, Attempts>>
<1>1. pc[w] = "backoff" /\ "backoff" \in Holding
  BY DEF SaveRetry, Holding
<1>2. /\ held[w] \in Jobs /\ held[w].status = "queued"
      /\ stored[held[w].id].status = "failed"
      /\ stored[held[w].id].attempts = held[w].attempts
  BY <1>1, HandRecord DEF Fit
<1>3. /\ Status[held[w].id] = "failed"
      /\ Attempts = [Attempts EXCEPT ![held[w].id] = held[w].attempts]
  BY <1>1, <1>2, HandStatus
<1>4. PICK record \in Jobs : record = held[w]
  BY <1>2
<1> QED
  BY <1>2, <1>3, <1>4, Reading DEF SaveRetry, Promise!Return, Promise!Turn

(* Whoever follows a job by its status sees what module Job allows: each   *)
(* record is written before the push that passes the job on, so that every *)
(* process goes on from the record it reads.                               *)
THEOREM JobKeepsOrder == JobsSpec => KeepsOrder
<1>1. JobsInit => Promise!JobInit
  <2> SUFFICES ASSUME JobsInit PROVE Promise!JobInit
    OBVIOUS
  <2>1. Status = [j \in Requests |-> "none"] /\ Attempts = [j \in Requests |-> 0]
    BY DEF JobsInit, Status, Attempts
  <2>2. (faults > 0) = FALSE
    BY DEF JobsInit
  <2> QED
    BY <2>1, <2>2 DEF Promise!JobInit
<1>2. JobsInv /\ [JobsNext]_jobQueueVars => [Promise!JobNext]_(Promise!jobStatusVars)
  <2> SUFFICES ASSUME JobsInv, [JobsNext]_jobQueueVars
               PROVE  [Promise!JobNext]_(Promise!jobStatusVars)
    OBVIOUS
  <2>1. CASE UNCHANGED jobQueueVars
    <3>1. stored' = stored /\ faults' = faults
      BY <2>1 DEF jobQueueVars, jobVars
    <3> QED
      BY <3>1 DEF Promise!jobStatusVars, Status, Attempts
  <2>2. CASE JobsNext
    <3>1. (faults' > 0) \in {faults > 0, TRUE}
      BY <2>2, FaultsGrow, StillLapsed
    <3>2. (\E j \in Requests : Promise!JobStep(j)) \/ UNCHANGED <<Status, Attempts>>
      <4>1. \A w \in Workers : pc[w] \in Holding => held[w].id \in Requests
        BY HandRecord
      <4>2. ASSUME NEW q \in Requests, ApiStep(q), SaveJob(q)
            PROVE  Promise!JobStep(q) \/ UNCHANGED <<Status, Attempts>>
        BY <4>2, SaveJobPromised DEF Promise!JobStep
      <4>3. ASSUME NEW w \in Workers, StartAttempt(w) \/ Complete(w) \/ Fail(w) \/ SaveRetry(w)
            PROVE  /\ Promise!JobStep(held[w].id) \/ UNCHANGED <<Status, Attempts>>
                   /\ pc[w] \in Holding
        <5>1. Promise!JobStep(held[w].id) \/ UNCHANGED <<Status, Attempts>>
          BY <4>3, StartAttemptPromised, CompletePromised, FailPromised, SaveRetryPromised
             DEF Promise!JobStep
        <5>2. pc[w] \in Holding
          BY <4>3 DEF StartAttempt, Complete, Fail, SaveRetry, Holding
        <5> QED
          BY <5>1, <5>2
      <4>4. CASE stored' = stored
        BY <4>4 DEF Status, Attempts
      <4>5. \/ stored' = stored
            \/ \E q \in Requests : ApiStep(q) /\ SaveJob(q)
            \/ \E w \in Workers : StartAttempt(w) \/ Complete(w) \/ Fail(w) \/ SaveRetry(w)
        BY <2>2 DEF JobsNext, ApiStep, GetKey, GetExisting, SetKey, PushNew, WorkerStep, Loop,
                    Reserve, Launch, Requeue, Bury, Stop, Crash, Restart, jobVars
      <4> QED
        BY <4>1, <4>2, <4>3, <4>4, <4>5
    <3> QED
      BY <3>1, <3>2 DEF Promise!JobNext
  <2> QED
    BY <2>1, <2>2
<1> QED
  BY <1>1, <1>2, JobsInvariant, PTL DEF JobsSpec, KeepsOrder, Promise!JobSpec
=============================================================================
