---------------------------- MODULE StoresProofs ----------------------------
(***************************************************************************)
(* Proofs about the stores of the feed server, for any requests, people,   *)
(* sessions, organizations, agents and pasts, however handlers overlap.    *)
(***************************************************************************)
EXTENDS FeedStores, WellFoundedInduction, TLAPS

(* Logs, and the record of an id that counts.                              *)

Log(log) == \E S : log \in Seq(S)

LEMMA LogFacts ==
    ASSUME NEW log, Log(log)
    PROVE  Len(log) \in Nat /\ DOMAIN log = 1..Len(log)
BY DEF Log

(* A log grows at its end.                                                 *)
LEMMA Appending ==
    ASSUME NEW log, Log(log), NEW m
    PROVE  /\ Log(Append(log, m)) /\ Len(Append(log, m)) = Len(log) + 1
           /\ Append(log, m)[Len(log) + 1] = m
           /\ \A i \in 1..Len(log) : Append(log, m)[i] = log[i]
           /\ DOMAIN Append(log, m) = 1..(Len(log) + 1) /\ DOMAIN log = 1..Len(log)
           /\ Len(log) \in Nat
<1>1. PICK S : log \in Seq(S)
  BY DEF Log
<1>2. log \in Seq(S \cup {m}) /\ m \in S \cup {m}
  BY <1>1
<1>3. Append(log, m) \in Seq(S \cup {m}) /\ Len(Append(log, m)) = Len(log) + 1 /\ Len(log) \in Nat
  BY <1>2
<1>4. Append(log, m)[Len(log) + 1] = m /\ \A i \in 1..Len(log) : Append(log, m)[i] = log[i]
  BY <1>2
<1>5. DOMAIN Append(log, m) = 1..(Len(log) + 1) /\ DOMAIN log = 1..Len(log)
  BY <1>2, <1>3
<1> QED
  BY <1>3, <1>4, <1>5 DEF Log

(* The beginning of a log stays what it is.                                *)
LEMMA Beginning ==
    ASSUME NEW log, Log(log), NEW m, NEW n \in 0..Len(log)
    PROVE  SubSeq(Append(log, m), 1, n) = SubSeq(log, 1, n)
<1>1. PICK S : log \in Seq(S)
  BY DEF Log
<1>2. log \in Seq(S \cup {m}) /\ Append(log, m) \in Seq(S \cup {m}) /\ n \in Nat
      /\ Len(Append(log, m)) = Len(log) + 1 /\ Len(log) \in Nat
  BY <1>1
<1>3. \A i \in 1..n : Append(log, m)[i] = log[i]
  BY <1>1, <1>2
<1> QED
  BY <1>2, <1>3

LEMMA Whole ==
    ASSUME NEW log, Log(log)
    PROVE  SubSeq(log, 1, Len(log)) = log
BY DEF Log

(* Of finitely many records stamped with integers one is the newest.       *)
LEMMA LeastIn ==
    ASSUME NEW T \in SUBSET Nat, T # {}
    PROVE  \E x \in T : \A y \in T : x <= y
<1>1. IsWellFoundedOn(OpToRel(<, Nat), Nat)
  BY NatLessThanWellFounded
<1>2. \E x \in T : \A y \in T : ~ (<<y, x>> \in OpToRel(<, Nat))
  BY <1>1, WFMin
<1>3. PICK x \in T : \A y \in T : ~ (y < x)
  BY <1>2 DEF OpToRel
<1> QED
  BY <1>3

LEMMA NewestIs ==
    ASSUME NEW log, NEW n \in Nat, NEW hits \in SUBSET (1..n), NEW bound \in Int,
           \A i \in hits : log[i].at \in Int /\ log[i].at <= bound, hits # {}
    PROVE  \E i \in hits :
              /\ Newest(log, hits) = log[i]
              /\ \A j \in hits : log[j].at <= log[i].at /\ (log[j].at = log[i].at => j <= i)
<1> DEFINE newest == {i \in hits : \A j \in hits : log[j].at <= log[i].at}
<1>1. PICK a \in hits : \A j \in hits : log[j].at <= log[a].at
  <2> DEFINE T == {bound - log[i].at : i \in hits}
  <2>1. T \in SUBSET Nat /\ T # {}
    <3>1. \A i \in hits : bound - log[i].at \in Nat
      <4> TAKE i \in hits
      <4>1. PICK x \in Int : x = log[i].at /\ x <= bound
        OBVIOUS
      <4> QED
        BY <4>1
    <3> QED
      BY <3>1
  <2>2. PICK x \in T : \A y \in T : x <= y
    BY <2>1, LeastIn
  <2>3. PICK a \in hits : x = bound - log[a].at
    BY <2>2
  <2>4. ASSUME NEW j \in hits PROVE log[j].at <= log[a].at
    <3>1. bound - log[a].at <= bound - log[j].at
      BY <2>2, <2>3
    <3> QED
      BY <3>1
  <2> QED
    BY <2>4
<1>2. a \in newest
  BY <1>1
<1>3. PICK i \in newest : \A j \in newest : j <= i
  <2> DEFINE T == {n - i : i \in newest}
  <2>1. T \in SUBSET Nat /\ T # {}
    BY <1>2
  <2>2. PICK x \in T : \A y \in T : x <= y
    BY <2>1, LeastIn
  <2>3. PICK i \in newest : x = n - i
    BY <2>2
  <2>4. ASSUME NEW j \in newest PROVE j <= i
    <3>1. n - i <= n - j
      BY <2>2, <2>3
    <3> QED
      BY <3>1
  <2> QED
    BY <2>4
<1>4. PICK k : k = CHOOSE x \in newest : \A j \in newest : j <= x
  OBVIOUS
<1>5. k \in newest /\ \A j \in newest : j <= k
  BY <1>3, <1>4
<1>6. Newest(log, hits) = log[k]
  BY <1>4 DEF Newest
<1>7. ASSUME NEW j \in hits, log[j].at = log[k].at PROVE j <= k
  <2>1. j \in newest
    BY <1>5, <1>7
  <2> QED
    BY <1>5, <2>1
<1> QED
  BY <1>5, <1>6, <1>7

(* The record of an id in a log.                                           *)
LEMMA LatestIs ==
    ASSUME NEW log, Log(log), NEW id, NEW bound \in Int,
           \A i \in DOMAIN log : log[i].at \in Int /\ log[i].at <= bound
    PROVE  \/ /\ LatestIn(log, id) = Nothing
              /\ \A i \in DOMAIN log : log[i].id # id
           \/ \E i \in DOMAIN log :
                 /\ LatestIn(log, id) = log[i] /\ log[i].id = id
                 /\ \A j \in DOMAIN log : log[j].id = id =>
                       log[j].at <= log[i].at /\ (log[j].at = log[i].at => j <= i)
<1>1. PICK hits : hits = {i \in DOMAIN log : log[i].id = id}
  OBVIOUS
<1>2. Len(log) \in Nat /\ DOMAIN log = 1..Len(log)
  BY LogFacts
<1>3. LatestIn(log, id) = Newest(log, hits)
  BY <1>1 DEF LatestIn
<1>4. CASE hits = {}
  BY <1>1, <1>3, <1>4 DEF Newest
<1>5. CASE hits # {}
  <2>1. hits \in SUBSET (1..Len(log))
        /\ \A i \in hits : log[i].at \in Int /\ log[i].at <= bound
    BY <1>1, <1>2
  <2>2. PICK i \in hits :
            /\ Newest(log, hits) = log[i]
            /\ \A j \in hits : log[j].at <= log[i].at /\ (log[j].at = log[i].at => j <= i)
    BY <1>2, <1>5, <2>1, NewestIs
  <2> QED
    BY <1>1, <1>3, <2>2
<1> QED
  BY <1>4, <1>5
-----------------------------------------------------------------------------
(* Requests come, go on and end.                                           *)

Locals ==
    {"pc", "op", "who", "target", "ask", "met", "after", "since", "scope", "autoGrant",
     "coll", "id", "patch", "by", "at", "was", "next", "then"}

Stages ==
    {"direct", "inherit", "findOrg", "ensure", "admitted", "creator", "assign", "read",
     "append", "audit", "mirror", "readAgent", "event", "feedback"}

Handling(r) == DOMAIN r = Locals /\ r.pc \in Stages
Closed(r) == DOMAIN r = {"pc", "op", "who", "target", "ask", "met", "after"} /\ r.pc \in Ended

(* What a handler never changes of its request.                            *)
SameAsk(n, r) ==
    /\ n.op = r.op /\ n.who = r.who /\ n.target = r.target /\ n.ask = r.ask
    /\ n.met = r.met /\ n.after = r.after
SameRequest(n, r) == SameAsk(n, r) /\ n.since = r.since

(* Two requests overlap, and each knows, or one had ended when the other   *)
(* arrived.                                                                *)
RequestsOK ==
    /\ DOMAIN req = Requests
    /\ \A q \in Requests : req[q] = Idle \/ Handling(req[q]) \/ Closed(req[q])
    /\ \A p, q \in Running : p # q => p \in req[q].met
    /\ \A q \in Running \cup Over : req[q].after \subseteq Over
    /\ \A p \in Over, q \in Running : q \in req[p].met \/ p \in req[q].after

Arriving == {"direct", "findOrg", "readAgent", "event", "feedback"}

Arrives(q, r) ==
    /\ req[q].pc = "idle" /\ req[q] = Idle
    /\ Handling(r) /\ r.pc \in Arriving
    /\ r.met = Running /\ r.after = Over
    /\ r.since = [c \in Deciding |-> Len(file[c])]
    /\ DOMAIN req' = Requests /\ req'[q] = r
    /\ \A p \in Running : req'[p] = [req[p] EXCEPT !.met = @ \cup {q}]
    /\ \A p \in Requests \ Running : p # q => req'[p] = req[p]
    /\ UNCHANGED <<file, rows, mirrored, clock, faults, listed, refused>>

Goes(q, r) ==
    /\ q \in Running /\ Handling(req[q])
    /\ req' = [req EXCEPT ![q] = r]
    /\ \/ Handling(r) /\ SameRequest(r, req[q])
       \/ Closed(r) /\ SameAsk(r, req[q])

(* How an update of the locals in the code's terms changes them.           *)
LEMMA Ending ==
    ASSUME NEW r, NEW pc \in Ended
    PROVE  Closed(To(r, pc)) /\ SameAsk(To(r, pc), r) /\ To(r, pc).pc = pc
BY DEF To, Closed, SameAsk

LEMMA Moving ==
    ASSUME NEW r, Handling(r), NEW pc \in Stages
    PROVE  /\ Handling(To(r, pc)) /\ SameRequest(To(r, pc), r)
           /\ To(r, pc) = [r EXCEPT !.pc = pc]
BY DEF To, Handling, SameRequest, SameAsk, Locals, Stages, Ended

LEMMA Writing ==
    ASSUME NEW r, Handling(r), NEW c, NEW id, NEW patch, NEW by, NEW t, NEW then
    PROVE  LET n == Write(r, c, id, patch, by, t, then)
           IN  /\ Handling(n) /\ SameRequest(n, r) /\ n.scope = r.scope
               /\ n.pc = "read" /\ n.coll = c /\ n.id = id /\ n.patch = patch
               /\ n.by = by /\ n.at = t /\ n.then = then
BY DEF Write, Handling, SameRequest, SameAsk, Locals, Stages

LEMMA Admitting ==
    ASSUME NEW r, Handling(r), NEW t, r.op \in {"edit", "export", "member", "org", "assign"}
    PROVE  /\ Handling(Admitted(r, t)) /\ SameRequest(Admitted(r, t), r)
           /\ Admitted(r, t).scope = r.scope
           /\ Admitted(r, t).pc \in {"read", "assign"}
<1>1. CASE r.op \in {"edit", "export"}
  BY <1>1, Writing DEF Admitted
<1>2. CASE r.op = "member"
  BY <1>2, Writing DEF Admitted
<1>3. CASE r.op = "org"
  BY <1>3, Writing DEF Admitted
<1>4. CASE r.op = "assign"
  <2>1. Admitted(r, t) = [r EXCEPT !.pc = "assign"]
    BY <1>4 DEF Admitted
  <2> QED
    BY <2>1 DEF Handling, SameRequest, SameAsk, Locals, Stages
<1> QED
  BY <1>1, <1>2, <1>3, <1>4

LEMMA RequestIs ==
    ASSUME RequestsOK, NEW q \in Requests
    PROVE  /\ req[q].pc = "idle" <=> req[q] = Idle
           /\ q \in Running <=> Handling(req[q])
           /\ q \in Over <=> Closed(req[q])
           /\ q \in Running <=> req[q].pc \in Stages
           /\ req[q].pc \in Stages => Handling(req[q])
BY DEF RequestsOK, Running, Over, Handling, Closed, Idle, Ended, Stages

LEMMA ArriveArrives ==
    ASSUME RequestsOK, NEW q \in Requests, NEW r, Handling(r), r.pc \in Arriving, Arrive(q, r)
    PROVE  \E n : /\ Arrives(q, n)
                  /\ n = [r EXCEPT !.met = Running, !.after = Over,
                                   !.since = [c \in Deciding |-> Len(file[c])]]
<1> DEFINE n == [r EXCEPT !.met = Running, !.after = Over,
                         !.since = [c \in Deciding |-> Len(file[c])]]
<1>1. Handling(n) /\ n.pc = r.pc
      /\ n.met = Running /\ n.after = Over /\ n.since = [c \in Deciding |-> Len(file[c])]
  BY DEF Handling, Locals
<1>2. req' = [p \in Requests |->
               IF p = q THEN n
               ELSE IF p \in Running THEN [req[p] EXCEPT !.met = @ \cup {q}]
               ELSE req[p]]
  BY DEF Arrive
<1>3. DOMAIN req' = Requests /\ req'[q] = n
      /\ (\A p \in Running : req'[p] = [req[p] EXCEPT !.met = @ \cup {q}])
      /\ (\A p \in Requests \ Running : p # q => req'[p] = req[p])
  <2>1. Running \subseteq Requests /\ q \notin Running
    BY DEF Arrive, Running
  <2> QED
    BY <1>2, <2>1
<1>4. req[q].pc = "idle" /\ UNCHANGED <<file, rows, mirrored, clock, faults, listed, refused>>
  BY DEF Arrive
<1>5. req[q] = Idle
  BY <1>4, RequestIs
<1> QED
  BY <1>1, <1>3, <1>4, <1>5 DEF Arrives
-----------------------------------------------------------------------------
(* What a handler knows at each of its stages.                             *)

Scopes == Sessions \cup Orgs
WorkspaceOps == {"edit", "export", "member", "org", "assign"}
WriteStages == {"read", "append", "audit", "mirror"}
Stamped == Tables \cup {"agents"}

(* The writes a workspace request may make.                                *)
WriteOf(r) ==
    \/ /\ r.coll = "members" /\ r.scope = r.target /\ r.id = MemberId(r.scope, r.who)
       /\ r.patch = Patch(r.who, "owner") /\ r.by = "first-signed-writer" /\ r.then = "admitted"
    \/ /\ r.op \in {"edit", "export"}
       /\ r.coll = "memo" /\ r.id = r.target /\ r.by = r.who /\ r.then = "answered"
    \/ /\ r.op = "member"
       /\ r.coll = "members" /\ r.id = MemberId(r.target, r.ask.person)
       /\ r.patch = r.ask /\ r.by = r.who /\ r.then = "answered"
    \/ /\ r.op = "org"
       /\ r.coll = "orgs" /\ r.id = r.target /\ r.by = r.who /\ r.then = "creator"
    \/ /\ r.op = "org"
       /\ r.coll = "members" /\ r.id = MemberId(r.target, r.who)
       /\ r.patch = Patch(r.who, "owner") /\ r.by = "organization-creator" /\ r.then = "answered"
    \/ /\ r.op = "assign"
       /\ r.coll = "sessions" /\ r.id = r.ask /\ r.patch = r.target /\ r.by = r.who
       /\ r.then = "answered"

(* The record it makes.                                                    *)
NextOf(q, r) ==
    /\ r.next.id = r.id /\ r.next.at = r.at
    /\ r.coll = "members" =>
          /\ r.next \in MemberRecords /\ r.next.by = r.by /\ r.next.req = q
          /\ r.patch.status # Nothing => r.next.status = r.patch.status
    /\ r.coll = "sessions" =>
          r.next \in SessionRecords /\ r.next.req = q /\ r.next.org = r.patch
    /\ r.coll = "memo" =>
          r.next \in MemoRecords /\ (r.op = "export" => q \in r.next.exports)
    /\ r.coll = "orgs" => r.next \in OrgRecords

WorkspaceShape(q, r) ==
    /\ r.op \in WorkspaceOps
    /\ r.who \in People /\ r.target \in Scopes /\ r.scope \in Scopes
    /\ r.op \in {"edit", "export"} => r.target \in Sessions
    /\ r.op \in {"org", "assign"} => r.target \in Orgs
    /\ r.op = "member" => r.ask \in Patches
    /\ r.op = "assign" => r.ask \in Sessions
    /\ r.pc \notin {"readAgent", "event", "feedback"}
    /\ r.pc \in {"direct", "inherit"} =>
          /\ r.op \in {"edit", "export", "member"} /\ r.target \in Sessions
          /\ r.scope = r.target /\ r.autoGrant = FALSE
    /\ r.pc = "findOrg" => r.target \in Orgs /\ r.scope = r.target
    /\ r.pc = "ensure" /\ r.autoGrant => r.scope = r.target
    /\ r.pc = "creator" => r.op = "org"
    /\ r.pc = "assign" => r.op = "assign"
    /\ r.pc \in WriteStages => WriteOf(r) /\ r.at \in Int /\ r.at <= clock
    /\ r.pc \in WriteStages \ {"read"} => NextOf(q, r)
    /\ r.pc = "audit" => r.coll = "members"
    /\ r.pc = "mirror" => mirrored /\ r.coll \in Tables

RegistryShape(q, r) ==
    /\ r.op \in RegistryOps
    /\ r.pc \in {"readAgent", "append"} /\ r.then = "answered"
    /\ r.ask \in RegistryStatuses \cup {Nothing}
    /\ r.op = "transition" => r.ask \in RegistryStatuses
    /\ r.op # "transition" => r.patch \in Manifests
    /\ r.pc = "append" =>
          /\ r.coll = "agents" /\ r.next \in AgentRecords
          /\ r.next.id = r.target /\ r.next.at <= clock
          /\ r.ask # Nothing => r.next.status = r.ask

ActivationShape(q, r) ==
    /\ r.op \in {"activation", "feedback"}
    /\ r.pc \in {"feedback", "event", "append"} /\ (r.pc = "feedback" => r.op = "feedback")
    /\ r.pc = "append" =>
          /\ r.next.id = q /\ r.next.about = r.target /\ r.next.at \in Int /\ r.next.at <= clock
          /\ \/ r.coll = "events" /\ r.then = "answered" /\ r.next.type = EventType(r)
             \/ r.op = "feedback" /\ r.coll = "feedback" /\ r.then = "event"
                /\ r.next.rating \in 1..5

Shape(q, r) == WorkspaceShape(q, r) \/ RegistryShape(q, r) \/ ActivationShape(q, r)

(* Logs and tables hold well-formed records, stamped by the clock.         *)
FilesOK ==
    /\ DOMAIN file = Collections
    /\ file["members"] \in Seq(MemberRecords) /\ file["sessions"] \in Seq(SessionRecords)
    /\ file["memo"] \in Seq(MemoRecords) /\ file["orgs"] \in Seq(OrgRecords)
    /\ file["agents"] \in Seq(AgentRecords)
    /\ \A c \in Collections : Log(file[c])
    /\ \A c \in Stamped : \A i \in DOMAIN file[c] : file[c][i].at <= clock

Keyed(records) == \A m, n \in records : m.id = n.id => m = n

RowsOK ==
    /\ DOMAIN rows = Tables
    /\ rows["members"] \subseteq MemberRecords /\ rows["sessions"] \subseteq SessionRecords
    /\ rows["memo"] \subseteq MemoRecords /\ rows["orgs"] \subseteq OrgRecords
    /\ \A c \in Tables : Keyed(rows[c])

ClockOK == mirrored \in BOOLEAN /\ clock \in 0..MaxTime /\ faults \in Nat

StoresInv ==
    /\ RequestsOK /\ FilesOK /\ RowsOK /\ ClockOK
    /\ \A q \in Running : Shape(q, req[q])
-----------------------------------------------------------------------------
(* What is read is well formed.                                            *)

LEMMA RowIs ==
    ASSUME NEW c \in Tables, NEW id
    PROVE  \/ Row(c, id) = Nothing /\ \A m \in rows[c] : m.id # id
           \/ Row(c, id) \in rows[c] /\ Row(c, id).id = id
BY DEF Row

LEMMA StampsAre ==
    ASSUME FilesOK, ClockOK, NEW c \in Stamped
    PROVE  /\ Log(file[c]) /\ clock \in Int
           /\ \A i \in DOMAIN file[c] : file[c][i].at \in Int /\ file[c][i].at <= clock
<1>1. c \in Collections /\ clock \in Int
  BY DEF Stamped, Collections, Tables, ClockOK
<1>2. ASSUME NEW S, file[c] \in Seq(S), \A m \in S : m.at \in Int
      PROVE  \A i \in DOMAIN file[c] : file[c][i].at \in Int
  BY <1>2
<1>3. /\ \A m \in MemberRecords : m.at \in Int
      /\ \A m \in SessionRecords : m.at \in Int
      /\ \A m \in MemoRecords : m.at \in Int
      /\ \A m \in OrgRecords : m.at \in Int
      /\ \A m \in AgentRecords : m.at \in Int
  BY DEF MemberRecords, SessionRecords, MemoRecords, OrgRecords, AgentRecords
<1>4. \A i \in DOMAIN file[c] : file[c][i].at \in Int
  BY <1>2, <1>3 DEF FilesOK, Stamped, Tables
<1> QED
  BY <1>1, <1>4 DEF FilesOK

LEMMA LatestByIs ==
    ASSUME FilesOK, ClockOK, NEW c \in Stamped, NEW id
    PROVE  \/ /\ LatestBy(c, id) = Nothing
              /\ \A i \in DOMAIN file[c] : file[c][i].id # id
           \/ \E i \in DOMAIN file[c] :
                 /\ LatestBy(c, id) = file[c][i] /\ file[c][i].id = id
                 /\ \A j \in DOMAIN file[c] : file[c][j].id = id =>
                       /\ file[c][j].at <= file[c][i].at
                       /\ file[c][j].at = file[c][i].at => j <= i
BY StampsAre, LatestIs DEF LatestBy

LEMMA RecordTypes ==
    ASSUME FilesOK, ClockOK, RowsOK, NEW id, NEW fromFile \in BOOLEAN
    PROVE  /\ Record("members", id, fromFile) \in MemberRecords \cup {Nothing}
           /\ Record("sessions", id, fromFile) \in SessionRecords \cup {Nothing}
           /\ Record("memo", id, fromFile) \in MemoRecords \cup {Nothing}
           /\ LatestBy("agents", id) \in AgentRecords \cup {Nothing}
           /\ \A c \in {"members", "sessions", "memo"} :
                 Record(c, id, fromFile) # Nothing => Record(c, id, fromFile).id = id
           /\ LatestBy("agents", id) # Nothing => LatestBy("agents", id).id = id
<1>1. \A c \in Stamped :
         \/ LatestBy(c, id) = Nothing
         \/ \E i \in DOMAIN file[c] : LatestBy(c, id) = file[c][i] /\ file[c][i].id = id
  BY LatestByIs
<1>2. \A c \in Tables : Row(c, id) = Nothing \/ (Row(c, id) \in rows[c] /\ Row(c, id).id = id)
  BY RowIs
<1>3. /\ LatestBy("members", id) \in MemberRecords \cup {Nothing}
      /\ LatestBy("sessions", id) \in SessionRecords \cup {Nothing}
      /\ LatestBy("memo", id) \in MemoRecords \cup {Nothing}
      /\ LatestBy("agents", id) \in AgentRecords \cup {Nothing}
  BY <1>1 DEF FilesOK, Stamped, Tables
<1>4. /\ Row("members", id) \in MemberRecords \cup {Nothing}
      /\ Row("sessions", id) \in SessionRecords \cup {Nothing}
      /\ Row("memo", id) \in MemoRecords \cup {Nothing}
  BY <1>2 DEF RowsOK, Tables
<1> QED
  BY <1>1, <1>2, <1>3, <1>4 DEF Record, Tables, Stamped
-----------------------------------------------------------------------------
(* Each step, as it changes the locals of its request.                     *)

LEMMA TimeGoesOn ==
    ASSUME ClockOK, NEW t \in Now
    PROVE  t \in Int /\ clock <= t /\ t \in 0..MaxTime
BY StoresAssumption DEF ClockOK, Now

(* What a handler knows stays true while time goes on.                     *)
LEMMA ShapeKept ==
    ASSUME ClockOK, clock' \in Now \cup {clock}, mirrored' = mirrored,
           NEW q, NEW r, Shape(q, r)
    PROVE  Shape(q, r)'
<1>1. clock \in Int /\ clock' \in Int /\ clock <= clock'
  BY TimeGoesOn DEF ClockOK
<1>2. WorkspaceShape(q, r) => WorkspaceShape(q, r)'
  BY <1>1 DEF WorkspaceShape, WriteOf, NextOf
<1>3. RegistryShape(q, r) => RegistryShape(q, r)'
  <2>1. \A m \in AgentRecords : m.at \in Int
    BY DEF AgentRecords
  <2> QED
    BY <1>1, <2>1 DEF RegistryShape
<1>4. ActivationShape(q, r) => ActivationShape(q, r)'
  BY <1>1 DEF ActivationShape
<1> QED
  BY <1>2, <1>3, <1>4 DEF Shape

(* A request that knows of one more overlap is where it was.               *)
LEMMA ShapeMet ==
    ASSUME NEW q, NEW r, Handling(r), Shape(q, r), NEW met,
           NEW n, n = [r EXCEPT !.met = met]
    PROVE  Handling(n) /\ Shape(q, n) /\ n.met = met /\ n.after = r.after /\ n.since = r.since
           /\ \A f \in Locals \ {"met"} : n[f] = r[f]
<1>1. DOMAIN n = Locals /\ n.met = met /\ \A f \in Locals \ {"met"} : n[f] = r[f]
  BY DEF Handling, Locals
<1>2. /\ n.pc = r.pc /\ n.op = r.op /\ n.who = r.who /\ n.target = r.target /\ n.ask = r.ask
      /\ n.after = r.after /\ n.since = r.since /\ n.scope = r.scope
      /\ n.autoGrant = r.autoGrant /\ n.coll = r.coll /\ n.id = r.id /\ n.patch = r.patch
      /\ n.by = r.by /\ n.at = r.at /\ n.was = r.was /\ n.next = r.next /\ n.then = r.then
  BY <1>1 DEF Locals
<1>3. WorkspaceShape(q, r) => WorkspaceShape(q, n)
  BY <1>2 DEF WorkspaceShape, WriteOf, NextOf
<1>4. RegistryShape(q, r) => RegistryShape(q, n)
  BY <1>2 DEF RegistryShape
<1>5. ActivationShape(q, r) => ActivationShape(q, n)
  BY <1>2 DEF ActivationShape, EventType
<1> QED
  BY <1>1, <1>2, <1>3, <1>4, <1>5 DEF Shape, Handling

GoesWell(q, r) == Goes(q, r) /\ (Handling(r) => Shape(q, r)')

Comes(q, r) == Arrives(q, r) /\ Shape(q, r) /\ r.by = Nothing

LEMMA Coming ==
    ASSUME RequestsOK, NEW q \in Requests, NEW r, Handling(r), r.pc \in Arriving, Arrive(q, r),
           Shape(q, r), r.by = Nothing
    PROVE  \E n : Comes(q, n) /\ \A f \in Locals \ {"met", "after", "since"} : n[f] = r[f]
<1>1. PICK n : /\ Arrives(q, n)
               /\ n = [r EXCEPT !.met = Running, !.after = Over,
                                !.since = [c \in Deciding |-> Len(file[c])]]
  BY ArriveArrives
<1>2. \A f \in Locals \ {"met", "after", "since"} : n[f] = r[f]
  BY <1>1 DEF Handling, Locals
<1>3. /\ n.pc = r.pc /\ n.op = r.op /\ n.who = r.who /\ n.target = r.target /\ n.ask = r.ask
      /\ n.scope = r.scope
      /\ n.autoGrant = r.autoGrant /\ n.coll = r.coll /\ n.id = r.id /\ n.patch = r.patch
      /\ n.by = r.by /\ n.at = r.at /\ n.was = r.was /\ n.next = r.next /\ n.then = r.then
  BY <1>2 DEF Locals
<1>4. WorkspaceShape(q, r) => WorkspaceShape(q, n)
  BY <1>3 DEF WorkspaceShape, WriteOf, NextOf
<1>5. RegistryShape(q, r) => RegistryShape(q, n)
  BY <1>3 DEF RegistryShape
<1>6. ActivationShape(q, r) => ActivationShape(q, n)
  BY <1>3 DEF ActivationShape, EventType
<1> QED
  BY <1>1, <1>2, <1>3, <1>4, <1>5, <1>6 DEF Shape, Comes

LEMMA WorkspaceRequestComes ==
    ASSUME StoresInv, NEW q \in Requests, WorkspaceRequest(q)
    PROVE  \E n : Comes(q, n)
<1>1. \E op, who, target, ask, pc :
         /\ Arrive(q, Fresh(op, who, target, ask, pc))
         /\ op \in WorkspaceOps /\ who \in People /\ target \in Scopes
         /\ op \in {"edit", "export"} => target \in Sessions
         /\ op \in {"org", "assign"} => target \in Orgs
         /\ op = "member" => ask \in Patches
         /\ op = "assign" => ask \in Sessions
         /\ pc \in {"direct", "findOrg"}
         /\ pc = "direct" => op \in {"edit", "export", "member"} /\ target \in Sessions
         /\ pc = "findOrg" => target \in Orgs
  <2>1. CASE MemoRequest(q)
    BY <2>1 DEF MemoRequest, WorkspaceOps, Scopes
  <2>2. CASE MemberRequest(q)
    BY <2>2 DEF MemberRequest, WorkspaceOps, Scopes
  <2>3. CASE OrgRequest(q)
    BY <2>3 DEF OrgRequest, WorkspaceOps, Scopes
  <2>4. CASE AssignRequest(q)
    BY <2>4 DEF AssignRequest, WorkspaceOps, Scopes
  <2> QED
    BY <2>1, <2>2, <2>3, <2>4 DEF WorkspaceRequest
<1>2. PICK op, who, target, ask, pc :
         /\ Arrive(q, Fresh(op, who, target, ask, pc))
         /\ op \in WorkspaceOps /\ who \in People /\ target \in Scopes
         /\ op \in {"edit", "export"} => target \in Sessions
         /\ op \in {"org", "assign"} => target \in Orgs
         /\ op = "member" => ask \in Patches
         /\ op = "assign" => ask \in Sessions
         /\ pc \in {"direct", "findOrg"}
         /\ pc = "direct" => op \in {"edit", "export", "member"} /\ target \in Sessions
         /\ pc = "findOrg" => target \in Orgs
  BY <1>1
<1>3. PICK r : r = Fresh(op, who, target, ask, pc)
  OBVIOUS
<1>4. /\ Handling(r) /\ r.pc = pc /\ r.op = op /\ r.who = who /\ r.target = target
      /\ r.ask = ask /\ r.scope = target /\ r.autoGrant = FALSE /\ r.by = Nothing
  BY <1>2, <1>3 DEF Fresh, Handling, Locals, Stages
<1>5. WorkspaceShape(q, r)
  BY <1>2, <1>4 DEF WorkspaceShape, WriteStages
<1> QED
  BY <1>2, <1>3, <1>4, <1>5, Coming DEF StoresInv, Shape, Arriving

LEMMA RegistryRequestComes ==
    ASSUME StoresInv, NEW q \in Requests, RegistryRequest(q)
    PROVE  \E n : Comes(q, n)
<1>1. CASE TransitionRequest(q)
  <2>1. PICK a \in Agents, s \in RegistryStatuses :
            Arrive(q, Fresh("transition", Nothing, a, s, "readAgent"))
    BY <1>1 DEF TransitionRequest
  <2>2. PICK r : r = Fresh("transition", Nothing, a, s, "readAgent")
    OBVIOUS
  <2>3. /\ Handling(r) /\ r.pc = "readAgent" /\ r.op = "transition" /\ r.ask = s
        /\ r.then = "answered" /\ r.by = Nothing
    BY <2>2 DEF Fresh, Handling, Locals, Stages
  <2>4. RegistryShape(q, r)
    BY <2>3 DEF RegistryShape, RegistryOps
  <2> QED
    BY <2>1, <2>2, <2>3, <2>4, Coming DEF StoresInv, Shape, Arriving
<1>2. CASE RegisterRequest(q) \/ UpdateRequest(q)
  <2>1. PICK op, a, m, s :
            /\ op \in {"register", "update"} /\ m \in Manifests
            /\ s \in RegistryStatuses \cup {Nothing}
            /\ Arrive(q, [Fresh(op, Nothing, a, s, "readAgent") EXCEPT !.patch = m])
    <3>1. CASE RegisterRequest(q)
      BY <3>1 DEF RegisterRequest, ManifestRequest
    <3>2. CASE UpdateRequest(q)
      BY <3>2 DEF UpdateRequest, ManifestRequest
    <3> QED
      BY <1>2, <3>1, <3>2
  <2>2. PICK f : f = Fresh(op, Nothing, a, s, "readAgent")
    OBVIOUS
  <2>3. /\ Handling(f) /\ f.pc = "readAgent" /\ f.op = op /\ f.ask = s
        /\ f.then = "answered" /\ f.by = Nothing
    BY <2>2 DEF Fresh, Handling, Locals, Stages
  <2>4. PICK r : r = [f EXCEPT !.patch = m]
    OBVIOUS
  <2>5. /\ Handling(r) /\ r.pc = "readAgent" /\ r.op = op /\ r.ask = s /\ r.then = "answered"
        /\ r.patch = m /\ r.by = Nothing
    BY <2>3, <2>4 DEF Handling, Locals
  <2>6. RegistryShape(q, r)
    BY <2>1, <2>5 DEF RegistryShape, RegistryOps
  <2> QED
    BY <2>1, <2>2, <2>4, <2>5, <2>6, Coming DEF StoresInv, Shape, Arriving
<1> QED
  BY <1>1, <1>2 DEF RegistryRequest

LEMMA ActivationRequestComes ==
    ASSUME StoresInv, NEW q \in Requests, ActivationRequest(q) \/ FeedbackRequest(q)
    PROVE  \E n : Comes(q, n)
<1>1. PICK op, s, ask, pc :
         /\ op \in {"activation", "feedback"} /\ pc \in {"event", "feedback"}
         /\ Arrive(q, Fresh(op, Nothing, s, ask, pc))
         /\ pc = "feedback" => op = "feedback"
  <2>1. CASE ActivationRequest(q)
    BY <2>1 DEF ActivationRequest
  <2>2. CASE FeedbackRequest(q)
    BY <2>2 DEF FeedbackRequest
  <2> QED
    BY <2>1, <2>2
<1>2. PICK r : r = Fresh(op, Nothing, s, ask, pc)
  OBVIOUS
<1>3. Handling(r) /\ r.pc = pc /\ r.op = op /\ r.by = Nothing
  BY <1>1, <1>2 DEF Fresh, Handling, Locals, Stages
<1>4. ActivationShape(q, r)
  BY <1>1, <1>3 DEF ActivationShape
<1> QED
  BY <1>1, <1>2, <1>3, <1>4, Coming DEF StoresInv, Shape, Arriving

(* A handler at a stage of the workspace's serves the workspace.           *)
LEMMA InWorkspace ==
    ASSUME StoresInv, NEW q \in Requests,
           req[q].pc \in Stages \ {"readAgent", "event", "feedback", "append"}
    PROVE  q \in Running /\ Handling(req[q]) /\ WorkspaceShape(q, req[q])
<1>1. q \in Running /\ Handling(req[q])
  BY RequestIs DEF StoresInv
<1>2. Shape(q, req[q])
  BY <1>1 DEF StoresInv
<1> QED
  BY <1>1, <1>2 DEF Shape, RegistryShape, ActivationShape, Stages

LEMMA ClosedIsNotHandling == \A r : Closed(r) => ~Handling(r)
BY DEF Closed, Handling, Stages, Ended

LEMMA DirectMemberGoes ==
    ASSUME StoresInv, NEW q \in Requests, DirectMember(q)
    PROVE  \E r : GoesWell(q, r)
<1>1. q \in Running /\ Handling(req[q]) /\ WorkspaceShape(q, req[q])
  BY InWorkspace DEF DirectMember, Stages
<1>2. PICK pc \in {"ensure", "inherit"} : req' = [req EXCEPT ![q] = [req[q] EXCEPT !.pc = pc]]
  BY DEF DirectMember, Go
<1>3. PICK r : r = [req[q] EXCEPT !.pc = pc]
  OBVIOUS
<1>4. /\ Handling(r) /\ SameRequest(r, req[q]) /\ r.pc = pc
      /\ r.scope = req[q].scope /\ r.autoGrant = req[q].autoGrant
  BY <1>1, <1>2, <1>3 DEF Handling, SameRequest, SameAsk, Locals, Stages
<1>5. WorkspaceShape(q, r)'
  BY <1>1, <1>2, <1>4 DEF WorkspaceShape, DirectMember, SameRequest, SameAsk, WriteStages
<1> QED
  BY <1>1, <1>2, <1>3, <1>4, <1>5 DEF GoesWell, Goes, Shape

LEMMA SessionOrganizationGoes ==
    ASSUME StoresInv, NEW q \in Requests, SessionOrganization(q)
    PROVE  \E r : GoesWell(q, r)
<1>1. q \in Running /\ Handling(req[q]) /\ WorkspaceShape(q, req[q])
  BY InWorkspace DEF SessionOrganization, Stages
<1>2. PICK assignment \in SessionRecords \cup {Nothing} :
         req' = [req EXCEPT ![q] =
                   IF assignment # Nothing
                   THEN [req[q] EXCEPT !.pc = "ensure", !.scope = assignment.org]
                   ELSE [req[q] EXCEPT !.pc = "ensure", !.autoGrant = TRUE]]
  <2>1. \A f \in BOOLEAN : Record("sessions", req[q].scope, f) \in SessionRecords \cup {Nothing}
    BY RecordTypes DEF StoresInv
  <2> QED
    BY <2>1 DEF SessionOrganization, Go
<1>3. PICK r : r = IF assignment # Nothing
                   THEN [req[q] EXCEPT !.pc = "ensure", !.scope = assignment.org]
                   ELSE [req[q] EXCEPT !.pc = "ensure", !.autoGrant = TRUE]
  OBVIOUS
<1>4. /\ Handling(r) /\ SameRequest(r, req[q]) /\ r.pc = "ensure"
      /\ r.scope = IF assignment # Nothing THEN assignment.org ELSE req[q].scope
  BY <1>1, <1>3 DEF Handling, SameRequest, SameAsk, Locals, Stages
<1>5. r.scope \in Scopes
  BY <1>1, <1>4 DEF WorkspaceShape, SessionRecords, Scopes
<1>7. r.autoGrant => r.scope = r.target
  <2>1. req[q].autoGrant = FALSE /\ req[q].scope = req[q].target
    BY <1>1 DEF WorkspaceShape, SessionOrganization
  <2> QED
    BY <1>1, <1>3, <2>1 DEF Handling, Locals
<1>6. WorkspaceShape(q, r)'
  BY <1>1, <1>4, <1>5, <1>7 DEF WorkspaceShape, SessionOrganization, SameRequest, SameAsk, WriteStages
<1> QED
  BY <1>1, <1>2, <1>3, <1>4, <1>6 DEF GoesWell, Goes, Shape

(* Whoever is let in is to make a write of the kind that was asked.        *)
LEMMA AdmittedShape ==
    ASSUME NEW q, NEW r, Handling(r), WorkspaceShape(q, r), ClockOK, NEW t \in Now, clock' = t,
           NEW n, n = Admitted(r, t)
    PROVE  Handling(n) /\ SameRequest(n, r) /\ WorkspaceShape(q, n)'
<1>1. r.op \in WorkspaceOps
  BY DEF WorkspaceShape
<1>2. Handling(n) /\ SameRequest(n, r) /\ n.scope = r.scope /\ n.pc \in {"read", "assign"}
  BY <1>1, Admitting DEF WorkspaceOps
<1>3. t \in Int /\ clock' = t
  BY TimeGoesOn
<1>4. CASE r.op = "assign"
  <2>1. n.pc = "assign"
    BY <1>4 DEF Admitted, Handling, Locals
  <2> QED
    BY <1>2, <1>4, <2>1 DEF WorkspaceShape, SameRequest, SameAsk, WriteStages
<1>5. CASE r.op # "assign"
  <2>1. n.pc = "read" /\ n.at = t
    BY <1>1, <1>5, Writing DEF Admitted, WorkspaceOps
  <2>2. WriteOf(n)
    <3>1. CASE r.op \in {"edit", "export"}
      <4>1. n.coll = "memo" /\ n.id = r.target /\ n.by = r.who /\ n.then = "answered"
        BY <3>1, Writing DEF Admitted
      <4> QED
        BY <1>2, <3>1, <4>1 DEF WriteOf, SameRequest, SameAsk
    <3>2. CASE r.op = "member"
      <4>1. /\ n.coll = "members" /\ n.id = MemberId(r.target, r.ask.person) /\ n.patch = r.ask
            /\ n.by = r.who /\ n.then = "answered"
        BY <3>2, Writing DEF Admitted
      <4> QED
        BY <1>2, <3>2, <4>1 DEF WriteOf, SameRequest, SameAsk
    <3>3. CASE r.op = "org"
      <4>1. n.coll = "orgs" /\ n.id = r.target /\ n.by = r.who /\ n.then = "creator"
        BY <3>3, Writing DEF Admitted
      <4> QED
        BY <1>2, <3>3, <4>1 DEF WriteOf, SameRequest, SameAsk
    <3> QED
      BY <1>1, <1>5, <3>1, <3>2, <3>3 DEF WorkspaceOps
  <2>3. WriteOf(n)'
    BY <2>2 DEF WriteOf
  <2> QED
    BY <1>2, <1>3, <2>1, <2>3 DEF WorkspaceShape, SameRequest, SameAsk, WriteStages
<1> QED
  BY <1>2, <1>4, <1>5

(* A request that is refused is over.                                      *)
LEMMA EndingGoes ==
    ASSUME StoresInv, NEW q \in Requests, q \in Running, Handling(req[q]),
           NEW pc \in Ended, req' = [req EXCEPT ![q] = To(req[q], pc)]
    PROVE  \E r : GoesWell(q, r)
<1>1. PICK r : r = To(req[q], pc)
  OBVIOUS
<1>2. Closed(r) /\ SameAsk(r, req[q]) /\ ~Handling(r)
  BY <1>1, Ending, ClosedIsNotHandling
<1> QED
  BY <1>1, <1>2 DEF GoesWell, Goes

LEMMA GetOrganizationGoes ==
    ASSUME StoresInv, NEW q \in Requests, GetOrganization(q)
    PROVE  \E r : GoesWell(q, r)
<1>1. q \in Running /\ Handling(req[q]) /\ WorkspaceShape(q, req[q])
  BY InWorkspace DEF GetOrganization, Stages
<1>2. PICK t \in Now, found \in BOOLEAN :
         /\ clock' = t
         /\ Go(q, IF found
                  THEN [req[q] EXCEPT !.pc = "ensure", !.autoGrant = TRUE]
                  ELSE IF req[q].op = "org" THEN Admitted(req[q], t)
                  ELSE To(req[q], "refused"))
  BY DEF GetOrganization
<1>3. CASE found
  <2>1. PICK r : r = [req[q] EXCEPT !.pc = "ensure", !.autoGrant = TRUE]
    OBVIOUS
  <2>2. /\ Handling(r) /\ SameRequest(r, req[q]) /\ r.pc = "ensure" /\ r.scope = req[q].scope
    BY <1>1, <2>1 DEF Handling, SameRequest, SameAsk, Locals, Stages
  <2>3. WorkspaceShape(q, r)'
    BY <1>1, <2>2 DEF WorkspaceShape, GetOrganization, SameRequest, SameAsk, WriteStages
  <2> QED
    BY <1>1, <1>2, <1>3, <2>1, <2>2, <2>3 DEF GoesWell, Goes, Go, Shape
<1>4. CASE ~found /\ req[q].op = "org"
  BY <1>1, <1>2, <1>4, AdmittedShape DEF GoesWell, Goes, Go, Shape, StoresInv
<1>5. CASE ~found /\ req[q].op # "org"
  BY <1>1, <1>2, <1>5, EndingGoes DEF Go, Ended
<1> QED
  BY <1>3, <1>4, <1>5

(* The first signed writer, and who creates an organization, write a       *)
(* membership of their own.                                                *)
LEMMA GrantingShape ==
    ASSUME NEW q, NEW r, Handling(r), WorkspaceShape(q, r), ClockOK, NEW t \in Now, clock' = t,
           NEW n,
           \/ /\ r.scope = r.target
              /\ n = Write(r, "members", MemberId(r.scope, r.who), Patch(r.who, "owner"),
                           "first-signed-writer", t, "admitted")
           \/ /\ r.op = "org"
              /\ n = Write(r, "members", MemberId(r.target, r.who), Patch(r.who, "owner"),
                           "organization-creator", t, "answered")
    PROVE  Handling(n) /\ SameRequest(n, r) /\ n.pc = "read" /\ WorkspaceShape(q, n)'
<1>1. /\ Handling(n) /\ SameRequest(n, r) /\ n.scope = r.scope /\ n.pc = "read" /\ n.at = t
  BY Writing
<1>2. t \in Int /\ clock' = t
  BY TimeGoesOn
<1>3. WriteOf(n)
  <2>1. CASE /\ r.scope = r.target
             /\ n = Write(r, "members", MemberId(r.scope, r.who), Patch(r.who, "owner"),
                          "first-signed-writer", t, "admitted")
    <3>1. /\ n.coll = "members" /\ n.id = MemberId(r.scope, r.who)
          /\ n.patch = Patch(r.who, "owner") /\ n.by = "first-signed-writer" /\ n.then = "admitted"
      BY <2>1, Writing
    <3> QED
      BY <1>1, <2>1, <3>1 DEF WriteOf, SameRequest, SameAsk
  <2>2. CASE /\ r.op = "org"
             /\ n = Write(r, "members", MemberId(r.target, r.who), Patch(r.who, "owner"),
                          "organization-creator", t, "answered")
    <3>1. /\ n.coll = "members" /\ n.id = MemberId(r.target, r.who)
          /\ n.patch = Patch(r.who, "owner") /\ n.by = "organization-creator"
          /\ n.then = "answered"
      BY <2>2, Writing
    <3> QED
      BY <1>1, <2>2, <3>1 DEF WriteOf, SameRequest, SameAsk
  <2> QED
    BY <2>1, <2>2
<1>4. WriteOf(n)'
  BY <1>3 DEF WriteOf
<1> QED
  BY <1>1, <1>2, <1>4 DEF WorkspaceShape, SameRequest, SameAsk, WriteStages

LEMMA EnsureGoes ==
    ASSUME StoresInv, NEW q \in Requests, Ensure(q)
    PROVE  \E r : GoesWell(q, r)
<1>1. q \in Running /\ Handling(req[q]) /\ WorkspaceShape(q, req[q])
  BY InWorkspace DEF Ensure, Stages
<1>2. PICK t \in Now :
         /\ clock' = t
         /\ \/ /\ req[q].scope = req[q].target
               /\ Go(q, Write(req[q], "members", MemberId(req[q].scope, req[q].who),
                              Patch(req[q].who, "owner"), "first-signed-writer", t, "admitted"))
            \/ Go(q, Admitted(req[q], t))
            \/ Go(q, To(req[q], "refused"))
  BY <1>1 DEF Ensure, WorkspaceShape
<1>3. CASE /\ req[q].scope = req[q].target
           /\ Go(q, Write(req[q], "members", MemberId(req[q].scope, req[q].who),
                          Patch(req[q].who, "owner"), "first-signed-writer", t, "admitted"))
  BY <1>1, <1>2, <1>3, GrantingShape DEF GoesWell, Goes, Go, Shape, StoresInv
<1>4. CASE Go(q, Admitted(req[q], t))
  BY <1>1, <1>2, <1>4, AdmittedShape DEF GoesWell, Goes, Go, Shape, StoresInv
<1>5. CASE Go(q, To(req[q], "refused"))
  BY <1>1, <1>2, <1>5, EndingGoes DEF Go, Ended
<1> QED
  BY <1>2, <1>3, <1>4, <1>5

LEMMA FirstOwnerInGoes ==
    ASSUME StoresInv, NEW q \in Requests, FirstOwnerIn(q)
    PROVE  \E r : GoesWell(q, r)
<1>1. q \in Running /\ Handling(req[q]) /\ WorkspaceShape(q, req[q])
  BY InWorkspace DEF FirstOwnerIn, Stages
<1>2. PICK t \in Now : clock' = t /\ Go(q, Admitted(req[q], t))
  BY DEF FirstOwnerIn
<1> QED
  BY <1>1, <1>2, AdmittedShape DEF GoesWell, Goes, Go, Shape, StoresInv

LEMMA GrantCreatorGoes ==
    ASSUME StoresInv, NEW q \in Requests, GrantCreator(q)
    PROVE  \E r : GoesWell(q, r)
<1>1. q \in Running /\ Handling(req[q]) /\ WorkspaceShape(q, req[q]) /\ req[q].op = "org"
  BY InWorkspace DEF GrantCreator, Stages, WorkspaceShape
<1>2. PICK t \in Now :
         /\ clock' = t
         /\ Go(q, Write(req[q], "members", MemberId(req[q].target, req[q].who),
                        Patch(req[q].who, "owner"), "organization-creator", t, "answered"))
  BY DEF GrantCreator
<1> QED
  BY <1>1, <1>2, GrantingShape DEF GoesWell, Goes, Go, Shape, StoresInv

LEMMA AssignSessionGoes ==
    ASSUME StoresInv, NEW q \in Requests, AssignSession(q)
    PROVE  \E r : GoesWell(q, r)
<1>1. q \in Running /\ Handling(req[q]) /\ WorkspaceShape(q, req[q]) /\ req[q].op = "assign"
  BY InWorkspace DEF AssignSession, Stages, WorkspaceShape
<1>2. PICK t \in Now :
         /\ clock' = t
         /\ \/ Go(q, To(req[q], "refused"))
            \/ Go(q, Write(req[q], "sessions", req[q].ask, req[q].target, req[q].who, t, "answered"))
  BY DEF AssignSession
<1>3. CASE Go(q, To(req[q], "refused"))
  BY <1>1, <1>2, <1>3, EndingGoes DEF Go, Ended
<1>4. CASE Go(q, Write(req[q], "sessions", req[q].ask, req[q].target, req[q].who, t, "answered"))
  <2>1. PICK n : n = Write(req[q], "sessions", req[q].ask, req[q].target, req[q].who, t, "answered")
    OBVIOUS
  <2>2. /\ Handling(n) /\ SameRequest(n, req[q]) /\ n.scope = req[q].scope /\ n.pc = "read"
        /\ n.at = t /\ n.coll = "sessions" /\ n.id = req[q].ask /\ n.patch = req[q].target
        /\ n.by = req[q].who /\ n.then = "answered"
    BY <1>1, <2>1, Writing
  <2>3. t \in Int
    BY TimeGoesOn DEF StoresInv
  <2>4. WriteOf(n)'
    BY <1>1, <2>2 DEF WriteOf, SameRequest, SameAsk
  <2>5. WorkspaceShape(q, n)'
    BY <1>1, <1>2, <2>2, <2>3, <2>4 DEF WorkspaceShape, SameRequest, SameAsk, WriteStages
  <2> QED
    BY <1>1, <1>4, <2>1, <2>2, <2>5 DEF GoesWell, Goes, Go, Shape
<1> QED
  BY <1>2, <1>3, <1>4
-----------------------------------------------------------------------------
(* The records that are made.                                              *)

LEMMA NextMemberIs ==
    ASSUME NEW q \in Requests, NEW r, WorkspaceShape(q, r), WriteOf(r), r.coll = "members",
           r.at \in Int, NEW current \in MemberRecords \cup {Nothing},
           NEW next, next = NextMember(q, r, current)
    PROVE  /\ next \in MemberRecords /\ next.id = r.id /\ next.at = r.at /\ next.by = r.by
           /\ next.req = q
           /\ r.patch.status # Nothing => next.status = r.patch.status
           /\ r.patch.status = Nothing =>
                 next.status = IF current # Nothing THEN current.status ELSE "active"
<1>1. r.patch.role \in Roles /\ r.patch.status \in MemberStatuses \cup {Nothing}
  BY PatchesAssumption
     DEF WriteOf, WorkspaceShape, Patch, Roles, EditableRoles
<1>2. r.id \in [scope : Scopes, person : People] /\ r.by \in Signers
  BY PatchesAssumption DEF WriteOf, WorkspaceShape, MemberId, Signers, Scopes
<1>3. next.status \in MemberStatuses
  BY <1>1 DEF NextMember, MemberRecords, MemberStatuses
<1>4. next \in MemberRecords
  BY <1>1, <1>2, <1>3 DEF NextMember, MemberRecords, Scopes
<1> QED
  BY <1>4 DEF NextMember

LEMMA NextMemoIs ==
    ASSUME NEW q \in Requests, NEW r, WorkspaceShape(q, r), WriteOf(r), r.coll = "memo",
           r.at \in Int, NEW current \in MemoRecords \cup {Nothing},
           NEW next, next = NextMemo(q, r, current)
    PROVE  /\ next \in MemoRecords /\ next.id = r.id /\ next.at = r.at
           /\ r.op = "export" => q \in next.exports
           /\ current # Nothing => current.exports \subseteq next.exports
<1>1. r.id \in Sessions /\ r.by \in People
  BY DEF WriteOf, WorkspaceShape
<1>2. next.exports \in SUBSET Requests
  BY DEF NextMemo, MemoRecords
<1>3. next \in MemoRecords
  BY <1>1, <1>2 DEF NextMemo, MemoRecords
<1> QED
  BY <1>3 DEF NextMemo

LEMMA NextSessionIs ==
    ASSUME NEW q \in Requests, NEW r, WorkspaceShape(q, r), WriteOf(r), r.coll = "sessions",
           r.at \in Int,
           NEW current, NEW next, next = NextRecord(q, r, current)
    PROVE  /\ next \in SessionRecords /\ next.id = r.id /\ next.at = r.at /\ next.req = q
           /\ next.org = r.patch
<1>1. r.id \in Sessions /\ r.by \in People /\ r.patch \in Orgs
  BY DEF WriteOf, WorkspaceShape
<1>2. next = [id |-> r.id, at |-> r.at, by |-> r.by, req |-> q, org |-> r.patch]
  BY DEF NextRecord
<1> QED
  BY <1>1, <1>2 DEF SessionRecords

Reads(q, current) ==
    req' = [req EXCEPT ![q] = [req[q] EXCEPT !.pc = "append", !.was = current,
                                             !.next = NextRecord(q, req[q], current)]]

LEMMA ReadsRecord ==
    ASSUME StoresInv, NEW q \in Requests, ReadWorkspace(q)
    PROVE  \E fromFile \in BOOLEAN : /\ Reads(q, Record(req[q].coll, req[q].id, fromFile))
                                     /\ ReadRecords(req[q].coll, fromFile)
BY DEF ReadWorkspace, Go, Reads

LEMMA ReadWorkspaceGoes ==
    ASSUME StoresInv, NEW q \in Requests, ReadWorkspace(q)
    PROVE  \E r : GoesWell(q, r)
<1>1. /\ q \in Running /\ Handling(req[q]) /\ WorkspaceShape(q, req[q]) /\ req[q].pc = "read"
      /\ WriteOf(req[q]) /\ req[q].at \in Int /\ clock' = clock /\ mirrored' = mirrored
  BY InWorkspace DEF ReadWorkspace, Go, Stages, WorkspaceShape, WriteStages
<1>2. PICK fromFile \in BOOLEAN : Reads(q, Record(req[q].coll, req[q].id, fromFile))
  BY ReadsRecord
<1>3. PICK current : current = Record(req[q].coll, req[q].id, fromFile)
  OBVIOUS
<1>4. PICK next : next = NextRecord(q, req[q], current)
  OBVIOUS
<1>5. PICK n : n = [req[q] EXCEPT !.pc = "append", !.was = current, !.next = next]
  OBVIOUS
<1>6. /\ Handling(n) /\ SameRequest(n, req[q])
      /\ n.pc = "append" /\ n.was = current /\ n.next = next
      /\ n.scope = req[q].scope /\ n.coll = req[q].coll /\ n.id = req[q].id
      /\ n.patch = req[q].patch
      /\ n.by = req[q].by /\ n.at = req[q].at /\ n.then = req[q].then
  BY <1>1, <1>5 DEF Handling, SameRequest, SameAsk, Locals, Stages
<1>7. WriteOf(n)
  BY <1>1, <1>6 DEF WriteOf, SameRequest, SameAsk
<1>8. NextOf(q, n)
  <2>1. CASE req[q].coll = "members"
    <3>1. current \in MemberRecords \cup {Nothing} /\ next = NextMember(q, req[q], current)
      BY <1>3, <1>4, <2>1, RecordTypes DEF StoresInv, NextRecord
    <3> QED
      BY <1>1, <1>6, <2>1, <3>1, NextMemberIs DEF NextOf
  <2>2. CASE req[q].coll = "memo"
    <3>1. current \in MemoRecords \cup {Nothing} /\ next = NextMemo(q, req[q], current)
      BY <1>3, <1>4, <2>2, RecordTypes DEF StoresInv, NextRecord
    <3> QED
      BY <1>1, <1>6, <2>2, <3>1, NextMemoIs DEF NextOf, SameRequest, SameAsk
  <2>3. CASE req[q].coll = "sessions"
    BY <1>1, <1>4, <1>6, <2>3, NextSessionIs DEF NextOf
  <2>4. CASE req[q].coll = "orgs"
    <3>1. next = [id |-> req[q].id, at |-> req[q].at]
      BY <1>4, <2>4 DEF NextRecord
    <3> QED
      BY <1>1, <1>6, <2>4, <3>1 DEF NextOf, OrgRecords, WriteOf, WorkspaceShape
  <2> QED
    BY <1>1, <2>1, <2>2, <2>3, <2>4 DEF WriteOf
<1>9. WorkspaceShape(q, n)
  BY <1>1, <1>6, <1>7, <1>8 DEF WorkspaceShape, WriteStages, SameRequest, SameAsk
<1>10. WorkspaceShape(q, n)'
  BY <1>1, <1>9 DEF WorkspaceShape, WriteOf, NextOf
<1> QED
  BY <1>1, <1>2, <1>3, <1>4, <1>5, <1>6, <1>10 DEF GoesWell, Goes, Reads, Shape
-----------------------------------------------------------------------------
(* Appending and mirroring.                                                *)

LEMMA MovedIs ==
    ASSUME NEW r, Handling(r), NEW pc \in Stages, NEW n, n = To(r, pc)
    PROVE  /\ Handling(n) /\ SameRequest(n, r) /\ n.pc = pc
           /\ n.scope = r.scope /\ n.autoGrant = r.autoGrant
           /\ n.coll = r.coll /\ n.id = r.id /\ n.patch = r.patch
           /\ n.by = r.by /\ n.at = r.at /\ n.was = r.was /\ n.next = r.next /\ n.then = r.then
<1>1. n = [r EXCEPT !.pc = pc]
  BY Moving
<1> QED
  BY <1>1 DEF Handling, SameRequest, SameAsk, Locals, Stages

(* From a write a request goes on to its audit, its row, or further.       *)
LEMMA MoveGoes ==
    ASSUME StoresInv, NEW q \in Requests, q \in Running, Handling(req[q]),
           WorkspaceShape(q, req[q]), req[q].pc \in WriteStages \ {"read"},
           UNCHANGED <<clock, mirrored>>,
           NEW pc, req' = [req EXCEPT ![q] = To(req[q], pc)],
           \/ pc = "audit" /\ req[q].coll = "members"
           \/ pc = "mirror" /\ mirrored /\ req[q].coll \in Tables
           \/ pc = req[q].then \/ pc = "refused"
    PROVE  \E r : GoesWell(q, r)
<1>1. req[q].then \in {"admitted", "answered", "creator"}
      /\ (req[q].then = "creator" => req[q].op = "org")
  BY DEF WorkspaceShape, WriteStages, WriteOf
<1>2. CASE pc \in Ended
  BY <1>2, EndingGoes
<1>3. CASE pc \notin Ended
  <2>1. pc \in {"audit", "mirror", "admitted", "creator"}
    BY <1>1, <1>3 DEF Ended
  <2>2. PICK n : n = To(req[q], pc)
    OBVIOUS
  <2>3. /\ Handling(n) /\ SameRequest(n, req[q]) /\ n.pc = pc
        /\ n.scope = req[q].scope /\ n.autoGrant = req[q].autoGrant
        /\ n.coll = req[q].coll /\ n.id = req[q].id /\ n.patch = req[q].patch
        /\ n.by = req[q].by /\ n.at = req[q].at /\ n.was = req[q].was
        /\ n.next = req[q].next /\ n.then = req[q].then
    BY <2>1, <2>2, MovedIs DEF Stages
  <2>4. /\ WriteOf(req[q]) /\ NextOf(q, req[q]) /\ req[q].at \in Int /\ req[q].at <= clock
    BY DEF WorkspaceShape, WriteStages
  <2>5. WriteOf(n) /\ NextOf(q, n)
    BY <2>3, <2>4 DEF WriteOf, NextOf, SameRequest, SameAsk
  <2>6. WorkspaceShape(q, n)
    BY <1>1, <2>1, <2>3, <2>4, <2>5
       DEF WorkspaceShape, SameRequest, SameAsk, WriteStages, Ended
  <2>7. Shape(q, n)'
    BY <2>6, ShapeKept DEF Shape, StoresInv
  <2> QED
    BY <2>2, <2>3, <2>7 DEF GoesWell, Goes
<1> QED
  BY <1>2, <1>3

(* An append adds a record to the log of its collection, or throws.        *)
Appends(q, c, m, pc) ==
    /\ file' = [file EXCEPT ![c] = Append(@, m)]
    /\ req' = [req EXCEPT ![q] = To(req[q], pc)]
    /\ faults' = faults

Throws(q) ==
    /\ faults' = faults + 1 /\ file' = file
    /\ req' = [req EXCEPT ![q] = To(req[q], "refused")]

LEMMA AppendingIs ==
    ASSUME NEW q, NEW c, NEW m, NEW pc, AppendFile(q, c, m, pc)
    PROVE  Appends(q, c, m, pc) \/ Throws(q)
BY DEF AppendFile, Appends, Throws

LEMMA AppendAuditGoes ==
    ASSUME StoresInv, NEW q \in Requests, AppendAudit(q)
    PROVE  \E r : GoesWell(q, r)
<1>1. /\ q \in Running /\ Handling(req[q]) /\ WorkspaceShape(q, req[q])
      /\ req[q].pc = "audit" /\ req[q].coll = "members"
      /\ UNCHANGED <<clock, mirrored>>
  BY InWorkspace DEF AppendAudit, Stages, WorkspaceShape
<1>2. PICK pc : /\ req' = [req EXCEPT ![q] = To(req[q], pc)]
                /\ \/ pc = "mirror" /\ mirrored
                   \/ pc = req[q].then \/ pc = "refused"
  BY AppendingIs DEF AppendAudit, Appends, Throws
<1> QED
  BY <1>1, <1>2, MoveGoes DEF Tables, WriteStages

LEMMA MirrorRecordGoes ==
    ASSUME StoresInv, NEW q \in Requests, MirrorRecord(q)
    PROVE  \E r : GoesWell(q, r)
<1>1. /\ q \in Running /\ Handling(req[q]) /\ WorkspaceShape(q, req[q]) /\ req[q].pc = "mirror"
      /\ UNCHANGED <<clock, mirrored>>
  BY InWorkspace DEF MirrorRecord, Stages
<1>2. req' = [req EXCEPT ![q] = To(req[q], req[q].then)]
  BY DEF MirrorRecord
<1> QED
  BY <1>1, <1>2, MoveGoes DEF WriteStages

LEMMA AppendRecordGoes ==
    ASSUME StoresInv, NEW q \in Requests, AppendRecord(q)
    PROVE  \E r : GoesWell(q, r)
<1>1. /\ q \in Running /\ Handling(req[q]) /\ Shape(q, req[q]) /\ req[q].pc = "append"
      /\ UNCHANGED <<clock, mirrored>>
  BY RequestIs DEF StoresInv, AppendRecord, Stages
<1>2. PICK pc : /\ req' = [req EXCEPT ![q] = To(req[q], pc)]
                /\ \/ pc = "refused"
                   \/ /\ req[q].coll = "members" /\ pc = "audit"
                   \/ /\ mirrored /\ req[q].coll \in Tables /\ pc = "mirror"
                   \/ pc = req[q].then /\ req[q].coll # "members"
  BY AppendingIs DEF AppendRecord, Appends, Throws
<1>3. CASE WorkspaceShape(q, req[q])
  BY <1>1, <1>2, <1>3, MoveGoes DEF WriteStages
<1>4. CASE RegistryShape(q, req[q])
  <2>1. pc \in Ended
    BY <1>1, <1>2, <1>4 DEF RegistryShape, Tables, Ended
  <2> QED
    BY <1>1, <1>2, <2>1, EndingGoes
<1>5. CASE ActivationShape(q, req[q])
  <2>1. CASE pc \in Ended
    BY <1>1, <1>2, <2>1, EndingGoes
  <2>2. CASE pc \notin Ended
    <3>1. pc = "event" /\ req[q].op = "feedback"
      BY <1>1, <1>2, <1>5, <2>2 DEF ActivationShape, Tables, Ended
    <3>2. PICK n : n = To(req[q], "event")
      OBVIOUS
    <3>3. Handling(n) /\ SameRequest(n, req[q]) /\ n.pc = "event"
      BY <1>1, <3>2, MovedIs DEF Stages
    <3>4. ActivationShape(q, n)'
      BY <1>1, <3>1, <3>3 DEF ActivationShape, SameRequest, SameAsk
    <3> QED
      BY <1>1, <1>2, <3>1, <3>2, <3>3, <3>4 DEF GoesWell, Goes, Shape
  <2> QED
    BY <2>1, <2>2
<1> QED
  BY <1>1, <1>3, <1>4, <1>5 DEF Shape

LEMMA ReadAgentGoes ==
    ASSUME StoresInv, NEW q \in Requests, ReadAgent(q)
    PROVE  \E r : GoesWell(q, r)
<1>1. /\ q \in Running /\ Handling(req[q]) /\ RegistryShape(q, req[q]) /\ req[q].pc = "readAgent"
  BY RequestIs DEF StoresInv, ReadAgent, Stages, Shape, WorkspaceShape, ActivationShape
<1>2. PICK existing : existing = LatestBy("agents", req[q].target)
  OBVIOUS
<1>3. /\ existing \in AgentRecords \cup {Nothing}
      /\ existing # Nothing => existing.id = req[q].target
  BY <1>2, RecordTypes DEF StoresInv
<1>4. PICK t \in Now :
         /\ clock' = t
         /\ \/ \E next :
                  /\ Go(q, [req[q] EXCEPT !.pc = "append", !.coll = "agents",
                                !.id = req[q].target, !.was = existing, !.next = next])
                  /\ \/ /\ req[q].op # "transition" /\ Updatable(req[q])
                        /\ next = Registered(req[q], existing, t)
                     \/ /\ req[q].op = "transition" /\ existing # Nothing
                        /\ next = [existing EXCEPT !.status = req[q].ask, !.at = t]
            \/ Go(q, To(req[q], "refused"))
  BY <1>1, <1>2 DEF ReadAgent, RegistryShape, RegistryOps
<1>t. clock' = t
  BY <1>4
<1>5. CASE Go(q, To(req[q], "refused"))
  BY <1>1, <1>5, EndingGoes DEF Go, Ended
<1>6. ASSUME NEW next,
             Go(q, [req[q] EXCEPT !.pc = "append", !.coll = "agents",
                        !.id = req[q].target, !.was = existing, !.next = next]),
             \/ /\ req[q].op # "transition" /\ Updatable(req[q])
                /\ next = Registered(req[q], existing, t)
             \/ /\ req[q].op = "transition" /\ existing # Nothing
                /\ next = [existing EXCEPT !.status = req[q].ask, !.at = t]
      PROVE  \E r : GoesWell(q, r)
  <2>1. PICK n : n = [req[q] EXCEPT !.pc = "append", !.coll = "agents",
                        !.id = req[q].target, !.was = existing, !.next = next]
    OBVIOUS
  <2>2. /\ Handling(n) /\ SameRequest(n, req[q]) /\ n.pc = "append" /\ n.coll = "agents"
        /\ n.next = next /\ n.then = req[q].then /\ n.patch = req[q].patch
    BY <1>1, <2>1 DEF Handling, SameRequest, SameAsk, Locals, Stages
  <2>t. t \in Int
    BY TimeGoesOn DEF StoresInv
  <2>3. t \in Int /\ t <= clock'
    BY <1>t, <2>t
  <2>4. /\ next \in AgentRecords /\ next.id = req[q].target /\ next.at = t
        /\ req[q].ask # Nothing => next.status = req[q].ask
    <3>1. CASE req[q].op # "transition" /\ Updatable(req[q])
               /\ next = Registered(req[q], existing, t)
      <4>1. /\ req[q].patch \in Manifests /\ req[q].patch.id = req[q].target
            /\ req[q].patch.capabilities \in SUBSET KNOWN_CAPABILITIES
        BY <1>1, <3>1 DEF RegistryShape, Updatable, validateManifest
      <4>2. req[q].target \in Agents \cup {m.id : m \in Manifests}
        BY <4>1
      <4>3. /\ next.status \in RegistryStatuses /\ next.since \in Int
            /\ next.status = IF req[q].ask # Nothing THEN req[q].ask
                             ELSE IF existing # Nothing THEN existing.status ELSE "pending"
        BY <1>1, <1>3, <2>3, <3>1
           DEF Registered, RegistryShape, AgentRecords, RegistryStatuses
      <4>4. /\ next = [id |-> req[q].target, at |-> t, capabilities |-> req[q].patch.capabilities,
                       status |-> next.status, since |-> next.since]
        BY <3>1 DEF Registered
      <4> QED
        BY <2>3, <4>1, <4>2, <4>3, <4>4 DEF AgentRecords
    <3>2. CASE req[q].op = "transition" /\ existing # Nothing
               /\ next = [existing EXCEPT !.status = req[q].ask, !.at = t]
      <4>1. existing \in AgentRecords /\ existing.id = req[q].target /\ req[q].ask \in RegistryStatuses
        BY <1>1, <1>3, <3>2 DEF RegistryShape
      <4> QED
        BY <2>3, <3>2, <4>1 DEF AgentRecords
    <3> QED
      BY <1>6, <3>1, <3>2
  <2>5. next.at <= clock'
    BY <2>3, <2>4
  <2>6. RegistryShape(q, n)'
    BY <1>1, <2>2, <2>4, <2>5 DEF RegistryShape, SameRequest, SameAsk
  <2> QED
    BY <1>1, <1>6, <2>1, <2>2, <2>6 DEF GoesWell, Goes, Go, Shape
<1> QED
  BY <1>4, <1>5, <1>6

LEMMA AppendedIs ==
    ASSUME NEW r, Handling(r), NEW c, NEW m, NEW then, NEW n, n = Appended(r, c, m, then)
    PROVE  /\ Handling(n) /\ SameRequest(n, r) /\ n.pc = "append"
           /\ n.coll = c /\ n.next = m /\ n.then = then
BY DEF Appended, Handling, SameRequest, SameAsk, Locals, Stages

LEMMA RecordFeedbackGoes ==
    ASSUME StoresInv, NEW q \in Requests, RecordFeedback(q)
    PROVE  \E r : GoesWell(q, r)
<1>1. /\ q \in Running /\ Handling(req[q]) /\ ActivationShape(q, req[q]) /\ req[q].op = "feedback"
  BY RequestIs
     DEF StoresInv, RecordFeedback, Stages, Shape, WorkspaceShape, RegistryShape, ActivationShape
<1>2. PICK t \in Now :
         /\ clock' = t
         /\ \/ Acceptable(req[q])
               /\ Go(q, Appended(req[q], "feedback",
                       [id |-> q, at |-> t, about |-> req[q].target, rating |-> req[q].ask], "event"))
            \/ Go(q, To(req[q], "refused"))
  BY DEF RecordFeedback, AfterFeedback
<1>3. CASE Go(q, To(req[q], "refused"))
  BY <1>1, <1>3, EndingGoes DEF Go, Ended
<1>4. CASE Acceptable(req[q])
           /\ Go(q, Appended(req[q], "feedback",
                   [id |-> q, at |-> t, about |-> req[q].target, rating |-> req[q].ask], "event"))
  <2>1. PICK m : m = [id |-> q, at |-> t, about |-> req[q].target, rating |-> req[q].ask]
    OBVIOUS
  <2>2. PICK n : n = Appended(req[q], "feedback", m, "event")
    OBVIOUS
  <2>3. /\ Handling(n) /\ SameRequest(n, req[q]) /\ n.pc = "append"
        /\ n.coll = "feedback" /\ n.next = m /\ n.then = "event"
    BY <1>1, <2>2, AppendedIs
  <2>4. t \in Int /\ t <= clock' /\ req[q].ask \in 1..5
    BY <1>2, <1>4, TimeGoesOn DEF StoresInv, Acceptable
  <2>5. ActivationShape(q, n)'
    BY <1>1, <2>1, <2>3, <2>4 DEF ActivationShape, SameRequest, SameAsk
  <2> QED
    BY <1>1, <1>4, <2>1, <2>2, <2>3, <2>5 DEF GoesWell, Goes, Go, Shape
<1> QED
  BY <1>2, <1>3, <1>4

LEMMA RecordEventGoes ==
    ASSUME StoresInv, NEW q \in Requests, RecordEvent(q)
    PROVE  \E r : GoesWell(q, r)
<1>1. /\ q \in Running /\ Handling(req[q]) /\ ActivationShape(q, req[q])
  BY RequestIs
     DEF StoresInv, RecordEvent, Stages, Shape, WorkspaceShape, RegistryShape, ActivationShape
<1>2. PICK t \in Now :
         /\ clock' = t
         /\ \/ Go(q, Appended(req[q], "events",
                       Event(q, EventType(req[q]), req[q].target, t), "answered"))
            \/ Go(q, To(req[q], "refused"))
  BY DEF RecordEvent
<1>3. CASE Go(q, To(req[q], "refused"))
  BY <1>1, <1>3, EndingGoes DEF Go, Ended
<1>4. CASE Go(q, Appended(req[q], "events",
                   Event(q, EventType(req[q]), req[q].target, t), "answered"))
  <2>1. PICK m : m = Event(q, EventType(req[q]), req[q].target, t)
    OBVIOUS
  <2>2. PICK n : n = Appended(req[q], "events", m, "answered")
    OBVIOUS
  <2>3. /\ Handling(n) /\ SameRequest(n, req[q]) /\ n.pc = "append"
        /\ n.coll = "events" /\ n.next = m /\ n.then = "answered"
    BY <1>1, <2>2, AppendedIs
  <2>4. t \in Int /\ t <= clock'
    BY <1>2, TimeGoesOn DEF StoresInv
  <2>5. ActivationShape(q, n)'
    BY <1>1, <2>1, <2>3, <2>4 DEF ActivationShape, SameRequest, SameAsk, Event, EventType
  <2> QED
    BY <1>1, <1>4, <2>1, <2>2, <2>3, <2>5 DEF GoesWell, Goes, Go, Shape
<1> QED
  BY <1>2, <1>3, <1>4
-----------------------------------------------------------------------------
(* Who runs and who is over, from one step to the next.                    *)

LEMMA PlacesGoing ==
    ASSUME RequestsOK, NEW q \in Requests, NEW r, Goes(q, r)
    PROVE  /\ DOMAIN req' = Requests /\ req'[q] = r
           /\ \A p \in Requests : p # q => req'[p] = req[p]
           /\ Handling(r) => Running' = Running /\ Over' = Over
           /\ Closed(r) => Running' = Running \ {q} /\ Over' = Over \cup {q}
           /\ Handling(r) \/ Closed(r)
           /\ r.met = req[q].met /\ r.after = req[q].after /\ SameAsk(r, req[q])
<1>1. /\ DOMAIN req' = Requests /\ req'[q] = r
      /\ \A p \in Requests : p # q => req'[p] = req[p]
  BY DEF Goes, RequestsOK
<1>2. q \in Running /\ req[q].pc \in Stages /\ q \notin Over
  BY RequestIs DEF Goes, Over, Ended, Stages
<1>3. ASSUME Handling(r) PROVE Running' = Running /\ Over' = Over
  <2>1. r.pc \notin Ended \cup {"idle"}
    BY <1>3 DEF Handling, Stages, Ended
  <2> QED
    BY <1>1, <1>2, <2>1 DEF Running, Over
<1>4. ASSUME Closed(r) PROVE Running' = Running \ {q} /\ Over' = Over \cup {q}
  <2>1. r.pc \in Ended
    BY <1>4 DEF Closed
  <2> QED
    BY <1>1, <1>2, <2>1 DEF Running, Over
<1> QED
  BY <1>1, <1>3, <1>4 DEF Goes, SameRequest, SameAsk

LEMMA PlacesArriving ==
    ASSUME RequestsOK, NEW q \in Requests, NEW r, Arrives(q, r)
    PROVE  /\ q \notin Running /\ q \notin Over
           /\ Running' = Running \cup {q} /\ Over' = Over
           /\ DOMAIN req' = Requests /\ req'[q] = r
           /\ \A p \in Running : p # q /\ req'[p] = [req[p] EXCEPT !.met = @ \cup {q}]
           /\ \A p \in Running : Handling(req'[p]) /\ req'[p].met = req[p].met \cup {q}
                 /\ \A f \in Locals \ {"met"} : req'[p][f] = req[p][f]
           /\ \A p \in Requests \ Running : p # q => req'[p] = req[p]
<1>1. /\ DOMAIN req' = Requests /\ req'[q] = r
      /\ \A p \in Running : req'[p] = [req[p] EXCEPT !.met = @ \cup {q}]
      /\ \A p \in Requests \ Running : p # q => req'[p] = req[p]
  BY DEF Arrives
<1>2. q \notin Running /\ q \notin Over
  BY DEF Arrives, Running, Over, Ended
<1>3. ASSUME NEW p \in Running
      PROVE  /\ Handling(req'[p]) /\ req'[p].met = req[p].met \cup {q}
             /\ \A f \in Locals \ {"met"} : req'[p][f] = req[p][f]
  <2>1. Handling(req[p])
    BY RequestIs DEF Running
  <2> QED
    BY <1>1, <2>1 DEF Handling, Locals
<1>4. \A p \in Running : p \in Requests /\ req'[p].pc = req[p].pc
  BY <1>3 DEF Running, Locals
<1>5. r.pc \notin Ended \cup {"idle"}
  BY DEF Arrives, Handling, Stages, Ended
<1>6. Running' = Running \cup {q} /\ Over' = Over
  BY <1>1, <1>2, <1>4, <1>5 DEF Running, Over
<1> QED
  BY <1>1, <1>2, <1>3, <1>6

LEMMA RequestsGoing ==
    ASSUME RequestsOK, NEW q \in Requests, NEW r, Goes(q, r)
    PROVE  RequestsOK'
<1>1. /\ DOMAIN req' = Requests /\ req'[q] = r
      /\ \A p \in Requests : p # q => req'[p] = req[p]
      /\ Handling(r) => Running' = Running /\ Over' = Over
      /\ Closed(r) => Running' = Running \ {q} /\ Over' = Over \cup {q}
      /\ Handling(r) \/ Closed(r)
      /\ r.met = req[q].met /\ r.after = req[q].after
  BY PlacesGoing
<1>2. q \in Running /\ Running \subseteq Requests /\ Over \subseteq Requests
  BY DEF Goes, Running, Over
<1>3. \A p \in Requests : req'[p] = Idle \/ Handling(req'[p]) \/ Closed(req'[p])
  BY <1>1 DEF RequestsOK
<1>4. \A p \in Requests : req'[p].met = req[p].met /\ req'[p].after = req[p].after
  BY <1>1
<1>5. \A p, s \in Running' : p # s => p \in req'[s].met
  BY <1>1, <1>2, <1>4 DEF RequestsOK
<1>6. \A s \in Running' \cup Over' : req'[s].after \subseteq Over'
  BY <1>1, <1>2, <1>4 DEF RequestsOK
<1>7. \A p \in Over', s \in Running' : s \in req'[p].met \/ p \in req'[s].after
  BY <1>1, <1>2, <1>4 DEF RequestsOK
<1> QED
  BY <1>1, <1>3, <1>5, <1>6, <1>7 DEF RequestsOK, Handling, Closed

LEMMA RequestsArriving ==
    ASSUME RequestsOK, NEW q \in Requests, NEW r, Arrives(q, r)
    PROVE  RequestsOK'
<1>1. /\ q \notin Running /\ q \notin Over
      /\ Running' = Running \cup {q} /\ Over' = Over
      /\ DOMAIN req' = Requests /\ req'[q] = r
      /\ \A p \in Running : Handling(req'[p]) /\ req'[p].met = req[p].met \cup {q}
            /\ \A f \in Locals \ {"met"} : req'[p][f] = req[p][f]
      /\ \A p \in Requests \ Running : p # q => req'[p] = req[p]
  BY PlacesArriving
<1>2. Handling(r) /\ r.met = Running /\ r.after = Over
  BY DEF Arrives
<1>3. \A p \in Requests : req'[p] = Idle \/ Handling(req'[p]) \/ Closed(req'[p])
  BY <1>1, <1>2 DEF RequestsOK
<1>4. \A p \in Running : req'[p].after = req[p].after
  BY <1>1 DEF Locals
<1>5. Running \subseteq Requests /\ Over \subseteq Requests /\ Over \cap Running = {}
  BY DEF Running, Over
<1>6. \A p, s \in Running' : p # s => p \in req'[s].met
  BY <1>1, <1>2 DEF RequestsOK
<1>7. \A s \in Running' \cup Over' : req'[s].after \subseteq Over'
  BY <1>1, <1>2, <1>4, <1>5 DEF RequestsOK
<1>8. \A p \in Over', s \in Running' : s \in req'[p].met \/ p \in req'[s].after
  BY <1>1, <1>2, <1>4, <1>5 DEF RequestsOK
<1> QED
  BY <1>1, <1>3, <1>6, <1>7, <1>8 DEF RequestsOK, Handling, Closed
-----------------------------------------------------------------------------
(* What each step does to the stores.                                      *)

AuditOf(q) ==
    [id |-> req[q].id, at |-> req[q].at, by |-> req[q].by, req |-> q,
     from |-> Standing(req[q].was), to |-> Standing(req[q].next)]

Puts(q, c, m) == file' = [file EXCEPT ![c] = Append(@, m)] /\ rows' = rows /\ faults' = faults

Effect(q) ==
    \/ UNCHANGED <<file, rows>>
    \/ req[q].pc = "append" /\ Puts(q, req[q].coll, req[q].next) /\ clock' = clock
    \/ req[q].pc = "audit" /\ Puts(q, "audit", AuditOf(q)) /\ clock' = clock
    \/ /\ req[q].pc = "mirror" /\ file' = file /\ clock' = clock /\ faults' = faults
       /\ rows' = [rows EXCEPT ![req[q].coll] = Upsert(req[q].coll, req[q].next)]

Steps(q) ==
    \/ WorkspaceStep(q) \/ ReadAgent(q) \/ RecordFeedback(q) \/ RecordEvent(q)
    \/ AppendRecord(q) \/ MirrorRecord(q)

LEMMA StepGoes ==
    ASSUME StoresInv, NEW q \in Requests, Steps(q)
    PROVE  \E r : GoesWell(q, r)
<1>1. CASE WorkspaceStep(q)
  BY <1>1, DirectMemberGoes, SessionOrganizationGoes, GetOrganizationGoes, EnsureGoes,
     FirstOwnerInGoes, GrantCreatorGoes, AssignSessionGoes, ReadWorkspaceGoes, AppendAuditGoes
     DEF WorkspaceStep
<1>2. CASE ReadAgent(q) \/ RecordFeedback(q) \/ RecordEvent(q)
  BY <1>2, ReadAgentGoes, RecordFeedbackGoes, RecordEventGoes
<1>3. CASE AppendRecord(q) \/ MirrorRecord(q)
  BY <1>3, AppendRecordGoes, MirrorRecordGoes
<1> QED
  BY <1>1, <1>2, <1>3 DEF Steps

LEMMA ReadingFaults ==
    ASSUME NEW c, NEW fromFile \in BOOLEAN, ReadRecords(c, fromFile)
    PROVE  faults' \in {faults, faults + 1} /\ (faults' # faults => fromFile)
BY DEF ReadRecords

LEMMA StepEffect ==
    ASSUME StoresInv, NEW q \in Requests, Steps(q)
    PROVE  /\ mirrored' = mirrored /\ clock' \in Now \cup {clock}
           /\ faults' \in {faults, faults + 1} /\ Effect(q) /\ refused \subseteq refused'
<1> DEFINE Fine == /\ mirrored' = mirrored /\ clock' \in Now \cup {clock}
                   /\ faults' \in {faults, faults + 1} /\ Effect(q) /\ refused \subseteq refused'
<1>1. DirectMember(q) => Fine
  BY ReadingFaults DEF DirectMember, Go, Effect
<1>2. SessionOrganization(q) => Fine
  BY ReadingFaults DEF SessionOrganization, Go, Effect
<1>3. GetOrganization(q) => Fine
  BY ReadingFaults DEF GetOrganization, Go, Effect
<1>4. Ensure(q) => Fine
  BY ReadingFaults DEF Ensure, Go, Effect
<1>5. FirstOwnerIn(q) \/ GrantCreator(q) => Fine
  BY DEF FirstOwnerIn, GrantCreator, Go, Effect
<1>6. AssignSession(q) => Fine
  BY ReadingFaults DEF AssignSession, Go, Effect
<1>7. ReadWorkspace(q) => Fine
  BY ReadingFaults DEF ReadWorkspace, Go, Effect
<1>8. AppendAudit(q) => Fine
  BY AppendingIs DEF AppendAudit, Appends, Throws, Effect, Puts, AuditOf
<1>9. ReadAgent(q) \/ RecordFeedback(q) \/ RecordEvent(q) => Fine
  BY DEF ReadAgent, RecordFeedback, RecordEvent, Go, Effect
<1>10. AppendRecord(q) => Fine
  BY AppendingIs DEF AppendRecord, Appends, Throws, Effect, Puts
<1>11. MirrorRecord(q) => Fine
  BY DEF MirrorRecord, Effect
<1> QED
  BY <1>1, <1>2, <1>3, <1>4, <1>5, <1>6, <1>7, <1>8, <1>9, <1>10, <1>11 DEF Steps, WorkspaceStep

(* What may be appended.                                                   *)
LEMMA AppendedTypes ==
    ASSUME StoresInv, NEW q \in Requests, req[q].pc = "append"
    PROVE  /\ q \in Running /\ Handling(req[q])
           /\ req[q].coll \in Collections \ {"audit"}
           /\ req[q].coll = "members" => req[q].next \in MemberRecords /\ req[q].next.req = q
           /\ req[q].coll = "sessions" => req[q].next \in SessionRecords /\ req[q].next.req = q
           /\ req[q].coll = "memo" => req[q].next \in MemoRecords
           /\ req[q].coll = "orgs" => req[q].next \in OrgRecords
           /\ req[q].coll = "agents" => req[q].next \in AgentRecords
           /\ req[q].coll \in Stamped => req[q].next.at <= clock
           /\ req[q].coll \in {"members", "orgs", "sessions", "memo"} => WorkspaceShape(q, req[q])
           /\ req[q].coll = "agents" => RegistryShape(q, req[q])
           /\ req[q].coll \in {"events", "feedback"} => ActivationShape(q, req[q])
<1>1. q \in Running /\ Handling(req[q]) /\ Shape(q, req[q])
  BY RequestIs DEF StoresInv, Stages
<1>2. CASE WorkspaceShape(q, req[q])
  <2>1. /\ WriteOf(req[q]) /\ NextOf(q, req[q]) /\ req[q].at <= clock
    BY <1>2 DEF WorkspaceShape, WriteStages
  <2> QED
    BY <1>1, <1>2, <2>1 DEF WriteOf, NextOf, Collections, Tables, Stamped
<1>3. CASE RegistryShape(q, req[q])
  BY <1>1, <1>3 DEF RegistryShape, Collections, Tables, Stamped
<1>4. CASE ActivationShape(q, req[q])
  BY <1>1, <1>4 DEF ActivationShape, Collections, Tables, Stamped
<1> QED
  BY <1>1, <1>2, <1>3, <1>4 DEF Shape

LEMMA FilesKept ==
    ASSUME StoresInv, NEW q \in Requests, Steps(q)
    PROVE  FilesOK' /\ ClockOK'
<1>1. /\ mirrored' = mirrored /\ clock' \in Now \cup {clock}
      /\ faults' \in {faults, faults + 1} /\ Effect(q)
  BY StepEffect
<1>2. ClockOK' /\ clock \in Int /\ clock' \in Int /\ clock <= clock'
  BY <1>1, TimeGoesOn DEF StoresInv, ClockOK
<1>3. CASE file' = file
  <2>1. \A c \in Stamped : \A i \in DOMAIN file[c] : file[c][i].at <= clock'
    BY <1>2, StampsAre DEF StoresInv
  <2>2. \A c \in Collections : Log(file'[c])
    BY <1>3 DEF StoresInv, FilesOK
  <2>3. \A c \in Stamped : \A i \in DOMAIN file'[c] : file'[c][i].at <= clock'
    BY <1>3, <2>1
  <2> QED
    BY <1>2, <1>3, <2>2, <2>3 DEF StoresInv, FilesOK
<1>4. CASE file' # file
  <2>a. PICK c, m :
            /\ c \in Collections /\ file' = [file EXCEPT ![c] = Append(@, m)] /\ clock' = clock
            /\ c = "members" => m \in MemberRecords
            /\ c = "sessions" => m \in SessionRecords
            /\ c = "memo" => m \in MemoRecords
            /\ c = "orgs" => m \in OrgRecords
            /\ c = "agents" => m \in AgentRecords
            /\ c \in Stamped => m.at <= clock
    <3>1. CASE req[q].pc = "append" /\ Puts(q, req[q].coll, req[q].next) /\ clock' = clock
      <4>1. PICK d, n : d = req[q].coll /\ n = req[q].next
        OBVIOUS
      <4>2. /\ d \in Collections /\ file' = [file EXCEPT ![d] = Append(@, n)] /\ clock' = clock
            /\ d = "members" => n \in MemberRecords
            /\ d = "sessions" => n \in SessionRecords
            /\ d = "memo" => n \in MemoRecords
            /\ d = "orgs" => n \in OrgRecords
            /\ d = "agents" => n \in AgentRecords
            /\ d \in Stamped => n.at <= clock
        BY <3>1, <4>1, AppendedTypes DEF Puts
      <4> QED
        BY <4>2
    <3>2. CASE req[q].pc = "audit" /\ Puts(q, "audit", AuditOf(q)) /\ clock' = clock
      BY <3>2 DEF Puts, Collections, Stamped, Tables
    <3> QED
      BY <1>1, <1>4, <3>1, <3>2 DEF Effect
  <2>1. DOMAIN file' = Collections /\ file'[c] = Append(file[c], m)
        /\ \A d \in Collections \ {c} : file'[d] = file[d]
    BY <2>a DEF StoresInv, FilesOK
  <2>2. Log(file[c])
    BY <2>a DEF StoresInv, FilesOK
  <2>3. /\ Log(file'[c]) /\ DOMAIN file'[c] = 1..(Len(file[c]) + 1)
        /\ DOMAIN file[c] = 1..Len(file[c]) /\ Len(file[c]) \in Nat
        /\ file'[c][Len(file[c]) + 1] = m
        /\ \A i \in 1..Len(file[c]) : file'[c][i] = file[c][i]
    <3>1. PICK log, longer : log = file[c] /\ longer = Append(log, m)
      OBVIOUS
    <3>2. /\ Log(longer) /\ DOMAIN longer = 1..(Len(log) + 1)
          /\ DOMAIN log = 1..Len(log) /\ Len(log) \in Nat
          /\ longer[Len(log) + 1] = m
          /\ \A i \in 1..Len(log) : longer[i] = log[i]
      <4>1. Log(log)
        BY <2>2, <3>1
      <4>2. Log(Append(log, m)) /\ Len(Append(log, m)) = Len(log) + 1
            /\ DOMAIN Append(log, m) = 1..(Len(log) + 1)
            /\ DOMAIN log = 1..Len(log) /\ Len(log) \in Nat
            /\ Append(log, m)[Len(log) + 1] = m
            /\ \A i \in 1..Len(log) : Append(log, m)[i] = log[i]
        BY <4>1, Appending
      <4> QED
        BY <3>1, <4>2
    <3>3. log = file[c] /\ longer = file'[c]
      BY <2>1, <3>1
    <3> QED
      BY <3>2, <3>3 DEF Log
  <2>4. \A d \in Collections : Log(file'[d])
    BY <2>1, <2>3 DEF StoresInv, FilesOK
  <2>5. \A d \in Stamped : \A i \in DOMAIN file'[d] : file'[d][i].at <= clock
    BY <2>a, <2>1, <2>3 DEF StoresInv, FilesOK, Stamped, Collections, Tables
  <2>6. /\ file'["members"] \in Seq(MemberRecords) /\ file'["sessions"] \in Seq(SessionRecords)
        /\ file'["memo"] \in Seq(MemoRecords) /\ file'["orgs"] \in Seq(OrgRecords)
        /\ file'["agents"] \in Seq(AgentRecords)
    BY <2>a, <2>1, <2>3 DEF StoresInv, FilesOK, Collections, Tables
  <2> QED
    BY <1>2, <2>a, <2>1, <2>4, <2>5, <2>6 DEF FilesOK
<1> QED
  BY <1>2, <1>3, <1>4

(* A row that is replaced leaves one row for its id.                       *)
LEMMA Upserting ==
    ASSUME RowsOK, NEW c \in Tables, NEW m, NEW rest, rest = [rows EXCEPT ![c] = Upsert(c, m)]
    PROVE  /\ DOMAIN rest = Tables /\ \A d \in Tables \ {c} : rest[d] = rows[d]
           /\ rest[c] = Upsert(c, m) /\ m \in rest[c]
           /\ \A n \in rest[c] : n = m \/ (n \in rows[c] /\ n.id # m.id)
           /\ \A n \in rows[c] : n.id # m.id => n \in rest[c]
           /\ Keyed(rest[c])
BY DEF Upsert, Keyed, RowsOK

LEMMA MirroredTypes ==
    ASSUME StoresInv, NEW q \in Requests, req[q].pc \in {"audit", "mirror"}
    PROVE  /\ q \in Running /\ Handling(req[q]) /\ WorkspaceShape(q, req[q])
           /\ req[q].coll \in Tables /\ WriteOf(req[q]) /\ NextOf(q, req[q])
           /\ req[q].pc = "audit" => req[q].coll = "members"
BY InWorkspace DEF Stages, WorkspaceShape, WriteStages, WriteOf, Tables

LEMMA RowsKept ==
    ASSUME StoresInv, NEW q \in Requests, Steps(q)
    PROVE  RowsOK'
<1>1. Effect(q)
  BY StepEffect
<1>2. CASE rows' = rows
  BY <1>2 DEF StoresInv, RowsOK, Keyed
<1>3. CASE /\ req[q].pc = "mirror" /\ file' = file /\ clock' = clock /\ faults' = faults
           /\ rows' = [rows EXCEPT ![req[q].coll] = Upsert(req[q].coll, req[q].next)]
  <2>1. /\ req[q].coll \in Tables /\ NextOf(q, req[q])
    BY <1>3, MirroredTypes
  <2>2. /\ DOMAIN rows' = Tables /\ \A d \in Tables \ {req[q].coll} : rows'[d] = rows[d]
        /\ \A n \in rows'[req[q].coll] : n = req[q].next \/ n \in rows[req[q].coll]
        /\ Keyed(rows'[req[q].coll])
    <3>1. PICK c, m : c = req[q].coll /\ m = req[q].next
      OBVIOUS
    <3>2. PICK rest : rest = [rows EXCEPT ![c] = Upsert(c, m)]
      OBVIOUS
    <3>3. /\ DOMAIN rest = Tables /\ \A d \in Tables \ {c} : rest[d] = rows[d]
          /\ \A n \in rest[c] : n = m \/ n \in rows[c]
          /\ Keyed(rest[c])
      <4>1. c \in Tables
        BY <2>1, <3>1
      <4> QED
        BY <3>2, <4>1, Upserting DEF StoresInv
    <3>4. rest = rows'
      BY <1>3, <3>1, <3>2
    <3> QED
      BY <3>1, <3>3, <3>4 DEF Keyed
  <2>3. /\ rows'["members"] \subseteq MemberRecords /\ rows'["sessions"] \subseteq SessionRecords
        /\ rows'["memo"] \subseteq MemoRecords /\ rows'["orgs"] \subseteq OrgRecords
    BY <2>1, <2>2 DEF StoresInv, RowsOK, NextOf, Tables
  <2>4. \A d \in Tables : Keyed(rows'[d])
    BY <2>2 DEF StoresInv, RowsOK
  <2> QED
    BY <2>2, <2>3, <2>4 DEF RowsOK, Keyed
<1> QED
  BY <1>1, <1>2, <1>3 DEF Effect, Puts

LEMMA ArrivalKeeps ==
    ASSUME StoresInv, NEW q \in Requests, NEW r, Comes(q, r)
    PROVE  StoresInv'
<1>1. Arrives(q, r) /\ Shape(q, r) /\ UNCHANGED <<file, rows, mirrored, clock, faults>>
  BY DEF Comes, Arrives
<1>2. RequestsOK'
  BY <1>1, RequestsArriving DEF StoresInv
<1>3. FilesOK' /\ RowsOK' /\ ClockOK'
  BY <1>1 DEF StoresInv, FilesOK, RowsOK, ClockOK, Keyed
<1>4. /\ Running' = Running \cup {q} /\ req'[q] = r
      /\ \A p \in Running : p # q /\ req'[p] = [req[p] EXCEPT !.met = @ \cup {q}]
  BY <1>1, PlacesArriving DEF StoresInv
<1>5. \A p \in Running : Shape(p, req'[p])
  <2> TAKE p \in Running
  <2>1. Handling(req[p]) /\ Shape(p, req[p])
    BY RequestIs DEF StoresInv, Running
  <2>2. PICK met : met = req[p].met \cup {q}
    OBVIOUS
  <2>3. PICK n : n = [req[p] EXCEPT !.met = met]
    OBVIOUS
  <2>4. Shape(p, n)
    BY <2>1, <2>2, <2>3, ShapeMet
  <2> QED
    BY <1>4, <2>2, <2>3, <2>4
<1>6. \A p \in Running' : Shape(p, req'[p])
  BY <1>1, <1>4, <1>5
<1>7. \A p, n : Shape(p, n) => Shape(p, n)'
  BY <1>1, ShapeKept DEF StoresInv
<1>8. \A p \in Running' : Shape(p, req[p])'
  BY <1>6, <1>7, <1>1 DEF Shape, WorkspaceShape, WriteOf, NextOf, RegistryShape, ActivationShape
<1> QED
  BY <1>2, <1>3, <1>8 DEF StoresInv

LEMMA StepKeeps ==
    ASSUME StoresInv, NEW q \in Requests, Steps(q)
    PROVE  StoresInv'
<1>1. PICK r : GoesWell(q, r)
  BY StepGoes
<1>2. Goes(q, r) /\ (Handling(r) => Shape(q, r)')
  BY <1>1 DEF GoesWell
<1>3. RequestsOK'
  BY <1>2, RequestsGoing DEF StoresInv
<1>4. FilesOK' /\ RowsOK' /\ ClockOK'
  BY FilesKept, RowsKept
<1>5. /\ req'[q] = r
      /\ \A p \in Requests : p # q => req'[p] = req[p]
      /\ Handling(r) => Running' = Running
      /\ Closed(r) => Running' = Running \ {q}
      /\ Handling(r) \/ Closed(r)
  BY <1>2, PlacesGoing DEF StoresInv
<1>6. mirrored' = mirrored /\ clock' \in Now \cup {clock}
  BY StepEffect
<1>7. ASSUME NEW p \in Running' PROVE Shape(p, req[p])'
  <2>1. p \in Requests
    BY DEF Running
  <2>2. PICK n : n = req'[p]
    OBVIOUS
  <2>3. CASE p = q
    <3>1. n = r /\ Handling(r)
      BY <1>5, <1>7, <2>2, <2>3
    <3>2. Shape(q, r)'
      BY <1>2, <3>1
    <3> QED
      BY <2>2, <2>3, <3>1, <3>2
         DEF Shape, WorkspaceShape, WriteOf, NextOf, RegistryShape, ActivationShape
  <2>4. CASE p # q
    <3>1. p \in Running /\ n = req[p]
      BY <1>5, <1>7, <2>1, <2>2, <2>4
    <3>2. Shape(p, n)
      BY <3>1 DEF StoresInv
    <3>3. Shape(p, n)'
      BY <1>6, <3>2, ShapeKept DEF StoresInv
    <3> QED
      BY <2>2, <3>3 DEF Shape, WorkspaceShape, WriteOf, NextOf, RegistryShape, ActivationShape
  <2> QED
    BY <2>3, <2>4
<1> QED
  BY <1>3, <1>4, <1>7 DEF StoresInv

(* A row of a session concerns no handler but the one that puts a memo's.  *)
Idling == UNCHANGED <<file, rows, mirrored, clock, faults, refused, req>>

(* The next step is an arrival or a step of a handler.                     *)
LEMMA NextIs ==
    ASSUME StoresInv, [StoresNext]_storeVars
    PROVE  Idling \/ \E q \in Requests : (\E r : Comes(q, r)) \/ Steps(q)
<1>1. \/ Idling
      \/ \E q \in Requests :
           \/ WorkspaceRequest(q) \/ RegistryRequest(q)
           \/ WorkspaceStep(q) \/ ReadAgent(q) \/ ActivationNext(q)
           \/ AppendRecord(q) \/ MirrorRecord(q)
  BY DEF StoresNext, SessionListed, storeVars, Idling
<1> SUFFICES ASSUME ~Idling
             PROVE  \E q \in Requests : (\E r : Comes(q, r)) \/ Steps(q)
  OBVIOUS
<1>p. PICK q \in Requests :
         \/ WorkspaceRequest(q) \/ RegistryRequest(q)
         \/ WorkspaceStep(q) \/ ReadAgent(q) \/ ActivationNext(q)
         \/ AppendRecord(q) \/ MirrorRecord(q)
  BY <1>1
<1>2. CASE WorkspaceRequest(q) \/ RegistryRequest(q)
  BY <1>2, WorkspaceRequestComes, RegistryRequestComes
<1>3. CASE ActivationNext(q)
  BY <1>3, ActivationRequestComes DEF ActivationNext, Steps
<1> QED
  BY <1>p, <1>2, <1>3 DEF Steps

LEMMA NothingChanges ==
    ASSUME StoresInv, Idling
    PROVE  StoresInv'
<1>1. UNCHANGED <<file, rows, mirrored, clock, faults, refused, req>>
  BY DEF Idling
<1>2. Running' = Running /\ Over' = Over
  BY <1>1 DEF Running, Over
<1>3. RequestsOK'
  BY <1>1, <1>2 DEF StoresInv, RequestsOK
<1>4. FilesOK' /\ RowsOK' /\ ClockOK'
  BY <1>1 DEF StoresInv, FilesOK, RowsOK, ClockOK, Keyed
<1>5. \A p \in Running' : Shape(p, req[p])'
  BY <1>1, <1>2 DEF StoresInv, Shape, WorkspaceShape, WriteOf, NextOf, RegistryShape, ActivationShape
<1> QED
  BY <1>3, <1>4, <1>5 DEF StoresInv

LEMMA StoresInvKept ==
    ASSUME StoresInv, [StoresNext]_storeVars
    PROVE  StoresInv'
BY NextIs, ArrivalKeeps, StepKeeps, NothingChanges

LEMMA PastLog ==
    ASSUME NEW past \in Pasts
    PROVE  \A c \in Collections : Log(past[c])
BY PastsAssumption DEF Log

LEMMA InitFiles ==
    ASSUME StoresInit
    PROVE  FilesOK /\ ClockOK
<1>1. file \in Pasts /\ clock = 0 /\ faults = 0 /\ mirrored \in BOOLEAN
  BY DEF StoresInit
<1>2. \A c \in Collections : Log(file[c])
  BY <1>1, PastLog
<1>3. \A c \in Stamped : \A i \in DOMAIN file[c] : file[c][i].at <= clock
  BY <1>1, PastsAssumption DEF Stamped, Collections, Tables
<1>4. /\ DOMAIN file = Collections
      /\ file["members"] \in Seq(MemberRecords) /\ file["sessions"] \in Seq(SessionRecords)
      /\ file["memo"] \in Seq(MemoRecords) /\ file["orgs"] \in Seq(OrgRecords)
    /\ file["agents"] \in Seq(AgentRecords)
  BY <1>1, PastsAssumption
<1>5. ClockOK
  BY <1>1, StoresAssumption DEF ClockOK
<1> QED
  BY <1>2, <1>3, <1>4, <1>5 DEF FilesOK

(* A table starts as the newest records of its file.                       *)
LEMMA InitRows ==
    ASSUME StoresInit
    PROVE  /\ DOMAIN rows = Tables
           /\ \A c \in Tables : rows[c] =
                IF mirrored THEN {LatestBy(c, id) : id \in {file[c][i].id : i \in DOMAIN file[c]}}
                ELSE {}
BY DEF StoresInit

(* An id that a log holds has a newest record.                             *)
LEMMA LatestOf ==
    ASSUME NEW c \in Tables, FilesOK, ClockOK, NEW i \in DOMAIN file[c]
    PROVE  \E j \in DOMAIN file[c] :
               LatestBy(c, file[c][i].id) = file[c][j] /\ file[c][j].id = file[c][i].id
BY LatestByIs DEF Stamped

LEMMA InitTables ==
    ASSUME StoresInit
    PROVE  RowsOK
<1>1. FilesOK /\ ClockOK
  BY InitFiles
<1>2. ASSUME NEW c \in Tables, NEW m \in rows[c]
      PROVE  \E i \in DOMAIN file[c] : m = LatestBy(c, file[c][i].id)
  BY <1>2, InitRows
<1>3. ASSUME NEW c \in Tables, NEW m \in rows[c]
      PROVE  \E j \in DOMAIN file[c] : m = file[c][j] /\ m = LatestBy(c, m.id)
  BY <1>1, <1>2, <1>3, LatestOf
<1>4. \A c \in Tables : Keyed(rows[c])
  BY <1>3 DEF Keyed
<1>5. /\ rows["members"] \subseteq MemberRecords /\ rows["sessions"] \subseteq SessionRecords
      /\ rows["memo"] \subseteq MemoRecords /\ rows["orgs"] \subseteq OrgRecords
  BY <1>1, <1>3 DEF FilesOK, Tables
<1> QED
  BY <1>4, <1>5, InitRows DEF RowsOK

LEMMA StoresInvInit ==
    ASSUME StoresInit
    PROVE  StoresInv
<1>1. req = [q \in Requests |-> Idle]
  BY DEF StoresInit
<1>2. Running = {} /\ Over = {}
  BY <1>1 DEF Running, Over, Idle, Ended
<1>3. RequestsOK
  BY <1>1, <1>2 DEF RequestsOK
<1> QED
  BY <1>2, <1>3, InitFiles, InitTables DEF StoresInv

(* Handlers know what their stage needs, and logs and tables hold well-    *)
(* formed records, one row to an id.                                       *)
THEOREM StoresInvariant == StoresSpec => []StoresInv
<1>1. StoresInit => StoresInv
  BY StoresInvInit
<1>2. StoresInv /\ [StoresNext]_storeVars => StoresInv'
  BY StoresInvKept
<1> QED
  BY <1>1, <1>2, PTL DEF StoresSpec
-----------------------------------------------------------------------------
(* What may be found on record, as the files grow.                         *)

(* Records that both logs hold in the same places have the same newest.    *)
LEMMA NewestSame ==
    ASSUME NEW log, NEW longer, NEW n \in Nat, NEW hits \in SUBSET (1..n), NEW bound \in Int,
           \A i \in hits : longer[i] = log[i] /\ log[i].at \in Int /\ log[i].at <= bound
    PROVE  Newest(longer, hits) = Newest(log, hits)
<1>1. CASE hits = {}
  BY <1>1 DEF Newest
<1>2. CASE hits # {}
  <2>1. PICK i \in hits :
            /\ Newest(log, hits) = log[i]
            /\ \A j \in hits : log[j].at <= log[i].at /\ (log[j].at = log[i].at => j <= i)
    BY <1>2, NewestIs
  <2>2. PICK k \in hits :
            /\ Newest(longer, hits) = longer[k]
            /\ \A j \in hits : longer[j].at <= longer[k].at /\ (longer[j].at = longer[k].at => j <= k)
    BY <1>2, NewestIs
  <2>3. log[i].at \in Int /\ log[k].at \in Int /\ i \in Int /\ k \in Int
    OBVIOUS
  <2>4. log[k].at <= log[i].at /\ (log[k].at = log[i].at => k <= i)
    BY <2>1
  <2>5. log[i].at <= log[k].at /\ (log[i].at = log[k].at => i <= k)
    BY <2>2
  <2>6. i = k
    BY <2>3, <2>4, <2>5
  <2> QED
    BY <2>1, <2>2, <2>6
<1> QED
  BY <1>1, <1>2

Growing(c, m) ==
    /\ c \in Collections /\ Log(file[c])
    /\ file' = [file EXCEPT ![c] = Append(@, m)]

LEMMA LogGrows ==
    ASSUME FilesOK, NEW c \in Collections, NEW m, Growing(c, m)
    PROVE  LET n == Len(file[c]) + 1
           IN  /\ n \notin DOMAIN file[c] /\ DOMAIN file'[c] = DOMAIN file[c] \cup {n}
               /\ file'[c][n] = m /\ \A i \in DOMAIN file[c] : file'[c][i] = file[c][i]
<1>1. Log(file[c]) /\ file'[c] = Append(file[c], m)
  BY DEF Growing, FilesOK
<1>2. /\ DOMAIN file[c] = 1..Len(file[c]) /\ Len(file[c]) \in Nat
      /\ DOMAIN file'[c] = 1..(Len(file[c]) + 1)
      /\ file'[c][Len(file[c]) + 1] = m
      /\ \A i \in 1..Len(file[c]) : file'[c][i] = file[c][i]
  BY <1>1, Appending
<1> QED
  BY <1>2

LEMMA EntriesGrow ==
    ASSUME FilesOK, NEW c \in Collections, NEW m, Growing(c, m), NEW id,
           NEW n, n = Len(file[c]) + 1
    PROVE  /\ n \notin DOMAIN file[c] /\ DOMAIN file'[c] = DOMAIN file[c] \cup {n}
           /\ file'[c][n] = m /\ \A i \in DOMAIN file[c] : file'[c][i] = file[c][i]
           /\ Entries(c, id)' = Entries(c, id) \cup (IF m.id = id THEN {n} ELSE {})
<1>1. Log(file[c]) /\ file'[c] = Append(file[c], m)
  BY DEF Growing, FilesOK
<1>2. /\ DOMAIN file[c] = 1..Len(file[c]) /\ Len(file[c]) \in Nat
      /\ DOMAIN file'[c] = 1..(Len(file[c]) + 1)
      /\ file'[c][Len(file[c]) + 1] = m
      /\ \A i \in 1..Len(file[c]) : file'[c][i] = file[c][i]
  BY <1>1, Appending
<1>3. /\ n \notin DOMAIN file[c] /\ DOMAIN file'[c] = DOMAIN file[c] \cup {n}
      /\ file'[c][n] = m /\ \A i \in DOMAIN file[c] : file'[c][i] = file[c][i]
  BY <1>2
<1>4. Entries(c, id)' = Entries(c, id) \cup (IF m.id = id THEN {n} ELSE {})
  BY <1>3 DEF Entries
<1> QED
  BY <1>3, <1>4

LEMMA NewGrow ==
    ASSUME FilesOK, ClockOK, NEW c \in Deciding, NEW m, Growing(c, m), NEW id, m.req \in Requests
    PROVE  /\ \A i \in New(c, id) : i \in New(c, id)' /\ file'[c][i] = file[c][i]
           /\ Writes(c, id)' = Writes(c, id) \cup (IF m.id = id THEN {m} ELSE {})
           /\ PastRecord(c, id)' = PastRecord(c, id)
<1>1. PICK n : n = Len(file[c]) + 1
  OBVIOUS
<1>s. c \in Collections /\ c \in Stamped
  BY DEF Deciding, Stamped, Collections, Tables
<1>2. /\ n \notin DOMAIN file[c] /\ DOMAIN file'[c] = DOMAIN file[c] \cup {n}
      /\ file'[c][n] = m /\ \A i \in DOMAIN file[c] : file'[c][i] = file[c][i]
      /\ Entries(c, id)' = Entries(c, id) \cup (IF m.id = id THEN {n} ELSE {})
  BY <1>1, <1>s, EntriesGrow
<1>3. Entries(c, id) \subseteq DOMAIN file[c]
  BY DEF Entries
<1>4. New(c, id)' = New(c, id) \cup (IF m.id = id THEN {n} ELSE {})
  BY <1>2, <1>3 DEF New
<1>5. New(c, id) \subseteq Entries(c, id)
  BY DEF New
<1>6. Writes(c, id)' = {file'[c][i] : i \in New(c, id)'}
  BY DEF Writes
<1>7. Writes(c, id)' = Writes(c, id) \cup (IF m.id = id THEN {m} ELSE {})
  BY <1>2, <1>3, <1>4, <1>5, <1>6 DEF Writes
<1>8. PICK old : old = Entries(c, id) \ New(c, id)
  OBVIOUS
<1>9. (Entries(c, id) \ New(c, id))' = old
  BY <1>2, <1>3, <1>4, <1>5, <1>8
<1>10. PICK log, longer : log = file[c] /\ longer = file'[c]
  OBVIOUS
<1>11. \A i \in old : longer[i] = log[i]
  BY <1>2, <1>3, <1>8, <1>10
<1>12. Newest(longer, old) = Newest(log, old)
  <2>1. old \subseteq 1..Len(file[c]) /\ Len(file[c]) \in Nat
    BY <1>s, <1>3, <1>8, LogFacts DEF FilesOK
  <2>2. clock \in Int /\ \A i \in old : log[i].at \in Int /\ log[i].at <= clock
    BY <1>s, <1>3, <1>8, <1>10, StampsAre
  <2> QED
    BY <1>11, <2>1, <2>2, NewestSame
<1>13. PastRecord(c, id) = Newest(log, old) /\ PastRecord(c, id)' = Newest(longer, old)
  BY <1>8, <1>9, <1>10 DEF PastRecord
<1> QED
  BY <1>2, <1>3, <1>4, <1>5, <1>7, <1>12, <1>13

(* What a step leaves of the requests that run or are over.                *)
Lasting ==
    /\ mirrored' = mirrored /\ faults \in Nat /\ faults' \in Nat /\ faults <= faults'
    /\ \A p \in Running \cup Over : p \in Running' \cup Over' /\ req'[p].after = req[p].after
    /\ Over \subseteq Over'

LEMMA LastingIs ==
    ASSUME StoresInv, NEW q \in Requests, (\E r : Comes(q, r)) \/ Steps(q)
    PROVE  Lasting
<1>1. CASE \E r : Comes(q, r)
  <2>1. PICK r : Arrives(q, r)
    BY <1>1 DEF Comes
  <2>2. mirrored' = mirrored /\ faults' = faults /\ faults \in Nat
    BY <2>1 DEF Arrives, StoresInv, ClockOK
  <2>3. /\ q \notin Running /\ q \notin Over
        /\ Running' = Running \cup {q} /\ Over' = Over
        /\ \A p \in Running : \A f \in Locals \ {"met"} : req'[p][f] = req[p][f]
        /\ \A p \in Requests \ Running : p # q => req'[p] = req[p]
    BY <2>1, PlacesArriving DEF StoresInv
  <2>4. \A p \in Running \cup Over : req'[p].after = req[p].after
    BY <2>3 DEF Locals, Over
  <2> QED
    BY <2>2, <2>3, <2>4 DEF Lasting
<1>2. CASE Steps(q)
  <2>1. PICK r : Goes(q, r)
    BY <1>2, StepGoes DEF GoesWell
  <2>2. mirrored' = mirrored /\ faults' \in {faults, faults + 1} /\ faults \in Nat
    BY <1>2, StepEffect DEF StoresInv, ClockOK
  <2>3. /\ req'[q] = r /\ \A p \in Requests : p # q => req'[p] = req[p]
        /\ Handling(r) => Running' = Running /\ Over' = Over
        /\ Closed(r) => Running' = Running \ {q} /\ Over' = Over \cup {q}
        /\ Handling(r) \/ Closed(r)
        /\ r.after = req[q].after
    BY <2>1, PlacesGoing DEF StoresInv
  <2>4. \A p \in Running \cup Over : p \in Requests
    BY DEF Running, Over
  <2>5. \A p \in Running \cup Over : p \in Running' \cup Over' /\ req'[p].after = req[p].after
    BY <2>3, <2>4
  <2>6. Over \subseteq Over'
    BY <2>3
  <2> QED
    BY <2>2, <2>5, <2>6 DEF Lasting
<1> QED
  BY <1>1, <1>2

(* Which requests wrote what is in the files on permissions.               *)
WritersKnown ==
    \A c \in Deciding : \A i \in DOMAIN file[c] :
       file[c][i].req \in Requests => file[c][i].req \in Running \cup Over

SinceOK == \A q \in Running : \A c \in Deciding : req[q].since[c] \in 0..Len(file[c])

(* What a step may add to a file on permissions.                           *)
Adds(c) ==
    \/ file'[c] = file[c]
    \/ \E p \in Running : \E m : Growing(c, m) /\ m.req = p

LEMMA AddsIs ==
    ASSUME StoresInv, NEW q \in Requests, (\E r : Comes(q, r)) \/ Steps(q), NEW c \in Deciding
    PROVE  Adds(c)
<1>1. CASE \E r : Comes(q, r)
  BY <1>1 DEF Comes, Arrives, Adds
<1>2. CASE Steps(q)
  <2>1. Effect(q)
    BY <1>2, StepEffect
  <2>2. CASE req[q].pc = "append" /\ Puts(q, req[q].coll, req[q].next) /\ clock' = clock
    <3>1. PICK d, m : d = req[q].coll /\ m = req[q].next
      OBVIOUS
    <3>2. /\ q \in Running /\ d \in Collections /\ file' = [file EXCEPT ![d] = Append(@, m)]
          /\ d \in Deciding => m.req = q
      BY <2>2, <3>1, AppendedTypes DEF Puts, Deciding
    <3>3. CASE c = d
      BY <3>2, <3>3 DEF Adds, Growing, StoresInv, FilesOK
    <3>4. CASE c # d
      BY <3>2, <3>4 DEF Adds, StoresInv, FilesOK, Deciding, Collections, Tables
    <3> QED
      BY <3>3, <3>4
  <2>3. CASE req[q].pc = "audit" /\ Puts(q, "audit", AuditOf(q)) /\ clock' = clock
    BY <2>3 DEF Adds, Puts, StoresInv, FilesOK, Deciding, Collections, Tables
  <2> QED
    BY <2>1, <2>2, <2>3 DEF Effect, Adds
<1> QED
  BY <1>1, <1>2

LEMMA WritesAre ==
    ASSUME WritersKnown, NEW c \in Deciding, NEW id, NEW n \in Writes(c, id)
    PROVE  n.req \in Requests /\ n.req \in Running \cup Over /\ n.id = id
           /\ \E i \in DOMAIN file[c] : n = file[c][i]
<1>1. PICK i \in New(c, id) : n = file[c][i]
  BY DEF Writes
<1> QED
  BY <1>1 DEF New, Entries, WritersKnown

LEMMA WritesGrow ==
    ASSUME StoresInv, NEW c \in Deciding, Adds(c), NEW id
    PROVE  /\ \A n \in Writes(c, id) : n \in Writes(c, id)'
           /\ \A n \in Writes(c, id)' : n \in Writes(c, id) \/ n.req \in Running
           /\ PastRecord(c, id)' = PastRecord(c, id)
<1>1. CASE file'[c] = file[c]
  BY <1>1 DEF Writes, PastRecord, New, Entries
<1>2. ASSUME NEW p \in Running, NEW m, Growing(c, m), m.req = p
      PROVE  /\ \A n \in Writes(c, id) : n \in Writes(c, id)'
             /\ \A n \in Writes(c, id)' : n \in Writes(c, id) \/ n.req \in Running
             /\ PastRecord(c, id)' = PastRecord(c, id)
  <2>1. m.req \in Requests
    BY <1>2 DEF Running
  <2> QED
    BY <1>2, <2>1, NewGrow DEF StoresInv
<1> QED
  BY <1>1, <1>2 DEF Adds

LEMMA PrefixGrow ==
    ASSUME StoresInv, NEW c \in Deciding, Adds(c)
    PROVE  /\ Len(file[c]) \in Nat /\ Len(file'[c]) \in Nat /\ Len(file[c]) <= Len(file'[c])
           /\ \A n \in 0..Len(file[c]) : SubSeq(file'[c], 1, n) = SubSeq(file[c], 1, n)
<1>1. Log(file[c])
  BY DEF StoresInv, FilesOK, Deciding, Collections, Tables
<1>2. Len(file[c]) \in Nat
  BY <1>1, LogFacts
<1>3. CASE file'[c] = file[c]
  BY <1>2, <1>3
<1>4. ASSUME NEW m, Growing(c, m)
      PROVE  /\ Len(file'[c]) = Len(file[c]) + 1
             /\ \A n \in 0..Len(file[c]) : SubSeq(file'[c], 1, n) = SubSeq(file[c], 1, n)
  <2>1. file'[c] = Append(file[c], m)
    BY <1>4 DEF Growing, StoresInv, FilesOK
  <2>2. Len(Append(file[c], m)) = Len(file[c]) + 1
    BY <1>1, Appending
  <2>3. \A n \in 0..Len(file[c]) : SubSeq(Append(file[c], m), 1, n) = SubSeq(file[c], 1, n)
    BY <1>1, Beginning
  <2> QED
    BY <2>1, <2>2, <2>3
<1> QED
  BY <1>2, <1>3, <1>4 DEF Adds

LEMMA FollowsKept ==
    ASSUME WritersKnown, Lasting, NEW c \in Deciding, NEW id, NEW n \in Writes(c, id), NEW m
    PROVE  Follows(n, m)' <=> Follows(n, m)
<1>1. n.req \in Running \cup Over
  BY WritesAre
<1> QED
  BY <1>1 DEF Follows, Lasting

LEMMA DoneBeforeKept ==
    ASSUME StoresInv, WritersKnown, Lasting, NEW c \in Deciding, Adds(c), NEW id,
           NEW r, r.after \subseteq Over
    PROVE  DoneBefore(c, id, r)' = DoneBefore(c, id, r)
<1>1. Running \cap Over = {}
  BY DEF Running, Over
<1> QED
  BY <1>1, WritesGrow DEF DoneBefore

LEMMA MayFindGrows ==
    ASSUME StoresInv, WritersKnown, Lasting, NEW c \in Deciding, Adds(c), NEW id,
           NEW r, r.after \subseteq Over, r.since[c] \in 0..Len(file[c]),
           NEW x \in MayFind(c, id, r)
    PROVE  x \in MayFind(c, id, r)'
<1>1. mirrored' = mirrored /\ faults \in Nat /\ faults' \in Nat /\ faults <= faults'
  BY DEF Lasting
<1>2. CASE ~mirrored
  <2>1. PICK n \in r.since[c]..Len(file[c]) : x = LatestIn(SubSeq(file[c], 1, n), id)
    BY <1>2 DEF MayFind
  <2>2. /\ Len(file[c]) \in Nat /\ Len(file'[c]) \in Nat /\ Len(file[c]) <= Len(file'[c])
        /\ \A k \in 0..Len(file[c]) : SubSeq(file'[c], 1, k) = SubSeq(file[c], 1, k)
    BY PrefixGrow
  <2>3. n \in 0..Len(file[c]) /\ n \in r.since[c]..Len(file'[c])
    BY <2>1, <2>2
  <2>4. x = LatestIn(SubSeq(file'[c], 1, n), id)
    BY <2>1, <2>2, <2>3
  <2> QED
    BY <1>1, <1>2, <2>3, <2>4 DEF MayFind
<1>3. \A n \in Writes(c, id) : n \in Writes(c, id)'
  BY WritesGrow
<1>4. PastRecord(c, id)' = PastRecord(c, id)
  BY WritesGrow
<1>5. CASE mirrored /\ faults' > 0
  <2>1. x \in Writes(c, id) \/ x = PastRecord(c, id)
    BY <1>5 DEF MayFind
  <2> QED
    BY <1>1, <1>3, <1>4, <1>5, <2>1 DEF MayFind
<1>6. CASE mirrored /\ faults = 0 /\ faults' = 0
  <2>1. \/ x \in Writes(c, id) /\ \A n \in DoneBefore(c, id, r) : ~Follows(n, x)
        \/ x = PastRecord(c, id) /\ DoneBefore(c, id, r) = {}
    BY <1>6 DEF MayFind
  <2>2. DoneBefore(c, id, r)' = DoneBefore(c, id, r)
    BY DoneBeforeKept
  <2>3. \A n \in DoneBefore(c, id, r) : Follows(n, x)' <=> Follows(n, x)
    BY FollowsKept DEF DoneBefore
  <2>4. \/ x \in Writes(c, id)' /\ \A n \in DoneBefore(c, id, r)' : ~Follows(n, x)'
        \/ x = PastRecord(c, id)' /\ DoneBefore(c, id, r)' = {}
    BY <1>3, <1>4, <2>1, <2>2, <2>3
  <2> QED
    BY <1>1, <1>6, <2>4 DEF MayFind
<1> QED
  BY <1>1, <1>2, <1>5, <1>6

LEMMA MaySeeGrows ==
    ASSUME StoresInv, WritersKnown, Lasting, Adds("members"), NEW scope,
           NEW r, r.after \subseteq Over, r.since["members"] \in 0..Len(file["members"]),
           NEW seen \in MaySee(scope, r)
    PROVE  seen \in MaySee(scope, r)'
<1>1. mirrored' = mirrored /\ "members" \in Deciding
  BY DEF Lasting, Deciding
<1>2. CASE ~mirrored
  <2>1. PICK n \in r.since["members"]..Len(file["members"]) :
            seen = [p \in People |-> LatestIn(SubSeq(file["members"], 1, n), MemberId(scope, p))]
    BY <1>2 DEF MaySee
  <2>2. /\ Len(file["members"]) \in Nat /\ Len(file'["members"]) \in Nat
        /\ Len(file["members"]) <= Len(file'["members"])
        /\ \A k \in 0..Len(file["members"]) :
              SubSeq(file'["members"], 1, k) = SubSeq(file["members"], 1, k)
    BY <1>1, PrefixGrow
  <2>3. n \in 0..Len(file["members"]) /\ n \in r.since["members"]..Len(file'["members"])
    BY <2>1, <2>2
  <2>4. SubSeq(file["members"], 1, n) = SubSeq(file'["members"], 1, n)
    BY <2>2, <2>3
  <2>5. seen = [p \in People |-> LatestIn(SubSeq(file'["members"], 1, n), MemberId(scope, p))]
    BY <2>1, <2>4
  <2> QED
    BY <1>1, <1>2, <2>3, <2>5 DEF MaySee
<1>3. CASE mirrored
  <2>1. /\ seen \in [People -> UNION {MayFind("members", MemberId(scope, p), r) : p \in People}]
        /\ \A p \in People : seen[p] \in MayFind("members", MemberId(scope, p), r)
    BY <1>3 DEF MaySee
  <2>2. \A p \in People : seen[p] \in MayFind("members", MemberId(scope, p), r)'
    BY <1>1, <2>1, MayFindGrows
  <2>3. seen \in [People -> UNION {MayFind("members", MemberId(scope, p), r)' : p \in People}]
    BY <2>1, <2>2
  <2> QED
    BY <1>1, <1>3, <2>2, <2>3 DEF MaySee
<1> QED
  BY <1>2, <1>3
-----------------------------------------------------------------------------
(* What is read is what may be found.                                      *)

Pending(c, n) ==
    \E p \in Running :
       req[p].pc \in {"audit", "mirror"} /\ req[p].coll = c /\ req[p].next = n

(* Before a request lets somebody in it writes no more than an ownership.  *)
Early(r) ==
    \/ r.pc \in {"direct", "inherit", "findOrg", "ensure"}
    \/ r.pc \in WriteStages /\ r.then = "admitted"

WritersOK ==
    /\ WritersKnown
    /\ \A c \in Deciding : \A i \in DOMAIN file[c] :
          file[c][i].req \in Running /\ Early(req[file[c][i].req]) =>
             file[c][i].by = "first-signed-writer"
    /\ \A p \in Running : req[p].pc \in {"audit", "mirror"} /\ req[p].coll \in Deciding =>
          req[p].next \in Writes(req[p].coll, req[p].id)

(* A row is a record that was written, and with no upsert lost it is one   *)
(* that nobody who was done has written anew.                              *)
RowsFresh ==
    mirrored => \A c \in Deciding : \A id :
       /\ Row(c, id) \in Writes(c, id) \cup {PastRecord(c, id)}
       /\ faults = 0 => \A n \in Writes(c, id) :
             Pending(c, n) \/ (Row(c, id) \in Writes(c, id) /\ ~Follows(n, Row(c, id)))

(* The record that counts is one that was written, or the past one.        *)
LEMMA LatestWritten ==
    ASSUME FilesOK, ClockOK, NEW c \in Deciding, NEW id
    PROVE  LatestBy(c, id) \in Writes(c, id) \cup {PastRecord(c, id)}
<1>1. c \in Stamped
  BY DEF Deciding, Stamped, Tables
<1>2. CASE LatestBy(c, id) = Nothing /\ \A i \in DOMAIN file[c] : file[c][i].id # id
  <2>1. Entries(c, id) = {}
    BY <1>2 DEF Entries
  <2>2. PastRecord(c, id) = Nothing
    BY <2>1 DEF PastRecord, Newest
  <2> QED
    BY <1>2, <2>2
<1>3. ASSUME NEW i \in DOMAIN file[c], LatestBy(c, id) = file[c][i], file[c][i].id = id,
             \A j \in DOMAIN file[c] : file[c][j].id = id =>
                   /\ file[c][j].at <= file[c][i].at
                   /\ file[c][j].at = file[c][i].at => j <= i
      PROVE  LatestBy(c, id) \in Writes(c, id) \cup {PastRecord(c, id)}
  <2>1. i \in Entries(c, id)
    BY <1>3 DEF Entries
  <2>2. CASE i \in New(c, id)
    BY <1>3, <2>2 DEF Writes
  <2>3. CASE i \notin New(c, id)
    <3>1. PICK old : old = Entries(c, id) \ New(c, id)
      OBVIOUS
    <3>2. old \subseteq DOMAIN file[c] /\ i \in old
      BY <2>1, <2>3, <3>1 DEF Entries
    <3>3. DOMAIN file[c] = 1..Len(file[c]) /\ Len(file[c]) \in Nat
      BY <1>1, StampsAre, LogFacts
    <3>4. clock \in Int /\ \A j \in DOMAIN file[c] : file[c][j].at \in Int /\ file[c][j].at <= clock
      BY <1>1, StampsAre
    <3>5. PICK k \in old :
              /\ Newest(file[c], old) = file[c][k]
              /\ \A j \in old : file[c][j].at <= file[c][k].at
                                /\ (file[c][j].at = file[c][k].at => j <= k)
      BY <3>2, <3>3, <3>4, NewestIs
    <3>6. k \in DOMAIN file[c] /\ file[c][k].id = id
      BY <3>1, <3>2 DEF Entries
    <3>7. file[c][k].at <= file[c][i].at /\ (file[c][k].at = file[c][i].at => k <= i)
      BY <1>3, <3>6
    <3>8. file[c][i].at <= file[c][k].at /\ (file[c][i].at = file[c][k].at => i <= k)
      BY <3>2, <3>5
    <3>9. i = k
      <4>1. file[c][i].at \in Int /\ file[c][k].at \in Int /\ i \in Int /\ k \in Int
        BY <3>3, <3>4, <3>6
      <4> QED
        BY <4>1, <3>7, <3>8
    <3>10. PastRecord(c, id) = file[c][i]
      BY <3>1, <3>5, <3>9 DEF PastRecord
    <3> QED
      BY <1>3, <3>10
  <2> QED
    BY <2>2, <2>3
<1> QED
  BY <1>1, <1>2, <1>3, LatestByIs

LEMMA FoundIs ==
    ASSUME StoresInv, WritersOK, RowsFresh, SinceOK, NEW q \in Running, NEW c \in Deciding,
           NEW id, NEW fromFile \in BOOLEAN, ReadRecords(c, fromFile),
           Lasting, file' = file,
           NEW r, r.since = req[q].since, r.after = req[q].after
    PROVE  Record(c, id, fromFile) \in MayFind(c, id, r)'
<1>1. c \in Tables /\ c \in Collections
  BY DEF Deciding, Tables, Collections
<1>2. q \in Requests /\ r.after \subseteq Over /\ r.since[c] \in 0..Len(file[c])
  BY DEF StoresInv, RequestsOK, SinceOK, Running
<1>3. mirrored' = mirrored /\ faults \in Nat /\ faults' \in Nat /\ WritersKnown
  BY DEF Lasting, WritersOK
<1>4. Adds(c)
  BY DEF Adds
<1>5. CASE Record(c, id, fromFile) \in MayFind(c, id, r)
  BY <1>2, <1>3, <1>4, <1>5, MayFindGrows
<1>6. CASE ~mirrored
  <2>1. Record(c, id, fromFile) = LatestIn(file[c], id)
    BY <1>6 DEF ReadRecords, Record, LatestBy
  <2>2. Log(file[c])
    BY <1>1 DEF StoresInv, FilesOK
  <2>3. Len(file[c]) \in r.since[c]..Len(file[c]) /\ SubSeq(file[c], 1, Len(file[c])) = file[c]
    BY <1>2, <2>2, LogFacts, Whole
  <2>4. Record(c, id, fromFile) \in MayFind(c, id, r)
    BY <1>6, <2>1, <2>3 DEF MayFind
  <2> QED
    BY <1>5, <2>4
<1>7. CASE mirrored /\ fromFile
  <2>1. faults' > 0
    BY <1>1, <1>3, <1>7 DEF ReadRecords
  <2>2. Record(c, id, fromFile) \in Writes(c, id) \cup {PastRecord(c, id)}
    BY <1>7, LatestWritten DEF Record, StoresInv
  <2>3. Writes(c, id)' = Writes(c, id) /\ PastRecord(c, id)' = PastRecord(c, id)
    BY DEF Writes, PastRecord, New, Entries
  <2> QED
    BY <1>3, <1>7, <2>1, <2>2, <2>3 DEF MayFind
<1>8. CASE mirrored /\ ~fromFile
  <2>1. Record(c, id, fromFile) = Row(c, id)
    BY <1>8 DEF Record
  <2>2. Row(c, id) \in Writes(c, id) \cup {PastRecord(c, id)}
    BY <1>8 DEF RowsFresh
  <2>3. CASE faults > 0
    BY <1>5, <1>8, <2>1, <2>2, <2>3 DEF MayFind
  <2>4. CASE faults = 0
    <3>1. ASSUME NEW n \in DoneBefore(c, id, r)
          PROVE  Row(c, id) \in Writes(c, id) /\ ~Follows(n, Row(c, id))
      <4>1. n \in Writes(c, id) /\ n.req \in Over
        BY <1>2, <3>1 DEF DoneBefore
      <4>2. ~Pending(c, n)
        <5>1. ASSUME NEW p \in Running, req[p].pc \in {"audit", "mirror"}, req[p].coll = c,
                     req[p].next = n
              PROVE  FALSE
          <6>1. p \in Requests
            BY DEF Running
          <6>2. NextOf(p, req[p])
            BY <5>1, <6>1, MirroredTypes
          <6>3. n.req = p
            BY <5>1, <6>2 DEF NextOf, Deciding
          <6> QED
            BY <4>1, <6>3 DEF Running, Over
        <5> QED
          BY <5>1 DEF Pending
      <4> QED
        BY <1>8, <2>4, <4>1, <4>2 DEF RowsFresh
    <3>2. Row(c, id) \in MayFind(c, id, r)
      BY <1>8, <2>2, <2>4, <3>1 DEF MayFind
    <3> QED
      BY <1>5, <2>1, <3>2
  <2> QED
    BY <1>3, <2>3, <2>4
<1> QED
  BY <1>6, <1>7, <1>8
-----------------------------------------------------------------------------
(* Who is let in.                                                          *)

Guarded == {"edit", "export", "member", "assign"}

Owners(r) == MayFind("sessions", r.target, r)

Unbarred(r) == \E seen \in MaySee(r.target, r) : ~Barred(seen, r)

LetIn(r) ==
    \/ \E seen \in MaySee(r.target, r) :
          Needed(seen, r) \/ (ActiveIn(seen) = {} /\ Nothing \in Owners(r))
    \/ \E a \in Owners(r) \ {Nothing} : \E seen \in MaySee(a.org, r) : Needed(seen, r)

(* Before the members of a scope decide it is the target, that no          *)
(* organization owns if there may be a first owner, or an owner of it.     *)
Deciders(r) ==
    \/ r.scope = r.target /\ (r.autoGrant => Nothing \in Owners(r))
    \/ /\ Unbarred(r) /\ ~r.autoGrant
       /\ \E a \in Owners(r) \ {Nothing} : r.scope = a.org

AccessOK(r) ==
    r.op \in Guarded =>
       /\ r.pc \in {"direct", "inherit", "findOrg", "ensure"} => r.by = Nothing
       /\ r.pc = "inherit" => Unbarred(r)
       /\ r.pc = "ensure" => Deciders(r)
       /\ r.pc \in {"admitted", "assign"} \cup WriteStages => LetIn(r) /\ Unbarred(r)

(* Only who asks, what of, and since when, matters to who may be seen.     *)
LEMMA AccessSame ==
    ASSUME NEW r, NEW n, n.op = r.op, n.who = r.who, n.target = r.target,
           n.since = r.since, n.after = r.after
    PROVE  /\ Owners(n) = Owners(r)
           /\ Unbarred(n) <=> Unbarred(r)
           /\ LetIn(n) <=> LetIn(r)
<1>1. \A c, id : MayFind(c, id, n) = MayFind(c, id, r)
  BY DEF MayFind, DoneBefore
<1>2. ASSUME NEW scope PROVE MaySee(scope, n) = MaySee(scope, r)
  <2>1. CASE ~mirrored
    BY <2>1 DEF MaySee
  <2>2. CASE mirrored
    <3>1. \A p \in People :
             MayFind("members", MemberId(scope, p), n) = MayFind("members", MemberId(scope, p), r)
      BY <1>1
    <3>2. UNION {MayFind("members", MemberId(scope, p), n) : p \in People}
            = UNION {MayFind("members", MemberId(scope, p), r) : p \in People}
      BY <3>1
    <3> QED
      BY <2>2, <3>1, <3>2 DEF MaySee
  <2> QED
    BY <2>1, <2>2
<1>3. \A seen : (Barred(seen, n) <=> Barred(seen, r)) /\ (Needed(seen, n) <=> Needed(seen, r))
  BY DEF Barred, Needed, NeededRoles
<1>4. Owners(n) = Owners(r)
  BY <1>1 DEF Owners
<1>5. Unbarred(n) <=> Unbarred(r)
  BY <1>2, <1>3 DEF Unbarred
<1> QED
  BY <1>2, <1>3, <1>4, <1>5 DEF LetIn

Watching(r) ==
    r.after \subseteq Over /\ \A c \in Deciding : r.since[c] \in 0..Len(file[c])

LEMMA AccessGrows ==
    ASSUME StoresInv, WritersKnown, Lasting, Adds("members"), Adds("sessions"),
           NEW r, Watching(r)
    PROVE  /\ \A x \in Owners(r) : x \in Owners(r)'
           /\ \A scope : \A seen \in MaySee(scope, r) : seen \in MaySee(scope, r)'
           /\ Unbarred(r) => Unbarred(r)'
           /\ LetIn(r) => LetIn(r)'
           /\ Deciders(r) => Deciders(r)'
           /\ AccessOK(r) => AccessOK(r)'
<1>1. \A x \in Owners(r) : x \in Owners(r)'
  BY MayFindGrows DEF Owners, Watching, Deciding
<1>2. \A scope : \A seen \in MaySee(scope, r) : seen \in MaySee(scope, r)'
  BY MaySeeGrows DEF Watching, Deciding
<1>3. Unbarred(r) => Unbarred(r)'
  BY <1>2 DEF Unbarred, Barred, ActiveIn
<1>4. LetIn(r) => LetIn(r)'
  <2>1. ASSUME NEW seen \in MaySee(r.target, r),
               Needed(seen, r) \/ (ActiveIn(seen) = {} /\ Nothing \in Owners(r))
        PROVE  LetIn(r)'
    <3>1. seen \in MaySee(r.target, r)'
      BY <1>2
    <3>2. Needed(seen, r)' \/ (ActiveIn(seen) = {} /\ Nothing \in Owners(r)')
      BY <1>1, <2>1 DEF Needed, ActiveIn
    <3> QED
      BY <3>1, <3>2 DEF LetIn, ActiveIn
  <2>2. ASSUME NEW a \in Owners(r) \ {Nothing}, NEW seen \in MaySee(a.org, r), Needed(seen, r)
        PROVE  LetIn(r)'
    <3>1. a \in Owners(r)' /\ a # Nothing /\ seen \in MaySee(a.org, r)'
      BY <1>1, <1>2
    <3>2. Needed(seen, r)'
      BY <2>2 DEF Needed, ActiveIn
    <3> QED
      BY <3>1, <3>2 DEF LetIn
  <2> QED
    BY <2>1, <2>2 DEF LetIn
<1>5. Deciders(r) => Deciders(r)'
  BY <1>1, <1>3 DEF Deciders
<1>6. AccessOK(r) => AccessOK(r)'
  BY <1>3, <1>4, <1>5 DEF AccessOK
<1> QED
  BY <1>1, <1>2, <1>3, <1>4, <1>5, <1>6

SeenBy(scope, fromFile) == [p \in People |-> Record("members", MemberId(scope, p), fromFile)]

LEMMA SeenIs ==
    ASSUME StoresInv, WritersOK, RowsFresh, SinceOK, NEW q \in Running, NEW scope,
           NEW fromFile \in BOOLEAN, ReadRecords("members", fromFile),
           Lasting, file' = file,
           NEW r, r.since = req[q].since, r.after = req[q].after
    PROVE  SeenBy(scope, fromFile) \in MaySee(scope, r)'
<1>1. PICK seen : seen = SeenBy(scope, fromFile)
  OBVIOUS
<1>2. "members" \in Deciding /\ "members" \in Collections /\ mirrored' = mirrored
  BY DEF Deciding, Collections, Tables, Lasting
<1>3. CASE ~mirrored
  <2>1. fromFile = TRUE
    BY <1>3 DEF ReadRecords
  <2>2. Log(file["members"])
    BY <1>2 DEF StoresInv, FilesOK
  <2>3. SubSeq(file["members"], 1, Len(file["members"])) = file["members"]
        /\ Len(file["members"]) \in Nat
    BY <2>2, LogFacts, Whole
  <2>4. r.since["members"] \in 0..Len(file["members"])
    BY <1>2 DEF SinceOK
  <2>5. Len(file["members"]) \in r.since["members"]..Len(file["members"])
    BY <2>3, <2>4
  <2>6. seen = [p \in People |->
                  LatestIn(SubSeq(file["members"], 1, Len(file["members"])), MemberId(scope, p))]
    BY <1>1, <2>1, <2>3 DEF SeenBy, Record, LatestBy
  <2>7. seen \in MaySee(scope, r)'
    BY <1>2, <1>3, <2>5, <2>6 DEF MaySee
  <2> QED
    BY <1>1, <2>7
<1>4. CASE mirrored
  <2>1. \A p \in People : seen[p] = Record("members", MemberId(scope, p), fromFile)
    BY <1>1 DEF SeenBy
  <2>2. \A p \in People :
           Record("members", MemberId(scope, p), fromFile) \in MayFind("members", MemberId(scope, p), r)'
    BY <1>2, FoundIs
  <2>3. seen \in [People -> UNION {MayFind("members", MemberId(scope, p), r)' : p \in People}]
    BY <1>1, <2>2 DEF SeenBy
  <2>4. seen \in MaySee(scope, r)'
    BY <1>2, <1>4, <2>1, <2>2, <2>3 DEF MaySee
  <2> QED
    BY <1>1, <2>4
<1> QED
  BY <1>3, <1>4

(* What the handlers make of the members they read.                        *)
LEMMA ActiveIs ==
    ASSUME StoresInv, NEW scope, NEW fromFile \in BOOLEAN, NEW who \in People,
           NEW seen, seen = SeenBy(scope, fromFile)
    PROVE  /\ Active(scope, fromFile) = {} <=> ActiveIn(seen) = {}
           /\ RoleOf(who, Active(scope, fromFile)) # {} <=> who \in ActiveIn(seen)
           /\ \A role \in RoleOf(who, Active(scope, fromFile)) : role = seen[who].role
<1>1. \A p \in People : seen[p] = Record("members", MemberId(scope, p), fromFile)
  BY DEF SeenBy
<1>2. \A p \in People : seen[p] # Nothing => seen[p].id = MemberId(scope, p)
  BY <1>1, RecordTypes DEF StoresInv
<1>3. Members(scope, fromFile) = {seen[p] : p \in People} \ {Nothing}
  BY <1>1 DEF Members
<1>4. \A p \in People : MemberId(scope, p).person = p
  BY DEF MemberId
<1>5. Active(scope, fromFile) = {seen[p] : p \in ActiveIn(seen)}
  BY <1>3 DEF Active, ActiveIn
<1>6. \A p \in ActiveIn(seen) : p \in People /\ seen[p].id.person = p
  BY <1>2, <1>4 DEF ActiveIn
<1>7. RoleOf(who, Active(scope, fromFile)) = {seen[p].role : p \in {p \in ActiveIn(seen) : p = who}}
  BY <1>5, <1>6 DEF RoleOf
<1>8. Active(scope, fromFile) = {} <=> ActiveIn(seen) = {}
  BY <1>5
<1>9. RoleOf(who, Active(scope, fromFile)) # {} <=> who \in ActiveIn(seen)
  BY <1>7
<1>10. \A role \in RoleOf(who, Active(scope, fromFile)) : role = seen[who].role
  BY <1>7
<1> QED
  BY <1>8, <1>9, <1>10

(* No organization owns an organization.                                   *)
LEMMA OrgsUnowned ==
    ASSUME StoresInv, WritersKnown, NEW o \in Orgs, NEW r, Watching(r)
    PROVE  Nothing \in MayFind("sessions", o, r)
<1>1. "sessions" \in Deciding /\ "sessions" \in Stamped /\ "sessions" \in Collections
  BY DEF Deciding, Stamped, Collections, Tables
<1>2. \A i \in DOMAIN file["sessions"] : file["sessions"][i].id # o
  <2>1. \A i \in DOMAIN file["sessions"] : file["sessions"][i] \in SessionRecords
    BY DEF StoresInv, FilesOK
  <2>2. \A m \in SessionRecords : m.id # o
    BY ScopesAssumption DEF SessionRecords
  <2> QED
    BY <2>1, <2>2
<1>3. CASE ~mirrored
  <2>1. Log(file["sessions"])
    BY <1>1 DEF StoresInv, FilesOK
  <2>2. Len(file["sessions"]) \in r.since["sessions"]..Len(file["sessions"])
        /\ SubSeq(file["sessions"], 1, Len(file["sessions"])) = file["sessions"]
    BY <1>1, <2>1, LogFacts, Whole DEF Watching
  <2>3. LatestIn(file["sessions"], o) = Nothing
    BY <1>2 DEF LatestIn, Newest
  <2> QED
    BY <1>3, <2>2, <2>3 DEF MayFind
<1>4. CASE mirrored
  <2>1. Entries("sessions", o) = {}
    BY <1>2 DEF Entries
  <2>2. PastRecord("sessions", o) = Nothing /\ DoneBefore("sessions", o, r) = {}
    BY <2>1 DEF PastRecord, Newest, DoneBefore, Writes, New
  <2> QED
    BY <1>4, <2>2 DEF MayFind
<1> QED
  BY <1>3, <1>4

(* A session is assigned to an organization that has its row, as long as   *)
(* no call to Supabase fails.                                              *)
OrgRowsOK ==
    mirrored /\ faults = 0 => \A p \in Running :
       req[p].pc \in WriteStages /\ req[p].coll = "sessions" =>
          \E o \in rows["orgs"] : o.id = req[p].target

AccessInv ==
    /\ StoresInv /\ WritersOK /\ SinceOK /\ RowsFresh /\ OrgRowsOK
    /\ \A q \in Running : \A r : r = req[q] => AccessOK(r)

LEMMA IsWatching ==
    ASSUME StoresInv, SinceOK, NEW q \in Running, NEW r,
           r.since = req[q].since, r.after = req[q].after
    PROVE  Watching(r)
BY DEF StoresInv, RequestsOK, SinceOK, Watching, Running

(* What a step of its handler leaves of what may be seen by a request.     *)
LEMMA StillSeen ==
    ASSUME AccessInv, NEW q \in Running, Steps(q), NEW n, SameRequest(n, req[q])
    PROVE  /\ Owners(n) = Owners(req[q])
           /\ Unbarred(n) <=> Unbarred(req[q])
           /\ LetIn(n) <=> LetIn(req[q])
           /\ Lasting /\ Watching(n) /\ n.since = req[q].since /\ n.after = req[q].after
           /\ n.who = req[q].who /\ n.op = req[q].op /\ n.target = req[q].target
           /\ \A x \in Owners(n) : x \in Owners(n)'
           /\ \A scope : \A seen \in MaySee(scope, n) : seen \in MaySee(scope, n)'
           /\ Unbarred(n) => Unbarred(n)'
           /\ LetIn(n) => LetIn(n)'
           /\ AccessOK(n) => AccessOK(n)'
<1>1. q \in Requests /\ StoresInv /\ WritersKnown /\ SinceOK
  BY DEF AccessInv, WritersOK, Running
<1>2. Lasting /\ Adds("members") /\ Adds("sessions")
  BY <1>1, LastingIs, AddsIs DEF Deciding
<1>3. /\ n.since = req[q].since /\ n.after = req[q].after
      /\ n.who = req[q].who /\ n.op = req[q].op /\ n.target = req[q].target
  BY DEF SameRequest, SameAsk
<1>4. Watching(n)
  BY <1>1, <1>3, IsWatching
<1>5. /\ Owners(n) = Owners(req[q])
      /\ Unbarred(n) <=> Unbarred(req[q])
      /\ LetIn(n) <=> LetIn(req[q])
  BY <1>3, AccessSame
<1>6. /\ \A x \in Owners(n) : x \in Owners(n)'
      /\ \A scope : \A seen \in MaySee(scope, n) : seen \in MaySee(scope, n)'
      /\ Unbarred(n) => Unbarred(n)'
      /\ LetIn(n) => LetIn(n)'
      /\ AccessOK(n) => AccessOK(n)'
  BY <1>1, <1>2, <1>4, AccessGrows
<1> QED
  BY <1>2, <1>3, <1>4, <1>5, <1>6

LEMMA DirectMemberAccess ==
    ASSUME AccessInv, NEW q \in Requests, DirectMember(q)
    PROVE  \E n : req' = [req EXCEPT ![q] = n] /\ AccessOK(n)'
<1>1. q \in Running /\ Handling(req[q]) /\ WorkspaceShape(q, req[q]) /\ req[q].pc = "direct"
  BY InWorkspace DEF DirectMember, Stages, AccessInv
<1>2. PICK fromFile \in BOOLEAN :
         /\ ReadRecords("members", fromFile) /\ file' = file
         /\ req' = [req EXCEPT ![q] = [req[q] EXCEPT !.pc =
                     IF RoleOf(req[q].who, Active(req[q].scope, fromFile)) # {}
                     THEN "ensure" ELSE "inherit"]]
  BY DEF DirectMember, Go
<1>3. PICK pc : pc = IF RoleOf(req[q].who, Active(req[q].scope, fromFile)) # {}
                     THEN "ensure" ELSE "inherit"
  OBVIOUS
<1>4. PICK n : n = [req[q] EXCEPT !.pc = pc]
  OBVIOUS
<1>5. /\ SameRequest(n, req[q]) /\ n.pc = pc /\ n.scope = req[q].scope
      /\ n.autoGrant = req[q].autoGrant /\ n.by = req[q].by
  BY <1>1, <1>4 DEF Handling, SameRequest, SameAsk, Locals
<1>6. /\ n.scope = n.target /\ n.autoGrant = FALSE /\ n.who \in People
      /\ req[q].scope = n.target /\ req[q].who = n.who /\ n.op = req[q].op
  BY <1>1, <1>5 DEF WorkspaceShape, SameRequest, SameAsk
<1>7. n.op \in Guarded => n.by = Nothing
  BY <1>1, <1>5, <1>6 DEF AccessInv, AccessOK
<1>8. ASSUME pc = "ensure" PROVE AccessOK(n)'
  BY <1>5, <1>6, <1>7, <1>8 DEF AccessOK, Deciders, WriteStages
<1>9. ASSUME pc = "inherit" PROVE AccessOK(n)'
  <2>1. RoleOf(n.who, Active(n.target, fromFile)) = {}
    BY <1>3, <1>6, <1>9
  <2>2. PICK seen : seen = SeenBy(n.target, fromFile)
    OBVIOUS
  <2>3. n.who \notin ActiveIn(seen)
    BY <1>6, <2>1, <2>2, ActiveIs DEF AccessInv
  <2>4. Lasting /\ n.since = req[q].since /\ n.after = req[q].after
    BY <1>1, <1>5, StillSeen DEF Steps, WorkspaceStep
  <2>5. seen \in MaySee(n.target, n)'
    BY <1>1, <1>2, <2>2, <2>4, SeenIs DEF AccessInv
  <2>6. Unbarred(n)'
    BY <2>3, <2>5 DEF Unbarred, Barred, ActiveIn
  <2> QED
    BY <1>5, <1>7, <1>9, <2>6 DEF AccessOK, WriteStages
<1>10. req' = [req EXCEPT ![q] = n]
  BY <1>2, <1>3, <1>4
<1> QED
  BY <1>3, <1>4, <1>8, <1>9, <1>10

LEMMA SessionOrganizationAccess ==
    ASSUME AccessInv, NEW q \in Requests, SessionOrganization(q)
    PROVE  \E n : req' = [req EXCEPT ![q] = n] /\ AccessOK(n)'
<1>1. q \in Running /\ Handling(req[q]) /\ WorkspaceShape(q, req[q]) /\ req[q].pc = "inherit"
  BY InWorkspace DEF SessionOrganization, Stages, AccessInv
<1>2. PICK fromFile \in BOOLEAN :
         /\ ReadRecords("sessions", fromFile) /\ file' = file
         /\ LET a == Record("sessions", req[q].scope, fromFile)
            IN  req' = [req EXCEPT ![q] =
                          IF a # Nothing
                          THEN [req[q] EXCEPT !.pc = "ensure", !.scope = a.org]
                          ELSE [req[q] EXCEPT !.pc = "ensure", !.autoGrant = TRUE]]
  BY DEF SessionOrganization, Go
<1> DEFINE a == Record("sessions", req[q].scope, fromFile)
<1>3. PICK n : n = IF a # Nothing
                   THEN [req[q] EXCEPT !.pc = "ensure", !.scope = a.org]
                   ELSE [req[q] EXCEPT !.pc = "ensure", !.autoGrant = TRUE]
  OBVIOUS
<1>4. /\ SameRequest(n, req[q]) /\ n.pc = "ensure" /\ n.by = req[q].by
      /\ n.scope = IF a # Nothing THEN a.org ELSE req[q].scope
      /\ n.autoGrant = IF a # Nothing THEN req[q].autoGrant ELSE TRUE
  BY <1>1, <1>3 DEF Handling, SameRequest, SameAsk, Locals
<1>5. req[q].scope = n.target /\ req[q].autoGrant = FALSE /\ n.op = req[q].op
  BY <1>1, <1>4 DEF WorkspaceShape, SameRequest, SameAsk
<1>6. n.op \in Guarded => n.by = Nothing /\ Unbarred(req[q])
  BY <1>1, <1>4, <1>5 DEF AccessInv, AccessOK
<1>7. /\ Lasting /\ n.since = req[q].since /\ n.after = req[q].after
      /\ Unbarred(n) <=> Unbarred(req[q])
      /\ Unbarred(n) => Unbarred(n)'
  BY <1>1, <1>4, StillSeen DEF Steps, WorkspaceStep
<1>8. a \in Owners(n)'
  <2>1. "sessions" \in Deciding
    BY DEF Deciding
  <2>2. PICK id : id = n.target
    OBVIOUS
  <2>3. a = Record("sessions", id, fromFile)
    BY <1>2, <1>5, <2>2
  <2>4. a \in MayFind("sessions", id, n)'
    BY <1>1, <1>2, <1>7, <2>1, <2>3, FoundIs DEF AccessInv
  <2> QED
    BY <2>2, <2>4 DEF Owners
<1>9. n.op \in Guarded => Deciders(n)'
  BY <1>4, <1>5, <1>6, <1>7, <1>8 DEF Deciders
<1>10. AccessOK(n)'
  BY <1>4, <1>6, <1>9 DEF AccessOK, WriteStages
<1> QED
  BY <1>2, <1>3, <1>10

LEMMA GuardedGoes ==
    ASSUME AccessInv, NEW q \in Running, Steps(q), NEW n, SameRequest(n, req[q]),
           LetIn(req[q]), Unbarred(req[q]),
           n.pc \in {"admitted", "assign"} \cup WriteStages
    PROVE  AccessOK(n)'
<1>1. LetIn(n)' /\ Unbarred(n)'
  BY StillSeen
<1> QED
  BY <1>1 DEF AccessOK, WriteStages

LEMMA UnguardedGoes ==
    ASSUME NEW n, n.op \notin Guarded
    PROVE  AccessOK(n)'
BY DEF AccessOK

LEMMA ClosedAccess ==
    ASSUME NEW n, Closed(n)
    PROVE  AccessOK(n)'
BY DEF AccessOK, Closed, Ended, WriteStages

LEMMA GetOrganizationAccess ==
    ASSUME AccessInv, NEW q \in Requests, GetOrganization(q)
    PROVE  \E n : req' = [req EXCEPT ![q] = n] /\ AccessOK(n)'
<1>1. q \in Running /\ Handling(req[q]) /\ WorkspaceShape(q, req[q]) /\ req[q].pc = "findOrg"
  BY InWorkspace DEF GetOrganization, Stages, AccessInv
<1>2. PICK t \in Now, found \in BOOLEAN :
         Go(q, IF found
               THEN [req[q] EXCEPT !.pc = "ensure", !.autoGrant = TRUE]
               ELSE IF req[q].op = "org" THEN Admitted(req[q], t)
               ELSE To(req[q], "refused"))
  BY DEF GetOrganization
<1>3. CASE found
  <2>1. PICK n : n = [req[q] EXCEPT !.pc = "ensure", !.autoGrant = TRUE]
    OBVIOUS
  <2>2. /\ SameRequest(n, req[q]) /\ n.pc = "ensure" /\ n.by = req[q].by
        /\ n.scope = req[q].scope /\ n.autoGrant = TRUE
    BY <1>1, <2>1 DEF Handling, SameRequest, SameAsk, Locals
  <2>3. n.target \in Orgs /\ n.scope = n.target /\ n.op = req[q].op
    BY <1>1, <2>2 DEF WorkspaceShape, SameRequest, SameAsk
  <2>4. n.op \in Guarded => n.by = Nothing
    BY <1>1, <2>2, <2>3 DEF AccessInv, AccessOK
  <2>5. Watching(n) /\ (\A x \in Owners(n) : x \in Owners(n)')
    BY <1>1, <2>2, StillSeen DEF Steps, WorkspaceStep
  <2>6. Nothing \in Owners(n)
    BY <2>3, <2>5, OrgsUnowned DEF Owners, AccessInv, WritersOK
  <2>7. Deciders(n)'
    BY <2>2, <2>3, <2>5, <2>6 DEF Deciders
  <2>8. AccessOK(n)'
    BY <2>2, <2>4, <2>7 DEF AccessOK, WriteStages
  <2> QED
    BY <1>2, <1>3, <2>1, <2>8 DEF Go
<1>4. CASE ~found /\ req[q].op = "org"
  <2>1. PICK n : n = Admitted(req[q], t)
    OBVIOUS
  <2>2. n.op = "org"
    BY <1>1, <1>4, <2>1, Admitting DEF SameRequest, SameAsk
  <2>3. AccessOK(n)'
    BY <2>2, UnguardedGoes DEF Guarded
  <2> QED
    BY <1>2, <1>4, <2>1, <2>3 DEF Go
<1>5. CASE ~found /\ req[q].op # "org"
  <2>1. PICK n : n = To(req[q], "refused")
    OBVIOUS
  <2>2. AccessOK(n)'
    BY <2>1, Ending, ClosedAccess DEF Ended
  <2> QED
    BY <1>2, <1>5, <2>1, <2>2 DEF Go
<1> QED
  BY <1>3, <1>4, <1>5

(* Who is let in by the members of the target, or of its owner.            *)
LEMMA EnsureAccess ==
    ASSUME AccessInv, NEW q \in Requests, Ensure(q)
    PROVE  \E n : req' = [req EXCEPT ![q] = n] /\ AccessOK(n)'
<1>1. q \in Running /\ Handling(req[q]) /\ WorkspaceShape(q, req[q]) /\ req[q].pc = "ensure"
  BY InWorkspace DEF Ensure, Stages, AccessInv
<1>2. PICK r : r = req[q]
  OBVIOUS
<1>3. /\ Handling(r) /\ r.op \in WorkspaceOps /\ r.who \in People
      /\ r.op \in Guarded => Deciders(r)
  BY <1>1, <1>2 DEF AccessInv, AccessOK, WorkspaceShape
<1>4. PICK fromFile \in BOOLEAN, t \in Now :
         /\ ReadRecords("members", fromFile) /\ file' = file
         /\ req' = [req EXCEPT ![q] =
              IF Active(r.scope, fromFile) = {} /\ r.autoGrant
              THEN Write(r, "members", MemberId(r.scope, r.who),
                         Patch(r.who, "owner"), "first-signed-writer", t, "admitted")
              ELSE IF RoleOf(r.who, Active(r.scope, fromFile)) \cap NeededRoles(r) # {}
              THEN Admitted(r, t)
              ELSE To(r, "refused")]
  BY <1>2 DEF Ensure, Go
<1>5. PICK seen : seen = SeenBy(r.scope, fromFile)
  OBVIOUS
<1>6. /\ Active(r.scope, fromFile) = {} <=> ActiveIn(seen) = {}
      /\ RoleOf(r.who, Active(r.scope, fromFile)) # {} <=> r.who \in ActiveIn(seen)
      /\ \A role \in RoleOf(r.who, Active(r.scope, fromFile)) : role = seen[r.who].role
  BY <1>3, <1>5, ActiveIs DEF AccessInv
<1>7. ASSUME NEW n, SameRequest(n, r), n.pc \in {"admitted", "assign"} \cup WriteStages,
             \/ ActiveIn(seen) = {} /\ r.autoGrant
             \/ r.who \in ActiveIn(seen) /\ seen[r.who].role \in NeededRoles(r)
      PROVE  AccessOK(n)'
  <2>1. CASE n.op \notin Guarded
    BY <2>1, UnguardedGoes
  <2>2. CASE n.op \in Guarded
    <3>1. /\ n.since = req[q].since /\ n.after = req[q].after /\ Lasting
          /\ n.who = r.who /\ n.op = r.op /\ n.target = r.target
          /\ Owners(n) = Owners(r)
          /\ Unbarred(n) <=> Unbarred(r)
          /\ \A x \in Owners(n) : x \in Owners(n)'
          /\ Unbarred(n) => Unbarred(n)'
      BY <1>1, <1>2, <1>7, StillSeen DEF Steps, WorkspaceStep
    <3>2. seen \in MaySee(r.scope, n)'
      BY <1>1, <1>4, <1>5, <3>1, SeenIs DEF AccessInv
    <3>3. Deciders(r)
      BY <1>3, <2>2, <3>1
    <3>4. \/ ActiveIn(seen) = {} /\ r.autoGrant
          \/ Needed(seen, n)
      BY <1>7, <3>1 DEF Needed, NeededRoles
    <3>5. ~Barred(seen, n)
      BY <3>4 DEF Barred, Needed
    <3>6. CASE r.scope = r.target /\ (r.autoGrant => Nothing \in Owners(r))
      <4>1. seen \in MaySee(n.target, n)'
        BY <3>1, <3>2, <3>6
      <4>2. Unbarred(n)'
        BY <3>5, <4>1 DEF Unbarred, Barred, ActiveIn
      <4>3. Needed(seen, n) \/ (ActiveIn(seen) = {} /\ Nothing \in Owners(n)')
        BY <3>1, <3>4, <3>6
      <4>4. LetIn(n)'
        BY <4>1, <4>3 DEF LetIn, Needed, ActiveIn
      <4> QED
        BY <1>7, <4>2, <4>4 DEF AccessOK, WriteStages
    <3>7. CASE Unbarred(r) /\ ~r.autoGrant /\ \E a \in Owners(r) \ {Nothing} : r.scope = a.org
      <4>1. PICK a \in Owners(n)' \ {Nothing} : r.scope = a.org
        BY <3>1, <3>7
      <4>2. seen \in MaySee(a.org, n)'
        BY <3>2, <4>1
      <4>3. Needed(seen, n)
        BY <3>4, <3>7
      <4>4. LetIn(n)'
        BY <4>1, <4>2, <4>3 DEF LetIn, Needed, ActiveIn
      <4>5. Unbarred(n)'
        BY <3>1, <3>7
      <4> QED
        BY <1>7, <4>4, <4>5 DEF AccessOK, WriteStages
    <3> QED
      BY <3>3, <3>6, <3>7 DEF Deciders
  <2> QED
    BY <2>1, <2>2
<1>8. CASE Active(r.scope, fromFile) = {} /\ r.autoGrant
  <2>1. PICK n : n = Write(r, "members", MemberId(r.scope, r.who),
                           Patch(r.who, "owner"), "first-signed-writer", t, "admitted")
    OBVIOUS
  <2>2. SameRequest(n, r) /\ n.pc = "read"
    BY <1>3, <2>1, Writing
  <2>3. AccessOK(n)'
    BY <1>6, <1>7, <1>8, <2>2 DEF WriteStages
  <2> QED
    BY <1>4, <1>8, <2>1, <2>3
<1>9. CASE ~(Active(r.scope, fromFile) = {} /\ r.autoGrant)
           /\ RoleOf(r.who, Active(r.scope, fromFile)) \cap NeededRoles(r) # {}
  <2>1. PICK n : n = Admitted(r, t)
    OBVIOUS
  <2>2. SameRequest(n, r) /\ n.pc \in {"read", "assign"}
    BY <1>3, <2>1, Admitting DEF WorkspaceOps
  <2>3. r.who \in ActiveIn(seen) /\ seen[r.who].role \in NeededRoles(r)
    BY <1>6, <1>9
  <2>4. AccessOK(n)'
    BY <1>7, <2>2, <2>3 DEF WriteStages
  <2> QED
    BY <1>4, <1>9, <2>1, <2>4
<1>10. CASE /\ ~(Active(r.scope, fromFile) = {} /\ r.autoGrant)
            /\ RoleOf(r.who, Active(r.scope, fromFile)) \cap NeededRoles(r) = {}
  <2>1. PICK n : n = To(r, "refused")
    OBVIOUS
  <2>2. AccessOK(n)'
    BY <2>1, Ending, ClosedAccess DEF Ended
  <2> QED
    BY <1>4, <1>10, <2>1, <2>2
<1> QED
  BY <1>8, <1>9, <1>10

(* Once let in a request stays so.                                         *)
LEMMA AdmittedAccess ==
    ASSUME AccessInv, NEW q \in Requests, Steps(q),
           req[q].op \notin Guarded \/ req[q].pc \in {"admitted", "assign"} \cup WriteStages
    PROVE  \E n : req' = [req EXCEPT ![q] = n] /\ AccessOK(n)'
<1>1. PICK n : GoesWell(q, n)
  BY StepGoes DEF AccessInv
<1>2. /\ q \in Running /\ Handling(req[q]) /\ req' = [req EXCEPT ![q] = n]
      /\ \/ Handling(n) /\ SameRequest(n, req[q])
         \/ Closed(n) /\ SameAsk(n, req[q])
  BY <1>1 DEF GoesWell, Goes
<1>3. CASE Closed(n)
  BY <1>2, <1>3, ClosedAccess
<1>4. CASE req[q].op \notin Guarded
  <2>1. n.op \notin Guarded
    BY <1>2, <1>4 DEF SameRequest, SameAsk
  <2> QED
    BY <1>2, <2>1, UnguardedGoes
<1>5. CASE req[q].op \in Guarded /\ Handling(n)
  <2>1. req[q].pc \in {"admitted", "assign"} \cup WriteStages
    BY <1>5
  <2>2. LetIn(req[q]) /\ Unbarred(req[q])
    BY <1>2, <1>5, <2>1 DEF AccessInv, AccessOK
  <2>3. SameRequest(n, req[q])
    BY <1>2, <1>5, ClosedIsNotHandling
  <2>4. Shape(q, req[q]) /\ req'[q] = n /\ n.pc \in Stages
    BY <1>2, <1>5 DEF AccessInv, StoresInv, RequestsOK, Handling
  <2>5. WorkspaceShape(q, req[q]) /\ req[q].op # "org"
    BY <1>5, <2>4 DEF Shape, Guarded, RegistryShape, RegistryOps, ActivationShape
  <2>6. n.pc \in {"admitted", "assign"} \cup WriteStages
    <3>1. CASE FirstOwnerIn(q)
      <4>1. PICK t \in Now : n = Admitted(req[q], t)
        BY <2>4, <3>1, <1>2 DEF FirstOwnerIn, Go, AccessInv, StoresInv, RequestsOK
      <4> QED
        BY <1>2, <2>5, <4>1, Admitting DEF WorkspaceShape, WorkspaceOps, WriteStages
    <3>2. CASE AssignSession(q)
      <4>1. PICK t \in Now :
               \/ n = To(req[q], "refused")
               \/ n = Write(req[q], "sessions", req[q].ask, req[q].target, req[q].who, t, "answered")
        BY <2>4, <3>2 DEF AssignSession, Go, AccessInv, StoresInv, RequestsOK
      <4>2. n # To(req[q], "refused")
        BY <1>5, Ending, ClosedIsNotHandling DEF Ended
      <4> QED
        BY <1>2, <4>1, <4>2, Writing DEF WriteStages
    <3>3. CASE ReadWorkspace(q)
      <4>1. PICK current : n = [req[q] EXCEPT !.pc = "append", !.was = current,
                                              !.next = NextRecord(q, req[q], current)]
        BY <2>4, <3>3, ReadsRecord DEF Reads, AccessInv, StoresInv, RequestsOK
      <4> QED
        BY <1>2, <4>1 DEF Handling, Locals, WriteStages
    <3>4. CASE AppendAudit(q) \/ MirrorRecord(q) \/ AppendRecord(q)
      <4>1. PICK pc : /\ n = To(req[q], pc)
                      /\ pc \in {"audit", "mirror", "refused", req[q].then}
        <5>1. CASE AppendAudit(q)
          BY <5>1, <2>4, AppendingIs
             DEF AppendAudit, Appends, Throws, AccessInv, StoresInv, RequestsOK
        <5>2. CASE MirrorRecord(q)
          BY <5>2, <2>4 DEF MirrorRecord, AccessInv, StoresInv, RequestsOK
        <5>3. CASE AppendRecord(q)
          BY <5>3, <2>4, AppendingIs
             DEF AppendRecord, Appends, Throws, AccessInv, StoresInv, RequestsOK
        <5> QED
          BY <3>4, <5>1, <5>2, <5>3
      <4>2. req[q].pc \in WriteStages
        BY <3>4 DEF AppendAudit, MirrorRecord, AppendRecord, WriteStages
      <4>3. req[q].then \in {"admitted", "answered"}
        BY <2>5, <4>2 DEF WorkspaceShape, WriteOf
      <4>4. n.pc = pc
        BY <4>1 DEF To, Handling, Locals, Ended
      <4> QED
        BY <2>4, <4>1, <4>3, <4>4 DEF WriteStages, Stages
    <3>5. CASE DirectMember(q) \/ SessionOrganization(q) \/ GetOrganization(q) \/ Ensure(q)
      BY <2>1, <3>5 DEF DirectMember, SessionOrganization, GetOrganization, Ensure, WriteStages
    <3>6. CASE GrantCreator(q)
      BY <2>5, <3>6 DEF GrantCreator, WorkspaceShape
    <3>7. CASE ReadAgent(q) \/ RecordFeedback(q) \/ RecordEvent(q)
      BY <2>1, <3>7 DEF ReadAgent, RecordFeedback, RecordEvent, WriteStages
    <3> QED
      BY <3>1, <3>2, <3>3, <3>4, <3>5, <3>6, <3>7 DEF Steps, WorkspaceStep
  <2> QED
    BY <1>2, <2>2, <2>3, <2>6, GuardedGoes
<1> QED
  BY <1>2, <1>3, <1>4, <1>5

LEMMA StepAccess ==
    ASSUME AccessInv, NEW q \in Requests, Steps(q)
    PROVE  \E n : req' = [req EXCEPT ![q] = n] /\ AccessOK(n)'
<1>1. CASE DirectMember(q) \/ SessionOrganization(q) \/ GetOrganization(q) \/ Ensure(q)
  BY <1>1, DirectMemberAccess, SessionOrganizationAccess, GetOrganizationAccess, EnsureAccess
<1>2. CASE FirstOwnerIn(q) \/ AssignSession(q) \/ ReadWorkspace(q) \/ AppendAudit(q)
           \/ AppendRecord(q) \/ MirrorRecord(q)
  <2>1. req[q].pc \in {"admitted", "assign"} \cup WriteStages
    BY <1>2 DEF FirstOwnerIn, AssignSession, ReadWorkspace, AppendAudit, AppendRecord,
                MirrorRecord, WriteStages
  <2> QED
    BY <2>1, AdmittedAccess
<1>3. CASE GrantCreator(q)
  <2>1. req[q].op = "org"
    BY <1>3, InWorkspace DEF GrantCreator, Stages, WorkspaceShape, AccessInv
  <2> QED
    BY <2>1, AdmittedAccess DEF Guarded
<1>4. CASE ReadAgent(q) \/ RecordFeedback(q) \/ RecordEvent(q)
  <2>1. Shape(q, req[q]) /\ req[q].pc \in {"readAgent", "feedback", "event"}
    BY <1>4, RequestIs
       DEF ReadAgent, RecordFeedback, RecordEvent, AccessInv, StoresInv, Stages
  <2>2. req[q].op \notin Guarded
    BY <2>1 DEF Shape, WorkspaceShape, RegistryShape, RegistryOps, ActivationShape, Guarded
  <2> QED
    BY <2>2, AdmittedAccess
<1> QED
  BY <1>1, <1>2, <1>3, <1>4 DEF Steps, WorkspaceStep

LEMMA AccessKept ==
    ASSUME AccessInv, NEW q \in Requests, (\E r : Comes(q, r)) \/ Steps(q)
    PROVE  \A p \in Running' : \A r : r = req'[p] => AccessOK(r)'
<1>1. StoresInv /\ WritersKnown /\ SinceOK /\ RequestsOK
  BY DEF AccessInv, WritersOK, StoresInv
<1>2. Lasting /\ Adds("members") /\ Adds("sessions")
  BY <1>1, LastingIs, AddsIs DEF Deciding
<1>3. ASSUME NEW p \in Running, NEW n,
             n.op = req[p].op, n.who = req[p].who, n.target = req[p].target, n.pc = req[p].pc,
             n.since = req[p].since, n.after = req[p].after, n.by = req[p].by,
             n.scope = req[p].scope, n.autoGrant = req[p].autoGrant
      PROVE  AccessOK(n)'
  <2>1. PICK r : r = req[p]
    OBVIOUS
  <2>2. AccessOK(r)
    BY <2>1 DEF AccessInv
  <2>3. Owners(n) = Owners(r) /\ (Unbarred(n) <=> Unbarred(r)) /\ (LetIn(n) <=> LetIn(r))
    BY <1>3, <2>1, AccessSame
  <2>4. AccessOK(n)
    BY <1>3, <2>1, <2>2, <2>3 DEF AccessOK, Deciders
  <2>5. Watching(n)
    BY <1>1, <1>3, IsWatching
  <2> QED
    BY <1>1, <1>2, <2>4, <2>5, AccessGrows
<1>4. ASSUME NEW r, Comes(q, r), NEW p \in Running', NEW n, n = req'[p]
      PROVE  AccessOK(n)'
  <2>1. /\ Running' = Running \cup {q} /\ req'[q] = r
        /\ \A s \in Running : \A f \in Locals \ {"met"} : req'[s][f] = req[s][f]
    BY <1>1, <1>4, PlacesArriving DEF Comes
  <2>2. CASE p = q
    <3>1. n = r /\ n.by = Nothing /\ n.pc \in Arriving /\ Shape(q, n)
      BY <1>4, <2>1, <2>2 DEF Comes, Arrives
    <3>2. n.op \in Guarded => n.pc \in {"direct", "findOrg"}
      BY <3>1 DEF Shape, WorkspaceShape, RegistryShape, RegistryOps, ActivationShape, Guarded,
                  Arriving
    <3> QED
      BY <3>1, <3>2 DEF AccessOK, WriteStages
  <2>3. CASE p # q
    BY <1>3, <1>4, <2>1, <2>3 DEF Locals
  <2> QED
    BY <2>2, <2>3
<1>5. ASSUME Steps(q), NEW p \in Running', NEW n, n = req'[p]
      PROVE  AccessOK(n)'
  <2>1. PICK r : req' = [req EXCEPT ![q] = r] /\ AccessOK(r)'
    BY <1>5, StepAccess
  <2>2. p \in Requests /\ DOMAIN req = Requests
    BY <1>1 DEF Running, RequestsOK
  <2>3. CASE p = q
    BY <1>5, <2>1, <2>2, <2>3
  <2>4. CASE p # q
    <3>1. req'[p] = req[p] /\ p \in Running
      BY <2>1, <2>2, <2>4 DEF Running
    <3> QED
      BY <1>3, <1>5, <3>1
  <2> QED
    BY <2>3, <2>4
<1> QED
  BY <1>4, <1>5

LEMMA SinceKept ==
    ASSUME StoresInv, SinceOK, NEW q \in Requests, (\E r : Comes(q, r)) \/ Steps(q)
    PROVE  SinceOK'
<1>1. \A c \in Deciding : Len(file[c]) \in Nat /\ Len(file'[c]) \in Nat /\ Len(file[c]) <= Len(file'[c])
  BY AddsIs, PrefixGrow
<1>2. ASSUME NEW p \in Running', NEW c \in Deciding PROVE req'[p].since[c] \in 0..Len(file'[c])
  <2>1. CASE \E r : Comes(q, r)
    <3>1. PICK r : Arrives(q, r)
      BY <2>1 DEF Comes
    <3>2. /\ Running' = Running \cup {q} /\ req'[q] = r
          /\ \A s \in Running : \A f \in Locals \ {"met"} : req'[s][f] = req[s][f]
      BY <3>1, PlacesArriving DEF StoresInv
    <3>3. r.since[c] = Len(file[c])
      BY <3>1 DEF Arrives
    <3>4. \A s \in Running : req'[s].since = req[s].since
      BY <3>2 DEF Locals
    <3> QED
      BY <1>1, <1>2, <3>2, <3>3, <3>4 DEF SinceOK
  <2>2. CASE Steps(q)
    <3>1. PICK r : Goes(q, r)
      BY <2>2, StepGoes DEF GoesWell
    <3>2. /\ req'[q] = r /\ \A s \in Requests : s # q => req'[s] = req[s]
          /\ Handling(r) => Running' = Running
          /\ Closed(r) => Running' = Running \ {q}
          /\ Handling(r) \/ Closed(r)
      BY <3>1, PlacesGoing DEF StoresInv
    <3>3. p \in Running /\ p \in Requests
      BY <3>2 DEF Running
    <3>4. p = q => Handling(r)
      BY <3>2
    <3>5. req'[p].since = req[p].since
      BY <3>1, <3>2, <3>3, <3>4, ClosedIsNotHandling DEF Goes, SameRequest
    <3> QED
      BY <1>1, <3>3, <3>5 DEF SinceOK
  <2> QED
    BY <2>1, <2>2
<1> QED
  BY <1>2 DEF SinceOK
-----------------------------------------------------------------------------
(* The order in which a request writes.                                    *)

(* What a request does once it is let in comes after its first ownership.  *)
LEMMA AdmittedIsLate ==
    ASSUME NEW r, Handling(r), r.op \in WorkspaceOps, NEW t, NEW n, n = Admitted(r, t)
    PROVE  ~Early(n)
<1>1. CASE r.op = "assign"
  <2>1. n.pc = "assign"
    BY <1>1, Admitting DEF Admitted, Handling, Locals
  <2> QED
    BY <2>1 DEF Early, WriteStages
<1>2. CASE r.op # "assign"
  <2>1. n.pc = "read" /\ n.then \in {"answered", "creator"}
    BY <1>2, Writing DEF Admitted, WorkspaceOps
  <2> QED
    BY <2>1 DEF Early
<1> QED
  BY <1>1, <1>2

LEMMA EarlyBefore ==
    ASSUME StoresInv, NEW q \in Requests, Steps(q), NEW n, n = req'[q], Handling(n), Early(n)
    PROVE  Early(req[q])
<1>1. q \in DOMAIN req
  BY DEF StoresInv, RequestsOK
<1>2. \A x : ~Early(To(x, "refused"))
  BY DEF To, Early, Ended, WriteStages
<1>3. CASE DirectMember(q) \/ SessionOrganization(q) \/ GetOrganization(q) \/ Ensure(q)
  BY <1>3 DEF DirectMember, SessionOrganization, GetOrganization, Ensure, Early
<1>4. CASE FirstOwnerIn(q)
  <2>1. Handling(req[q]) /\ req[q].op \in WorkspaceOps
    BY <1>4, InWorkspace DEF FirstOwnerIn, Stages, WorkspaceShape
  <2>2. PICK t \in Now : n = Admitted(req[q], t)
    BY <1>1, <1>4 DEF FirstOwnerIn, Go
  <2> QED
    BY <2>1, <2>2, AdmittedIsLate
<1>5. CASE GrantCreator(q)
  <2>1. Handling(req[q])
    BY <1>5, InWorkspace DEF GrantCreator, Stages
  <2>2. PICK t \in Now :
            n = Write(req[q], "members", MemberId(req[q].target, req[q].who),
                      Patch(req[q].who, "owner"), "organization-creator", t, "answered")
    BY <1>1, <1>5 DEF GrantCreator, Go
  <2>3. n.pc = "read" /\ n.then = "answered"
    BY <2>1, <2>2, Writing
  <2> QED
    BY <2>3 DEF Early
<1>6. CASE AssignSession(q)
  <2>1. Handling(req[q])
    BY <1>6, InWorkspace DEF AssignSession, Stages
  <2>2. PICK t \in Now :
           \/ n = To(req[q], "refused")
           \/ n = Write(req[q], "sessions", req[q].ask, req[q].target, req[q].who, t, "answered")
    BY <1>1, <1>6 DEF AssignSession, Go
  <2>3. n.pc = "read" /\ n.then = "answered"
    BY <1>2, <2>1, <2>2, Writing
  <2> QED
    BY <2>3 DEF Early
<1>7. CASE ReadWorkspace(q)
  <2>1. Handling(req[q]) /\ req[q].pc = "read"
    BY <1>7, InWorkspace DEF ReadWorkspace, Stages
  <2>2. PICK current : n = [req[q] EXCEPT !.pc = "append", !.was = current,
                                          !.next = NextRecord(q, req[q], current)]
    BY <1>1, <1>7, ReadsRecord DEF Reads
  <2>3. n.pc = "append" /\ n.then = req[q].then
    BY <2>1, <2>2 DEF Handling, Locals
  <2> QED
    BY <2>1, <2>3 DEF Early, WriteStages
<1>8. CASE AppendAudit(q) \/ MirrorRecord(q) \/ AppendRecord(q)
  <2>1. q \in Running /\ Handling(req[q]) /\ Shape(q, req[q]) /\ req[q].pc \in WriteStages
    BY <1>8, RequestIs
       DEF AppendAudit, MirrorRecord, AppendRecord, WriteStages, Stages, StoresInv
  <2>2. PICK pc : n = To(req[q], pc) /\ pc \in {"audit", "mirror", "refused", req[q].then}
    <3>1. CASE AppendAudit(q)
      BY <1>1, <3>1, AppendingIs DEF AppendAudit, Appends, Throws
    <3>2. CASE MirrorRecord(q)
      BY <1>1, <3>2 DEF MirrorRecord
    <3>3. CASE AppendRecord(q)
      BY <1>1, <3>3, AppendingIs DEF AppendRecord, Appends, Throws
    <3> QED
      BY <1>8, <3>1, <3>2, <3>3
  <2>3. pc \notin Ended
    BY <2>2, Ending, ClosedIsNotHandling
  <2>4. req[q].then \in {"admitted", "answered", "creator", "event"}
    BY <2>1 DEF Shape, WorkspaceShape, WriteOf, RegistryShape, ActivationShape, WriteStages
  <2>5. pc \in Stages
    BY <2>2, <2>3, <2>4 DEF Stages, Ended
  <2>6. n.pc = pc /\ n.then = req[q].then
    BY <2>1, <2>2, <2>5, MovedIs
  <2> QED
    BY <2>1, <2>2, <2>3, <2>4, <2>6 DEF Early, WriteStages, Ended
<1>9. CASE ReadAgent(q)
  <2>1. Handling(req[q]) /\ RegistryShape(q, req[q])
    BY <1>9, RequestIs DEF StoresInv, ReadAgent, Stages, Shape, WorkspaceShape, ActivationShape
  <2>2. \/ n = To(req[q], "refused")
        \/ \E next : n = [req[q] EXCEPT !.pc = "append", !.coll = "agents",
                              !.id = req[q].target, !.was = LatestBy("agents", req[q].target),
                              !.next = next]
    BY <1>1, <1>9 DEF ReadAgent, Go
  <2>3. n.pc = "append" /\ n.then = req[q].then /\ req[q].then = "answered"
    BY <1>2, <2>1, <2>2 DEF Handling, Locals, RegistryShape
  <2> QED
    BY <2>3 DEF Early
<1>10. CASE RecordFeedback(q) \/ RecordEvent(q)
  <2>1. Handling(req[q])
    BY <1>10, RequestIs DEF StoresInv, RecordFeedback, RecordEvent, Stages
  <2>2. \/ n = To(req[q], "refused")
        \/ \E c, m : \E then \in {"event", "answered"} : n = Appended(req[q], c, m, then)
    BY <1>1, <1>10 DEF RecordFeedback, RecordEvent, Go, AfterFeedback
  <2>3. n.pc = "append" /\ n.then \in {"event", "answered"}
    BY <1>2, <2>1, <2>2, AppendedIs
  <2> QED
    BY <2>3 DEF Early
<1> QED
  BY <1>3, <1>4, <1>5, <1>6, <1>7, <1>8, <1>9, <1>10 DEF Steps, WorkspaceStep

AddsBy(q, c) ==
    \/ file'[c] = file[c]
    \/ /\ req[q].pc = "append" /\ req[q].coll = c /\ WorkspaceShape(q, req[q])
       /\ \E m : m = req[q].next /\ Growing(c, m) /\ m.req = q /\ m.id = req[q].id

LEMMA AddsByIs ==
    ASSUME StoresInv, NEW q \in Requests, Steps(q), NEW c \in Deciding
    PROVE  AddsBy(q, c)
<1>1. Effect(q)
  BY StepEffect
<1>2. CASE req[q].pc = "append" /\ Puts(q, req[q].coll, req[q].next) /\ clock' = clock
  <2>1. PICK d, m : d = req[q].coll /\ m = req[q].next
    OBVIOUS
  <2>2. /\ d \in Collections /\ file' = [file EXCEPT ![d] = Append(@, m)]
        /\ d \in Deciding => m.req = q /\ WorkspaceShape(q, req[q])
    BY <1>2, <2>1, AppendedTypes DEF Puts, Deciding
  <2>3. CASE c = d
    <3>1. WorkspaceShape(q, req[q]) /\ NextOf(q, req[q])
      BY <1>2, <2>2, <2>3 DEF WorkspaceShape, WriteStages
    <3>2. m.id = req[q].id
      BY <2>1, <3>1 DEF NextOf
    <3>3. Growing(c, m)
      BY <2>2, <2>3 DEF Growing, StoresInv, FilesOK
    <3> QED
      BY <1>2, <2>1, <2>2, <2>3, <3>1, <3>2, <3>3 DEF AddsBy
  <2>4. CASE c # d
    BY <2>2, <2>4 DEF AddsBy, StoresInv, FilesOK, Deciding, Collections, Tables
  <2> QED
    BY <2>3, <2>4
<1>3. CASE req[q].pc = "audit" /\ Puts(q, "audit", AuditOf(q)) /\ clock' = clock
  BY <1>3 DEF AddsBy, Puts, StoresInv, FilesOK, Deciding, Collections, Tables
<1> QED
  BY <1>1, <1>2, <1>3 DEF Effect, AddsBy

LEMMA WritersKnownKept ==
    ASSUME StoresInv, WritersKnown, NEW q \in Requests, (\E r : Comes(q, r)) \/ Steps(q)
    PROVE  WritersKnown'
<1>1. Lasting
  BY LastingIs
<1>2. ASSUME NEW c \in Deciding, NEW i \in DOMAIN file'[c], file'[c][i].req \in Requests
      PROVE  file'[c][i].req \in Running' \cup Over'
  <2>1. Adds(c)
    BY AddsIs
  <2>2. CASE file'[c] = file[c]
    BY <1>1, <1>2, <2>2 DEF WritersKnown, Lasting
  <2>3. ASSUME NEW p \in Running, NEW m, Growing(c, m), m.req = p
        PROVE  file'[c][i].req \in Running' \cup Over'
    <3>1. PICK n : n = Len(file[c]) + 1
      OBVIOUS
    <3>2. /\ DOMAIN file'[c] = DOMAIN file[c] \cup {n}
          /\ file'[c][n] = m /\ \A k \in DOMAIN file[c] : file'[c][k] = file[c][k]
      BY <2>3, <3>1, LogGrows DEF StoresInv, Deciding, Collections, Tables
    <3> QED
      BY <1>1, <1>2, <2>3, <3>2 DEF WritersKnown, Lasting
  <2> QED
    BY <2>1, <2>2, <2>3 DEF Adds
<1> QED
  BY <1>2 DEF WritersKnown

(* An ownership that a request gives first says so.                        *)
LEMMA FirstOwnership ==
    ASSUME NEW q, NEW r, WorkspaceShape(q, r), r.pc \in WriteStages, r.then = "admitted"
    PROVE  r.coll = "members" /\ r.by = "first-signed-writer"
BY DEF WorkspaceShape, WriteOf

LEMMA EarlyKept ==
    ASSUME StoresInv, WritersOK, NEW q \in Requests, (\E r : Comes(q, r)) \/ Steps(q),
           NEW c \in Deciding, NEW i \in DOMAIN file'[c], NEW p, p = file'[c][i].req,
           p \in Running', Early(req'[p])
    PROVE  file'[c][i].by = "first-signed-writer"
<1>1. CASE \E r : Comes(q, r)
  <2>1. PICK r : Arrives(q, r)
    BY <1>1 DEF Comes
  <2>2. /\ q \notin Running /\ q \notin Over /\ Running' = Running \cup {q}
        /\ \A s \in Running : \A f \in Locals \ {"met"} : req'[s][f] = req[s][f]
    BY <2>1, PlacesArriving DEF StoresInv
  <2>f. file' = file
    BY <2>1 DEF Arrives
  <2>n. p \in Requests
    BY DEF Running
  <2>3. p \in Running
    BY <2>2, <2>f, <2>n DEF WritersOK, WritersKnown
  <2>4. req'[p].pc = req[p].pc /\ req'[p].then = req[p].then
    BY <2>2, <2>3 DEF Locals
  <2>5. Early(req[p])
    BY <2>4 DEF Early
  <2> QED
    BY <2>3, <2>5, <2>f DEF WritersOK
<1>2. CASE Steps(q)
  <2>1. PICK r : Goes(q, r)
    BY <1>2, StepGoes DEF GoesWell
  <2>2. /\ req'[q] = r /\ \A s \in Requests : s # q => req'[s] = req[s]
        /\ Handling(r) => Running' = Running
        /\ Closed(r) => Running' = Running \ {q}
        /\ Handling(r) \/ Closed(r)
    BY <2>1, PlacesGoing DEF StoresInv
  <2>3. p \in Running /\ p \in Requests /\ (p = q => Handling(r))
    BY <2>2 DEF Running
  <2>4. Early(req[p])
    BY <1>2, <2>2, <2>3, EarlyBefore
  <2>5. CASE file'[c] = file[c]
    BY <2>3, <2>4, <2>5 DEF WritersOK
  <2>6. ASSUME req[q].pc = "append", req[q].coll = c, WorkspaceShape(q, req[q]),
               NEW m, m = req[q].next, Growing(c, m), m.req = q
        PROVE  file'[c][i].by = "first-signed-writer"
    <3>1. PICK n : n = Len(file[c]) + 1
      OBVIOUS
    <3>2. /\ DOMAIN file'[c] = DOMAIN file[c] \cup {n}
          /\ file'[c][n] = m /\ \A k \in DOMAIN file[c] : file'[c][k] = file[c][k]
      BY <2>6, <3>1, LogGrows DEF StoresInv, Deciding, Collections, Tables
    <3>3. CASE i \in DOMAIN file[c]
      BY <2>3, <2>4, <3>2, <3>3 DEF WritersOK
    <3>4. CASE i = n
      <4>1. Early(req[q])
        BY <2>4, <2>6, <3>2, <3>4
      <4>2. req[q].then = "admitted" /\ req[q].pc \in WriteStages
        BY <2>6, <4>1 DEF Early, WriteStages
      <4>3. req[q].coll = "members" /\ req[q].by = "first-signed-writer" /\ NextOf(q, req[q])
        BY <2>6, <4>2, FirstOwnership DEF WorkspaceShape, WriteStages
      <4> QED
        BY <2>6, <3>2, <3>4, <4>3 DEF NextOf
    <3> QED
      BY <3>2, <3>3, <3>4
  <2> QED
    BY <1>2, <2>5, <2>6, AddsByIs DEF AddsBy
<1> QED
  BY <1>1, <1>2

(* A record is mirrored after it was appended.                             *)
LEMMA PendingFrom ==
    ASSUME StoresInv, NEW q \in Requests, Steps(q), NEW n, n = req'[q],
           n.pc \in {"audit", "mirror"}
    PROVE  /\ \/ /\ AppendRecord(q)
                 /\ n.pc = (IF req[q].coll = "members" THEN "audit" ELSE "mirror")
              \/ AppendAudit(q) /\ n.pc = "mirror"
           /\ n.coll = req[q].coll /\ n.id = req[q].id /\ n.next = req[q].next
<1>1. q \in DOMAIN req
  BY DEF StoresInv, RequestsOK
<1>2. \A x : To(x, "refused").pc = "refused"
  BY DEF To, Ended
<1>3. CASE DirectMember(q) \/ SessionOrganization(q) \/ GetOrganization(q) \/ Ensure(q)
           \/ FirstOwnerIn(q) \/ GrantCreator(q) \/ AssignSession(q) \/ ReadWorkspace(q)
  <2>1. Handling(req[q]) /\ req[q].op \in WorkspaceOps
    BY <1>3, InWorkspace
       DEF DirectMember, SessionOrganization, GetOrganization, Ensure, FirstOwnerIn,
           GrantCreator, AssignSession, ReadWorkspace, Stages, WorkspaceShape
  <2>2. \A t : Admitted(req[q], t).pc \in {"read", "assign"}
    BY <2>1, Admitting DEF WorkspaceOps
  <2>3. \A c, id, patch, by, t, then : Write(req[q], c, id, patch, by, t, then).pc = "read"
    BY <2>1, Writing
  <2>4. CASE DirectMember(q)
    BY <1>1, <2>1, <2>4 DEF DirectMember, Go, Handling, Locals
  <2>5. CASE SessionOrganization(q)
    BY <1>1, <2>1, <2>5 DEF SessionOrganization, Go, Handling, Locals
  <2>6. CASE GetOrganization(q)
    BY <1>1, <1>2, <2>1, <2>2, <2>6 DEF GetOrganization, Go, Handling, Locals
  <2>7. CASE Ensure(q)
    BY <1>1, <1>2, <2>2, <2>3, <2>7 DEF Ensure, Go
  <2>8. CASE FirstOwnerIn(q)
    BY <1>1, <2>2, <2>8 DEF FirstOwnerIn, Go
  <2>9. CASE GrantCreator(q)
    BY <1>1, <2>3, <2>9 DEF GrantCreator, Go
  <2>10. CASE AssignSession(q)
    BY <1>1, <1>2, <2>3, <2>10 DEF AssignSession, Go
  <2>11. CASE ReadWorkspace(q)
    BY <1>1, <2>1, <2>11, ReadsRecord DEF Reads, Handling, Locals
  <2> QED
    BY <1>3, <2>4, <2>5, <2>6, <2>7, <2>8, <2>9, <2>10, <2>11
<1>4. CASE ReadAgent(q)
  <2>1. Handling(req[q])
    BY <1>4, RequestIs DEF StoresInv, ReadAgent, Stages
  <2>2. \/ n = To(req[q], "refused")
        \/ \E next : n = [req[q] EXCEPT !.pc = "append", !.coll = "agents",
                              !.id = req[q].target, !.was = LatestBy("agents", req[q].target),
                              !.next = next]
    BY <1>1, <1>4 DEF ReadAgent, Go
  <2> QED
    BY <1>2, <2>1, <2>2 DEF Handling, Locals
<1>5. CASE RecordFeedback(q) \/ RecordEvent(q)
  <2>1. Handling(req[q])
    BY <1>5, RequestIs DEF StoresInv, RecordFeedback, RecordEvent, Stages
  <2>2. \/ n = To(req[q], "refused")
        \/ \E c, m : \E then \in {"event", "answered"} : n = Appended(req[q], c, m, then)
    BY <1>1, <1>5 DEF RecordFeedback, RecordEvent, Go, AfterFeedback
  <2> QED
    BY <1>2, <2>1, <2>2, AppendedIs
<1>6. CASE MirrorRecord(q)
  <2>1. Handling(req[q]) /\ WorkspaceShape(q, req[q]) /\ req[q].pc = "mirror"
    BY <1>6, InWorkspace DEF MirrorRecord, Stages
  <2>2. n = To(req[q], req[q].then) /\ req[q].then \in {"admitted", "answered", "creator"}
    BY <1>1, <1>6, <2>1 DEF MirrorRecord, WorkspaceShape, WriteOf, WriteStages
  <2>3. n.pc = req[q].then
    BY <2>1, <2>2 DEF To, Handling, Locals, Ended
  <2> QED
    BY <2>2, <2>3
<1>7. CASE AppendRecord(q) \/ AppendAudit(q)
  <2>1. q \in Running /\ Handling(req[q]) /\ Shape(q, req[q]) /\ req[q].pc \in WriteStages
    BY <1>7, RequestIs DEF AppendAudit, AppendRecord, WriteStages, Stages, StoresInv
  <2>2. req[q].then \in {"admitted", "answered", "creator", "event"}
    BY <2>1 DEF Shape, WorkspaceShape, WriteOf, RegistryShape, ActivationShape, WriteStages
  <2>3. PICK pc :
           /\ n = To(req[q], pc)
           /\ \/ pc \in {"refused", req[q].then}
              \/ /\ AppendRecord(q)
                 /\ pc = (IF req[q].coll = "members" THEN "audit" ELSE "mirror")
              \/ AppendAudit(q) /\ pc = "mirror"
    <3>1. CASE AppendAudit(q)
      BY <1>1, <3>1, AppendingIs DEF AppendAudit, Appends, Throws
    <3>2. CASE AppendRecord(q)
      BY <1>1, <3>2, AppendingIs DEF AppendRecord, Appends, Throws
    <3> QED
      BY <1>7, <3>1, <3>2
  <2>4. n.pc = pc
    BY <2>1, <2>3 DEF To, Handling, Locals, Ended
  <2>5. pc \in {"audit", "mirror"} /\ pc \in Stages
    BY <2>4 DEF Stages
  <2>6. n.coll = req[q].coll /\ n.id = req[q].id /\ n.next = req[q].next
    BY <2>1, <2>3, <2>5, MovedIs
  <2> QED
    BY <2>2, <2>3, <2>4, <2>5, <2>6
<1> QED
  BY <1>3, <1>4, <1>5, <1>6, <1>7 DEF Steps, WorkspaceStep

(* What an append that does not throw puts on file.                        *)
LEMMA AppendWrites ==
    ASSUME StoresInv, NEW q \in Requests, AppendRecord(q), NEW n, n = req'[q],
           n.pc \in {"audit", "mirror"}, req[q].coll \in Deciding
    PROVE  /\ faults' = faults /\ req[q].next.id = req[q].id /\ req[q].next.req = q
           /\ \A c, m, id : c = req[q].coll /\ m = req[q].next /\ id = req[q].id
                 => Growing(c, m) /\ m \in Writes(c, id)'
<1>1. /\ q \in Running /\ Handling(req[q]) /\ req[q].pc = "append"
      /\ req[q].coll \in Collections
      /\ WorkspaceShape(q, req[q]) /\ req[q].next.req = q
  BY AppendedTypes DEF AppendRecord, Deciding
<1>2. NextOf(q, req[q])
  BY <1>1 DEF WorkspaceShape, WriteStages
<1>3. req[q].next.id = req[q].id
  BY <1>2 DEF NextOf
<1>4. PICK c, m, id : c = req[q].coll /\ m = req[q].next /\ id = req[q].id
  OBVIOUS
<1>5. \A x : To(x, "refused").pc = "refused"
  BY DEF To, Ended
<1>6. file' = [file EXCEPT ![c] = Append(@, m)] /\ faults' = faults
  BY <1>4, <1>5, AppendingIs DEF AppendRecord, Appends, Throws, StoresInv, RequestsOK
<1>7. Growing(c, m)
  BY <1>1, <1>4, <1>6 DEF Growing, StoresInv, FilesOK
<1>8. m \in Writes(c, id)'
  BY <1>1, <1>3, <1>4, <1>7, NewGrow DEF StoresInv
<1>9. ASSUME NEW d, NEW k, NEW i, d = req[q].coll, k = req[q].next, i = req[q].id
      PROVE  Growing(d, k) /\ k \in Writes(d, i)'
  <2>1. d = c /\ k = m /\ i = id
    BY <1>4, <1>9
  <2> QED
    BY <1>7, <1>8, <2>1
<1> QED
  BY <1>1, <1>3, <1>6, <1>9

(* A record that is being mirrored is on file.                             *)
LEMMA PendingWritten ==
    ASSUME StoresInv, WritersOK, NEW q \in Requests, (\E r : Comes(q, r)) \/ Steps(q),
           NEW p \in Running', NEW n, n = req'[p], n.pc \in {"audit", "mirror"}, n.coll \in Deciding
    PROVE  n.next \in Writes(n.coll, n.id)'
<1>1. ASSUME NEW c \in Deciding, NEW id, NEW m \in Writes(c, id)
      PROVE  m \in Writes(c, id)'
  BY AddsIs, WritesGrow
<1>2. ASSUME p \in Running, n.pc = req[p].pc, n.coll = req[p].coll, n.id = req[p].id,
             n.next = req[p].next
      PROVE  n.next \in Writes(n.coll, n.id)'
  <2>1. PICK c, id, m : c = n.coll /\ id = n.id /\ m = n.next
    OBVIOUS
  <2>2. m \in Writes(c, id)
    BY <1>2, <2>1 DEF WritersOK
  <2> QED
    BY <1>1, <2>1, <2>2
<1>3. CASE \E r : Comes(q, r)
  <2>1. PICK r : Arrives(q, r)
    BY <1>3 DEF Comes
  <2>2. /\ Running' = Running \cup {q} /\ req'[q] = r
        /\ \A s \in Running : \A f \in Locals \ {"met"} : req'[s][f] = req[s][f]
    BY <2>1, PlacesArriving DEF StoresInv
  <2>3. p \in Running
    BY <2>1, <2>2 DEF Arrives, Arriving
  <2> QED
    BY <1>2, <2>2, <2>3 DEF Locals
<1>4. CASE Steps(q)
  <2>1. PICK r : Goes(q, r)
    BY <1>4, StepGoes DEF GoesWell
  <2>2. /\ req'[q] = r /\ \A s \in Requests : s # q => req'[s] = req[s]
        /\ Handling(r) => Running' = Running
        /\ Closed(r) => Running' = Running \ {q}
        /\ Handling(r) \/ Closed(r)
    BY <2>1, PlacesGoing DEF StoresInv
  <2>3. p \in Running /\ p \in Requests
    BY <2>2 DEF Running
  <2>4. CASE p # q
    BY <1>2, <2>2, <2>3, <2>4
  <2>5. CASE p = q
    <3>1. /\ AppendRecord(q) \/ AppendAudit(q)
          /\ n.coll = req[q].coll /\ n.id = req[q].id /\ n.next = req[q].next
      BY <1>4, <2>5, PendingFrom
    <3>2. PICK c, id, m : c = n.coll /\ id = n.id /\ m = n.next
      OBVIOUS
    <3>3. CASE AppendAudit(q)
      <4>1. m \in Writes(c, id)
        BY <2>3, <2>5, <3>1, <3>2, <3>3 DEF AppendAudit, WritersOK
      <4> QED
        BY <1>1, <3>2, <4>1
    <3>4. CASE AppendRecord(q)
      <4>1. c = req[q].coll /\ m = req[q].next /\ id = req[q].id /\ c \in Deciding
        BY <3>1, <3>2
      <4>2. m \in Writes(c, id)'
        BY <2>5, <3>4, <4>1, AppendWrites
      <4> QED
        BY <3>2, <4>2
    <3> QED
      BY <3>1, <3>3, <3>4
  <2> QED
    BY <2>4, <2>5
<1> QED
  BY <1>3, <1>4

LEMMA WritersKept ==
    ASSUME StoresInv, WritersOK, NEW q \in Requests, (\E r : Comes(q, r)) \/ Steps(q)
    PROVE  WritersOK'
<1>1. WritersKnown'
  BY WritersKnownKept DEF WritersOK
<1>2. ASSUME NEW c \in Deciding, NEW i \in DOMAIN file'[c],
             file'[c][i].req \in Running', Early(req'[file'[c][i].req])
      PROVE  file'[c][i].by = "first-signed-writer"
  <2>1. PICK p : p = file'[c][i].req
    OBVIOUS
  <2>2. p \in Running' /\ Early(req'[p])
    BY <1>2, <2>1
  <2> QED
    BY <2>1, <2>2, EarlyKept
<1>3. ASSUME NEW p \in Running', NEW n, n = req'[p], n.pc \in {"audit", "mirror"},
             n.coll \in Deciding
      PROVE  n.next \in Writes(n.coll, n.id)'
  BY <1>3, PendingWritten
<1> QED
  BY <1>1, <1>2, <1>3 DEF WritersOK, Early

-----------------------------------------------------------------------------
(* What the tables hold.                                                   *)

LEMMA NowIs ==
    ASSUME StoresInv, NEW t \in Now
    PROVE  t \in Int /\ clock \in Int /\ clock <= t
BY DEF Now, StoresInv, ClockOK

(* Where the stages of a write come from.                                  *)
LEMMA StageFrom ==
    ASSUME StoresInv, NEW q \in Requests, Steps(q), NEW n, n = req'[q],
           n.pc \in {"read", "append", "answered"}
    PROVE  \/ n.pc = "answered" /\ (AppendRecord(q) \/ AppendAudit(q) \/ MirrorRecord(q))
           \/ n.pc = "read" /\ n.at = clock' /\ clock' \in Now /\ file' = file
           \/ n.pc = "append" /\ (ReadWorkspace(q) \/ ReadAgent(q)
                                    \/ RecordFeedback(q) \/ RecordEvent(q))
<1>1. q \in DOMAIN req
  BY DEF StoresInv, RequestsOK
<1>2. \A x : To(x, "refused").pc = "refused"
  BY DEF To, Ended
<1>3. CASE DirectMember(q) \/ SessionOrganization(q) \/ GetOrganization(q) \/ Ensure(q)
           \/ FirstOwnerIn(q) \/ GrantCreator(q) \/ AssignSession(q)
  <2>1. Handling(req[q]) /\ req[q].op \in WorkspaceOps
    BY <1>3, InWorkspace
       DEF DirectMember, SessionOrganization, GetOrganization, Ensure, FirstOwnerIn,
           GrantCreator, AssignSession, Stages, WorkspaceShape
  <2>2. ASSUME NEW t
        PROVE  Admitted(req[q], t).pc = "assign"
               \/ (Admitted(req[q], t).pc = "read" /\ Admitted(req[q], t).at = t)
    <3>1. CASE req[q].op = "assign"
      BY <2>1, <3>1 DEF Admitted, Handling, Locals
    <3>2. CASE req[q].op # "assign"
      BY <2>1, <3>2, Writing DEF Admitted, WorkspaceOps
    <3> QED
      BY <3>1, <3>2
  <2>3. \A c, id, patch, by, t, then : Write(req[q], c, id, patch, by, t, then).pc = "read"
           /\ Write(req[q], c, id, patch, by, t, then).at = t
    BY <2>1, Writing
  <2>4. CASE DirectMember(q)
    BY <1>1, <2>1, <2>4 DEF DirectMember, Go, Handling, Locals
  <2>5. CASE SessionOrganization(q)
    BY <1>1, <2>1, <2>5 DEF SessionOrganization, Go, Handling, Locals
  <2>6. CASE GetOrganization(q)
    BY <1>1, <1>2, <2>1, <2>2, <2>6 DEF GetOrganization, Go, Handling, Locals
  <2>7. CASE Ensure(q)
    BY <1>1, <1>2, <2>2, <2>3, <2>7 DEF Ensure, Go
  <2>8. CASE FirstOwnerIn(q)
    BY <1>1, <2>2, <2>8 DEF FirstOwnerIn, Go
  <2>9. CASE GrantCreator(q)
    BY <1>1, <2>3, <2>9 DEF GrantCreator, Go
  <2>10. CASE AssignSession(q)
    BY <1>1, <1>2, <2>3, <2>10 DEF AssignSession, Go
  <2> QED
    BY <1>3, <2>4, <2>5, <2>6, <2>7, <2>8, <2>9, <2>10
<1>4. CASE AppendAudit(q) \/ MirrorRecord(q) \/ AppendRecord(q)
  <2>1. Handling(req[q]) /\ Shape(q, req[q]) /\ req[q].pc \in WriteStages
    BY <1>4, RequestIs DEF AppendAudit, AppendRecord, MirrorRecord, WriteStages, Stages, StoresInv
  <2>2. req[q].then \in {"admitted", "answered", "creator", "event"}
    BY <1>4, <2>1 DEF Shape, WorkspaceShape, WriteOf, RegistryShape, ActivationShape, WriteStages,
                     AppendRecord, AppendAudit, MirrorRecord
  <2>3. PICK pc \in {"refused", "audit", "mirror", "admitted", "answered", "creator", "event"} :
           n = To(req[q], pc)
    BY <1>1, <1>4, <2>2, AppendingIs DEF AppendAudit, AppendRecord, MirrorRecord, Appends, Throws
  <2>4. n.pc = pc
    BY <2>1, <2>3 DEF To, Handling, Locals, Ended
  <2> QED
    BY <1>4, <2>3, <2>4
<1>5. CASE ReadWorkspace(q)
  <2>1. Handling(req[q])
    BY <1>5, InWorkspace DEF ReadWorkspace, Stages
  <2> QED
    BY <1>1, <1>5, <2>1, ReadsRecord DEF Reads, Handling, Locals
<1>6. CASE ReadAgent(q)
  <2>1. Handling(req[q])
    BY <1>6, RequestIs DEF StoresInv, ReadAgent, Stages
  <2>2. \/ n = To(req[q], "refused")
        \/ \E next : n = [req[q] EXCEPT !.pc = "append", !.coll = "agents",
                              !.id = req[q].target, !.was = LatestBy("agents", req[q].target),
                              !.next = next]
    BY <1>1, <1>6 DEF ReadAgent, Go
  <2> QED
    BY <1>2, <1>6, <2>1, <2>2 DEF Handling, Locals
<1>7. CASE RecordFeedback(q) \/ RecordEvent(q)
  <2>1. Handling(req[q])
    BY <1>7, RequestIs DEF StoresInv, RecordFeedback, RecordEvent, Stages
  <2>2. \/ n = To(req[q], "refused")
        \/ \E c, m : \E then \in {"event", "answered"} : n = Appended(req[q], c, m, then)
    BY <1>1, <1>7 DEF RecordFeedback, RecordEvent, Go, AfterFeedback
  <2> QED
    BY <1>2, <1>7, <2>1, <2>2, AppendedIs
<1> QED
  BY <1>3, <1>4, <1>5, <1>6, <1>7 DEF Steps, WorkspaceStep

(* What is read, and made of it.                                           *)
LEMMA ReadWorkspaceIs ==
    ASSUME StoresInv, NEW q \in Requests, ReadWorkspace(q), NEW n, n = req'[q]
    PROVE  /\ q \in Running /\ Handling(req[q]) /\ req[q].pc = "read"
           /\ WorkspaceShape(q, req[q]) /\ WriteOf(req[q]) /\ req[q].coll \in Tables
           /\ Handling(n) /\ n.pc = "append" /\ n.coll = req[q].coll /\ n.id = req[q].id
           /\ n.at = req[q].at /\ n.next.at = n.at /\ n.next.id = n.id
           /\ \E fromFile \in BOOLEAN :
                 /\ ReadRecords(req[q].coll, fromFile)
                 /\ n.was = Record(req[q].coll, req[q].id, fromFile)
                 /\ n.next = NextRecord(q, req[q], n.was)
           /\ UNCHANGED <<file, rows, mirrored, clock>>
<1>1. /\ q \in Running /\ Handling(req[q]) /\ WorkspaceShape(q, req[q]) /\ req[q].pc = "read"
      /\ WriteOf(req[q]) /\ UNCHANGED <<file, rows, mirrored, clock>>
  BY InWorkspace DEF ReadWorkspace, Go, Stages, WorkspaceShape, WriteStages
<1>2. PICK fromFile \in BOOLEAN :
         Reads(q, Record(req[q].coll, req[q].id, fromFile)) /\ ReadRecords(req[q].coll, fromFile)
  BY ReadsRecord
<1>3. PICK current : current = Record(req[q].coll, req[q].id, fromFile)
  OBVIOUS
<1>4. PICK next : next = NextRecord(q, req[q], current)
  OBVIOUS
<1>5. n = [req[q] EXCEPT !.pc = "append", !.was = current, !.next = next]
  BY <1>2, <1>3, <1>4 DEF Reads, StoresInv, RequestsOK
<1>6. /\ Handling(n) /\ n.pc = "append" /\ n.was = current /\ n.next = next
      /\ n.coll = req[q].coll /\ n.id = req[q].id /\ n.at = req[q].at
  BY <1>1, <1>5 DEF Handling, Locals, Stages
<1>7. req[q].coll \in Tables
  BY <1>1 DEF WriteOf, Tables
<1>8. next.id = req[q].id /\ next.at = req[q].at
  BY <1>4, <1>7 DEF NextRecord, NextMember, NextMemo, Tables
<1> QED
  BY <1>1, <1>2, <1>3, <1>4, <1>6, <1>7, <1>8

LEMMA ReadAgentIs ==
    ASSUME StoresInv, NEW q \in Requests, ReadAgent(q), NEW n, n = req'[q], n.pc = "append"
    PROVE  /\ q \in Running /\ RegistryShape(q, req[q])
           /\ n.coll = "agents" /\ n.next.id = req[q].target /\ n.next.at = clock' /\ clock' \in Now
           /\ \/ /\ req[q].op # "transition"
                 /\ req[q].ask # Nothing => n.next.status = req[q].ask
                 /\ req[q].ask = Nothing /\ LatestBy("agents", req[q].target) # Nothing =>
                       n.next.status = LatestBy("agents", req[q].target).status
              \/ /\ req[q].op = "transition" /\ n.next.status = req[q].ask
                 /\ LatestBy("agents", req[q].target) # Nothing
                 /\ IsAllowedTransition(LatestBy("agents", req[q].target).status, req[q].ask)
           /\ UNCHANGED <<file, rows, mirrored>>
<1>1. /\ q \in Running /\ Handling(req[q]) /\ RegistryShape(q, req[q]) /\ q \in DOMAIN req
  BY RequestIs DEF StoresInv, RequestsOK, ReadAgent, Stages, Shape, WorkspaceShape, ActivationShape
<1>2. PICK existing : existing = LatestBy("agents", req[q].target)
  OBVIOUS
<1>3. /\ existing # Nothing => existing \in AgentRecords /\ existing.id = req[q].target
  BY <1>2, RecordTypes DEF StoresInv
<1>4. To(req[q], "refused").pc = "refused"
  BY DEF To, Ended
<1>5. PICK next :
         /\ clock' \in Now
         /\ n = [req[q] EXCEPT !.pc = "append", !.coll = "agents",
                     !.id = req[q].target, !.was = existing, !.next = next]
         /\ \/ /\ req[q].op # "transition"
               /\ next = Registered(req[q], existing, clock')
            \/ /\ req[q].op = "transition" /\ existing # Nothing
               /\ IsAllowedTransition(existing.status, req[q].ask)
               /\ next = [existing EXCEPT !.status = req[q].ask, !.at = clock']
  BY <1>1, <1>2, <1>4 DEF ReadAgent, Go, RegistryShape, RegistryOps
<1>6. n.coll = "agents" /\ n.next = next
  BY <1>1, <1>5 DEF Handling, Locals
<1>u. UNCHANGED <<file, rows, mirrored>>
  BY DEF ReadAgent, Go
<1>7. CASE req[q].op # "transition" /\ next = Registered(req[q], existing, clock')
  <2>1. PICK t : t = clock'
    OBVIOUS
  <2>2. next = Registered(req[q], existing, t)
    BY <1>7, <2>1
  <2>3. /\ next.id = req[q].target /\ next.at = t
        /\ next.status = IF req[q].ask # Nothing THEN req[q].ask
                         ELSE IF existing # Nothing THEN existing.status ELSE "pending"
    BY <2>2 DEF Registered
  <2> QED
    BY <1>1, <1>2, <1>5, <1>6, <1>7, <1>u, <2>1, <2>3
<1>8. CASE /\ req[q].op = "transition" /\ existing # Nothing
           /\ IsAllowedTransition(existing.status, req[q].ask)
           /\ next = [existing EXCEPT !.status = req[q].ask, !.at = clock']
  <2>1. next.id = req[q].target /\ next.at = clock' /\ next.status = req[q].ask
    BY <1>3, <1>8 DEF AgentRecords
  <2> QED
    BY <1>1, <1>2, <1>5, <1>6, <1>8, <1>u, <2>1
<1> QED
  BY <1>5, <1>7, <1>8

LEMMA ActivationAppends ==
    ASSUME StoresInv, NEW q \in Requests, RecordFeedback(q) \/ RecordEvent(q),
           NEW n, n = req'[q], n.pc = "append"
    PROVE  n.coll \in {"feedback", "events"}
<1>1. Handling(req[q]) /\ q \in DOMAIN req
  BY RequestIs DEF StoresInv, RequestsOK, RecordFeedback, RecordEvent, Stages
<1>2. \/ n = To(req[q], "refused")
      \/ \E m : n = Appended(req[q], "feedback", m, "event")
      \/ \E m : n = Appended(req[q], "events", m, "answered")
  <2>1. CASE RecordFeedback(q)
    BY <1>1, <2>1 DEF RecordFeedback, Go, AfterFeedback
  <2>2. CASE RecordEvent(q)
    BY <1>1, <2>2 DEF RecordEvent, Go
  <2> QED
    BY <2>1, <2>2
<1> QED
  BY <1>1, <1>2, AppendedIs DEF To, Ended

LEMMA IdsStay ==
    ASSUME StoresInv, NEW q \in Requests, (\E r : Comes(q, r)) \/ Steps(q), NEW o \in rows["orgs"]
    PROVE  \E k \in rows'["orgs"] : k.id = o.id
<1>1. CASE rows' = rows
  BY <1>1
<1>2. CASE /\ Steps(q) /\ req[q].pc = "mirror"
           /\ rows' = [rows EXCEPT ![req[q].coll] = Upsert(req[q].coll, req[q].next)]
  <2>1. PICK c, m : c = req[q].coll /\ m = req[q].next
    OBVIOUS
  <2>2. c \in Tables
    BY <1>2, <2>1, MirroredTypes
  <2>3. PICK rest : rest = [rows EXCEPT ![c] = Upsert(c, m)]
    OBVIOUS
  <2>4. /\ \A d \in Tables \ {c} : rest[d] = rows[d]
        /\ m \in rest[c] /\ \A n \in rows[c] : n.id # m.id => n \in rest[c]
    BY <2>2, <2>3, Upserting DEF StoresInv
  <2>5. rest = rows'
    BY <1>2, <2>1, <2>3
  <2>6. CASE c = "orgs"
    <3>1. CASE o.id = m.id
      BY <2>4, <2>5, <2>6, <3>1
    <3>2. CASE o.id # m.id
      BY <2>4, <2>5, <2>6, <3>2
    <3> QED
      BY <3>1, <3>2
  <2>7. CASE c # "orgs"
    BY <2>4, <2>5, <2>7 DEF Tables
  <2> QED
    BY <2>6, <2>7
<1>3. CASE \E r : Comes(q, r)
  BY <1>1, <1>3 DEF Comes, Arrives
<1>4. CASE Steps(q)
  BY <1>1, <1>2, <1>4, StepEffect DEF Effect, Puts
<1> QED
  BY <1>3, <1>4

(* Where the write of an assignment comes from.                            *)
LEMMA AssignmentFrom ==
    ASSUME StoresInv, NEW q \in Requests, Steps(q), NEW n, n = req'[q],
           n.pc \in WriteStages, n.coll = "sessions"
    PROVE  \/ req[q].pc \in WriteStages /\ req[q].coll = "sessions"
           \/ AssignSession(q) /\ Record("orgs", req[q].target, FALSE) # Nothing
           \/ AssignSession(q) /\ mirrored /\ faults' = faults + 1
           \/ ~mirrored
<1>1. q \in DOMAIN req
  BY DEF StoresInv, RequestsOK
<1>2. CASE n.pc \in {"audit", "mirror"}
  BY <1>2, PendingFrom DEF AppendRecord, AppendAudit, WriteStages
<1>3. CASE n.pc = "append"
  <2>1. ReadWorkspace(q) \/ ReadAgent(q) \/ RecordFeedback(q) \/ RecordEvent(q)
    BY <1>3, StageFrom
  <2>2. CASE ReadWorkspace(q)
    BY <2>2, ReadWorkspaceIs DEF WriteStages
  <2>3. CASE ReadAgent(q)
    BY <1>3, <2>3, ReadAgentIs
  <2>4. CASE RecordFeedback(q) \/ RecordEvent(q)
    BY <1>3, <2>4, ActivationAppends
  <2> QED
    BY <2>1, <2>2, <2>3, <2>4
<1>4. CASE n.pc = "read"
  <2>1. CASE AssignSession(q)
    <3>1. PICK fromFile \in BOOLEAN, t \in Now :
             /\ ReadRecords("orgs", fromFile)
             /\ Go(q, IF Record("orgs", req[q].target, fromFile) = Nothing
                      THEN To(req[q], "refused")
                      ELSE Write(req[q], "sessions", req[q].ask, req[q].target,
                                 req[q].who, t, "answered"))
      BY <2>1 DEF AssignSession
    <3>2. To(req[q], "refused").pc = "refused"
      BY DEF To, Ended
    <3>3. Record("orgs", req[q].target, fromFile) # Nothing
      BY <1>1, <1>4, <3>1, <3>2 DEF Go
    <3> QED
      BY <2>1, <3>1, <3>3 DEF ReadRecords, Tables
  <2>2. CASE GetOrganization(q) \/ Ensure(q) \/ FirstOwnerIn(q) \/ GrantCreator(q)
    <3>1. Handling(req[q]) /\ req[q].op \in WorkspaceOps
      BY <2>2, InWorkspace
         DEF GetOrganization, Ensure, FirstOwnerIn, GrantCreator, Stages, WorkspaceShape
    <3>2. ASSUME NEW t, Admitted(req[q], t).pc = "read"
          PROVE  Admitted(req[q], t).coll # "sessions"
      <4>1. CASE req[q].op = "assign"
        BY <3>1, <3>2, <4>1 DEF Admitted, Handling, Locals
      <4>2. CASE req[q].op # "assign"
        BY <3>1, <4>2, Writing DEF Admitted, WorkspaceOps
      <4> QED
        BY <4>1, <4>2
    <3>3. \A id, patch, by, t, then :
             Write(req[q], "members", id, patch, by, t, then).coll # "sessions"
      BY <3>1, Writing
    <3>4. To(req[q], "refused").pc = "refused"
      BY DEF To, Ended
    <3>5. CASE GetOrganization(q)
      BY <1>1, <1>4, <3>1, <3>2, <3>4, <3>5 DEF GetOrganization, Go, Handling, Locals
    <3>6. CASE Ensure(q)
      BY <1>1, <1>4, <3>2, <3>3, <3>4, <3>6 DEF Ensure, Go
    <3>7. CASE FirstOwnerIn(q)
      BY <1>1, <1>4, <3>2, <3>7 DEF FirstOwnerIn, Go
    <3>8. CASE GrantCreator(q)
      BY <1>1, <1>4, <3>3, <3>8 DEF GrantCreator, Go
    <3> QED
      BY <2>2, <3>5, <3>6, <3>7, <3>8
  <2>3. CASE DirectMember(q) \/ SessionOrganization(q)
    <3>1. Handling(req[q])
      BY <2>3, InWorkspace DEF DirectMember, SessionOrganization, Stages
    <3> QED
      BY <1>1, <1>4, <2>3, <3>1 DEF DirectMember, SessionOrganization, Go, Handling, Locals
  <2>4. CASE ReadWorkspace(q) \/ ReadAgent(q) \/ RecordFeedback(q) \/ RecordEvent(q)
    <3>1. CASE ReadWorkspace(q)
      BY <1>4, <3>1, ReadWorkspaceIs
    <3>2. CASE ReadAgent(q)
      <4>1. Handling(req[q])
        BY <3>2, RequestIs DEF StoresInv, ReadAgent, Stages
      <4>2. n.pc \in {"append", "refused"}
        BY <1>1, <3>2, <4>1 DEF ReadAgent, Go, Handling, Locals, To, Ended
      <4> QED
        BY <1>4, <4>2
    <3>3. CASE RecordFeedback(q) \/ RecordEvent(q)
      <4>1. Handling(req[q])
        BY <3>3, RequestIs DEF StoresInv, RecordFeedback, RecordEvent, Stages
      <4>2. \/ n = To(req[q], "refused")
            \/ \E c, m, then : n = Appended(req[q], c, m, then)
        <5>1. CASE RecordFeedback(q)
          BY <1>1, <5>1 DEF RecordFeedback, Go
        <5>2. CASE RecordEvent(q)
          BY <1>1, <5>2 DEF RecordEvent, Go
        <5> QED
          BY <3>3, <5>1, <5>2
      <4>3. n.pc \in {"append", "refused"}
        BY <4>1, <4>2, AppendedIs DEF To, Ended
      <4> QED
        BY <1>4, <4>3
    <3> QED
      BY <2>4, <3>1, <3>2, <3>3
  <2>5. CASE AppendRecord(q) \/ AppendAudit(q) \/ MirrorRecord(q)
    <3>1. /\ Handling(req[q]) /\ Shape(q, req[q]) /\ req[q].pc \in WriteStages
      BY <2>5, RequestIs DEF AppendAudit, AppendRecord, MirrorRecord, WriteStages, Stages, StoresInv
    <3>2. req[q].then # "read"
      BY <2>5, <3>1 DEF Shape, WorkspaceShape, WriteOf, RegistryShape, ActivationShape,
                        WriteStages, AppendRecord, AppendAudit, MirrorRecord
    <3>3. \E pc : pc # "read" /\ n = To(req[q], pc)
      BY <1>1, <2>5, <3>2, AppendingIs DEF AppendAudit, AppendRecord, MirrorRecord, Appends, Throws
    <3> QED
      BY <1>4, <3>1, <3>3 DEF To, Handling, Locals
  <2> QED
    BY <2>1, <2>2, <2>3, <2>4, <2>5 DEF Steps, WorkspaceStep
<1> QED
  BY <1>2, <1>3, <1>4 DEF WriteStages

LEMMA OrgRowsKept ==
    ASSUME StoresInv, OrgRowsOK, NEW q \in Requests, (\E r : Comes(q, r)) \/ Steps(q)
    PROVE  OrgRowsOK'
<1>1. mirrored' = mirrored /\ faults \in Nat /\ faults' \in {faults, faults + 1}
  <2>1. CASE \E r : Comes(q, r)
    BY <2>1 DEF Comes, Arrives, StoresInv, ClockOK
  <2>2. CASE Steps(q)
    BY <2>2, StepEffect DEF StoresInv, ClockOK
  <2> QED
    BY <2>1, <2>2
<1>2. ASSUME mirrored, faults' = 0, NEW p \in Running', NEW n, n = req'[p],
             n.pc \in WriteStages, n.coll = "sessions"
      PROVE  \E o \in rows'["orgs"] : o.id = n.target
  <2>1. faults = 0 /\ faults' = faults
    BY <1>1, <1>2
  <2>2. ASSUME p \in Running, req[p].pc \in WriteStages, req[p].coll = "sessions",
               req[p].target = n.target
        PROVE  \E o \in rows'["orgs"] : o.id = n.target
    <3>1. PICK o \in rows["orgs"] : o.id = n.target
      BY <1>2, <2>1, <2>2 DEF OrgRowsOK
    <3> QED
      BY <3>1, IdsStay
  <2>3. CASE \E r : Comes(q, r)
    <3>1. PICK r : Comes(q, r)
      BY <2>3
    <3>4. Arrives(q, r) /\ r.pc \in Arriving
      BY <3>1 DEF Comes, Arrives
    <3>2. /\ Running' = Running \cup {q} /\ req'[q] = r /\ r.pc \in Arriving
          /\ \A s \in Running : \A f \in Locals \ {"met"} : req'[s][f] = req[s][f]
      BY <3>4, PlacesArriving DEF StoresInv
    <3>3. p \in Running
      BY <1>2, <3>2 DEF Arriving, WriteStages
    <3> QED
      BY <1>2, <2>2, <3>2, <3>3 DEF Locals
  <2>4. CASE Steps(q)
    <3>1. PICK r : Goes(q, r)
      BY <2>4, StepGoes DEF GoesWell
    <3>2. /\ req'[q] = r /\ \A s \in Requests : s # q => req'[s] = req[s]
          /\ Running' \subseteq Running /\ SameAsk(r, req[q])
      BY <3>1, PlacesGoing DEF StoresInv, Goes
    <3>3. CASE p # q
      BY <1>2, <2>2, <3>2, <3>3 DEF Running
    <3>4. CASE p = q
      <4>1. n = req'[q] /\ n.target = req[q].target /\ q \in Running
        BY <1>2, <3>2, <3>4 DEF SameAsk
      <4>2. CASE AssignSession(q) /\ Record("orgs", req[q].target, FALSE) # Nothing
        <5>1. Row("orgs", req[q].target) # Nothing
          BY <4>2 DEF Record
        <5>2. PICK o \in rows["orgs"] : o.id = req[q].target
          BY <5>1, RowIs DEF Tables
        <5> QED
          BY <4>1, <5>2, IdsStay
      <4>3. CASE req[q].pc \in WriteStages /\ req[q].coll = "sessions"
        BY <2>2, <3>4, <4>1, <4>3
      <4>4. faults' # faults + 1
        BY <1>1, <2>1
      <4>5. \/ req[q].pc \in WriteStages /\ req[q].coll = "sessions"
            \/ AssignSession(q) /\ Record("orgs", req[q].target, FALSE) # Nothing
        BY <1>2, <2>4, <4>1, <4>4, AssignmentFrom
      <4> QED
        BY <4>2, <4>3, <4>5
    <3> QED
      BY <3>3, <3>4
  <2> QED
    BY <2>3, <2>4
<1> QED
  BY <1>1, <1>2 DEF OrgRowsOK

LEMMA RowUpsert ==
    ASSUME RowsOK, NEW c \in Tables, NEW m, rows' = [rows EXCEPT ![c] = Upsert(c, m)], NEW id
    PROVE  Row(c, id)' = IF id = m.id THEN m ELSE Row(c, id)
<1>1. /\ m \in rows'[c] /\ Keyed(rows[c])
      /\ \A n \in rows'[c] : n = m \/ (n \in rows[c] /\ n.id # m.id)
      /\ \A n \in rows[c] : n.id # m.id => n \in rows'[c]
  <2>1. PICK rest : rest = [rows EXCEPT ![c] = Upsert(c, m)]
    OBVIOUS
  <2>2. /\ m \in rest[c]
        /\ \A n \in rest[c] : n = m \/ (n \in rows[c] /\ n.id # m.id)
        /\ \A n \in rows[c] : n.id # m.id => n \in rest[c]
    BY <2>1, Upserting
  <2> QED
    BY <2>1, <2>2 DEF RowsOK
<1>2. PICK k : k = Row(c, id)'
  OBVIOUS
<1>3. \/ k = Nothing /\ \A n \in rows'[c] : n.id # id
      \/ k \in rows'[c] /\ k.id = id
  BY <1>2 DEF Row
<1>4. PICK j : j = Row(c, id)
  OBVIOUS
<1>5. \/ j = Nothing /\ \A n \in rows[c] : n.id # id
      \/ j \in rows[c] /\ j.id = id
  BY <1>4, RowIs
<1>6. CASE id = m.id
  BY <1>1, <1>2, <1>3, <1>6
<1>7. CASE id # m.id
  BY <1>1, <1>2, <1>3, <1>4, <1>5, <1>7 DEF Keyed
<1> QED
  BY <1>6, <1>7

LEMMA PendingSteps ==
    ASSUME StoresInv, NEW q \in Requests, Steps(q), req[q].pc \in {"audit", "mirror"}
    PROVE  AppendAudit(q) \/ MirrorRecord(q)
BY DEF Steps, WorkspaceStep, DirectMember, SessionOrganization, GetOrganization, Ensure,
       FirstOwnerIn, GrantCreator, AssignSession, ReadWorkspace, ReadAgent, RecordFeedback,
       RecordEvent, AppendRecord

(* A record waits for its row until it is mirrored.                        *)
LEMMA PendingKept ==
    ASSUME StoresInv, NEW q \in Requests, (\E r : Comes(q, r)) \/ Steps(q),
           mirrored, faults' = faults, NEW c, NEW n, Pending(c, n)
    PROVE  Pending(c, n)' \/ (MirrorRecord(q) /\ c = req[q].coll /\ n = req[q].next)
<1>1. PICK p \in Running :
         req[p].pc \in {"audit", "mirror"} /\ req[p].coll = c /\ req[p].next = n
  BY DEF Pending
<1>2. p \in Requests
  BY DEF Running
<1>3. CASE \E r : Comes(q, r)
  <2>1. PICK r : Arrives(q, r)
    BY <1>3 DEF Comes
  <2>2. /\ Running' = Running \cup {q}
        /\ \A s \in Running : \A f \in Locals \ {"met"} : req'[s][f] = req[s][f]
    BY <2>1, PlacesArriving DEF StoresInv
  <2>3. req'[p].pc = req[p].pc /\ req'[p].coll = req[p].coll /\ req'[p].next = req[p].next
    BY <2>2 DEF Locals
  <2> QED
    BY <1>1, <2>2, <2>3 DEF Pending
<1>4. CASE Steps(q)
  <2>1. PICK r : Goes(q, r)
    BY <1>4, StepGoes DEF GoesWell
  <2>2. /\ req'[q] = r /\ \A s \in Requests : s # q => req'[s] = req[s]
        /\ Handling(r) => Running' = Running
        /\ Closed(r) => Running' = Running \ {q}
        /\ Handling(r) \/ Closed(r)
    BY <2>1, PlacesGoing DEF StoresInv
  <2>3. CASE p # q
    BY <1>1, <1>2, <2>2, <2>3 DEF Pending
  <2>4. CASE p = q /\ AppendAudit(q)
    <3>1. Handling(req[q]) /\ q \in DOMAIN req
      BY <1>1, <2>4, MirroredTypes DEF StoresInv, RequestsOK
    <3>2. req' = [req EXCEPT ![q] = To(req[q], "mirror")] \/ faults' = faults + 1
      BY <2>4, AppendingIs DEF AppendAudit, Appends, Throws
    <3>3. faults' # faults + 1
      BY DEF StoresInv, ClockOK
    <3>4. r = To(req[q], "mirror")
      BY <2>2, <3>1, <3>2, <3>3
    <3>5. Handling(r) /\ r.pc = "mirror" /\ r.coll = req[q].coll /\ r.next = req[q].next
      BY <3>1, <3>4, MovedIs DEF Stages
    <3> QED
      BY <1>1, <2>2, <2>4, <3>5 DEF Pending
  <2> QED
    BY <1>1, <1>4, <2>3, <2>4, PendingSteps
<1> QED
  BY <1>3, <1>4

(* What was just appended waits for its row.                               *)
LEMMA AppendedPending ==
    ASSUME StoresInv, NEW q \in Requests, Steps(q), mirrored, faults' = faults,
           NEW c \in Deciding, req[q].pc = "append", req[q].coll = c
    PROVE  \E n : n = req[q].next /\ Pending(c, n)'
<1>1. q \in Running /\ Handling(req[q]) /\ q \in DOMAIN req
  BY AppendedTypes DEF StoresInv, RequestsOK
<1>2. AppendRecord(q)
  BY DEF Steps, WorkspaceStep, DirectMember, SessionOrganization, GetOrganization, Ensure,
         FirstOwnerIn, GrantCreator, AssignSession, ReadWorkspace, AppendAudit, ReadAgent,
         RecordFeedback, RecordEvent, MirrorRecord
<1>3. faults' # faults + 1
  BY DEF StoresInv, ClockOK
<1>4. PICK pc \in {"audit", "mirror"} : req' = [req EXCEPT ![q] = To(req[q], pc)]
  BY <1>2, <1>3, AppendingIs DEF AppendRecord, Appends, Throws, Deciding, Tables
<1>5. PICK r : r = To(req[q], pc)
  OBVIOUS
<1>6. Handling(r) /\ r.pc = pc /\ r.coll = req[q].coll /\ r.next = req[q].next
  BY <1>1, <1>5, MovedIs DEF Stages
<1>7. req'[q] = r /\ q \in Running'
  <2>1. req'[q] = r
    BY <1>1, <1>4, <1>5
  <2> QED
    BY <1>6, <2>1 DEF Running, Ended
<1> QED
  BY <1>6, <1>7 DEF Pending

LEMMA RowsFreshUnmirrored ==
    ASSUME StoresInv, WritersOK, RowsFresh, NEW q \in Requests,
           (\E r : Comes(q, r)) \/ Steps(q), rows' = rows,
           MirrorRecord(q) => faults' # 0 \/ req[q].coll \notin Deciding
    PROVE  RowsFresh'
<1>1. WritersKnown /\ Lasting
  BY LastingIs DEF WritersOK
<1>2. mirrored' = mirrored /\ faults \in Nat /\ faults' \in Nat /\ faults <= faults'
  BY <1>1 DEF Lasting
<1>3. ASSUME mirrored, NEW c \in Deciding, NEW id
      PROVE  /\ Row(c, id)' \in Writes(c, id)' \cup {PastRecord(c, id)'}
             /\ faults' = 0 => \A n \in Writes(c, id)' :
                   Pending(c, n)' \/ (Row(c, id)' \in Writes(c, id)' /\ ~Follows(n, Row(c, id))')
  <2>1. PICK k : k = Row(c, id)
    OBVIOUS
  <2>2. Row(c, id)' = k
    BY <2>1 DEF Row
  <2>3. Adds(c)
    BY AddsIs
  <2>4. /\ \A n \in Writes(c, id) : n \in Writes(c, id)'
        /\ PastRecord(c, id)' = PastRecord(c, id)
    BY <2>3, WritesGrow
  <2>5. /\ k \in Writes(c, id) \cup {PastRecord(c, id)}
        /\ faults = 0 => \A n \in Writes(c, id) :
              Pending(c, n) \/ (k \in Writes(c, id) /\ ~Follows(n, k))
    BY <1>3, <2>1 DEF RowsFresh
  <2>6. ASSUME faults' = 0, NEW n \in Writes(c, id)'
        PROVE  Pending(c, n)' \/ (k \in Writes(c, id)' /\ ~Follows(n, k)')
    <3>1. faults = 0 /\ faults' = faults /\ ~(MirrorRecord(q) /\ c = req[q].coll)
      BY <1>2, <2>6
    <3>2. CASE n \in Writes(c, id)
      <4>1. CASE Pending(c, n)
        BY <1>3, <3>1, <4>1, PendingKept
      <4>2. CASE k \in Writes(c, id) /\ ~Follows(n, k)
        BY <1>1, <2>4, <3>2, <4>2, FollowsKept
      <4> QED
        BY <2>5, <3>1, <3>2, <4>1, <4>2
    <3>3. CASE n \notin Writes(c, id)
      <4>1. Steps(q)
        BY <3>3 DEF Comes, Arrives, Writes, New, Entries
      <4>2. file'[c] # file[c]
        BY <3>3 DEF Writes, New, Entries
      <4>3. /\ req[q].pc = "append" /\ req[q].coll = c
            /\ \E m : m = req[q].next /\ Growing(c, m) /\ m.req = q
        BY <4>1, <4>2, AddsByIs DEF AddsBy
      <4>4. PICK m : m = req[q].next /\ Growing(c, m) /\ m.req = q
        BY <4>3
      <4>5. Writes(c, id)' = Writes(c, id) \cup (IF m.id = id THEN {m} ELSE {})
        BY <4>4, NewGrow DEF StoresInv
      <4>6. n = m
        BY <3>3, <4>5
      <4> QED
        BY <1>3, <3>1, <4>1, <4>3, <4>4, <4>6, AppendedPending
    <3> QED
      BY <3>2, <3>3
  <2>7. ASSUME NEW n PROVE Follows(n, Row(c, id))' <=> Follows(n, k)'
    BY <2>2 DEF Follows
  <2> QED
    BY <2>2, <2>4, <2>5, <2>6, <2>7
<1> QED
  BY <1>2, <1>3 DEF RowsFresh

(* The row that a request brings up to date is followed by nobody.         *)
LEMMA NothingFollows ==
    ASSUME StoresInv, WritersOK, NEW q \in Requests, MirrorRecord(q),
           NEW c \in Deciding, c = req[q].coll, NEW m, m = req[q].next,
           NEW n \in Writes(c, m.id)
    PROVE  m \in Writes(c, m.id) /\ ~Follows(n, m)
<1>1. /\ q \in Running /\ req[q].pc = "mirror" /\ Handling(req[q])
      /\ WorkspaceShape(q, req[q]) /\ NextOf(q, req[q]) /\ WriteOf(req[q])
  BY MirroredTypes DEF MirrorRecord
<1>2. m.id = req[q].id /\ m.req = q
  BY <1>1 DEF NextOf, Deciding
<1>3. m \in Writes(c, m.id)
  BY <1>1, <1>2 DEF WritersOK
<1>4. n.req \in Requests /\ n.req \in Running \cup Over
  BY WritesAre DEF WritersOK
<1>5. q \notin req[n.req].after
  <2>1. q \notin Over
    BY <1>1 DEF Running, Over
  <2> QED
    BY <1>4, <2>1 DEF StoresInv, RequestsOK
<1>6. ASSUME m.req = n.req, m.by = "first-signed-writer" PROVE n.by = m.by
  <2>1. c = "members"
    BY <1>1, <1>6, PeopleAssumption DEF NextOf, SessionRecords, Deciding
  <2>2. req[q].by = "first-signed-writer"
    BY <1>1, <1>6, <2>1 DEF NextOf
  <2>3. req[q].then = "admitted"
    BY <1>1, <2>2, PeopleAssumption DEF WriteOf, WorkspaceShape
  <2>4. Early(req[q])
    BY <1>1, <2>3 DEF Early, WriteStages
  <2>5. PICK i \in DOMAIN file[c] : n = file[c][i]
    BY WritesAre DEF WritersOK
  <2> QED
    BY <1>1, <1>2, <1>6, <2>4, <2>5 DEF WritersOK
<1> QED
  BY <1>2, <1>3, <1>5, <1>6 DEF Follows

LEMMA RowsFreshMirrored ==
    ASSUME StoresInv, WritersOK, RowsFresh, NEW q \in Requests, MirrorRecord(q), faults' = faults,
           rows' = [rows EXCEPT ![req[q].coll] = Upsert(req[q].coll, req[q].next)]
    PROVE  RowsFresh'
<1>1. Steps(q) /\ file' = file /\ mirrored' = mirrored /\ faults \in Nat
  BY DEF Steps, MirrorRecord, StoresInv, ClockOK
<1>2. WritersKnown /\ Lasting
  BY <1>1, LastingIs DEF WritersOK
<1>3. PICK d, m : d = req[q].coll /\ m = req[q].next
  OBVIOUS
<1>4. /\ q \in Running /\ d \in Tables /\ NextOf(q, req[q]) /\ mirrored
  BY <1>3, MirroredTypes DEF MirrorRecord, WorkspaceShape
<1>5. rows' = [rows EXCEPT ![d] = Upsert(d, m)]
  BY <1>3
<1>6. ASSUME NEW c \in Deciding, NEW id
      PROVE  /\ Row(c, id)' \in Writes(c, id)' \cup {PastRecord(c, id)'}
             /\ faults' = 0 => \A n \in Writes(c, id)' :
                   Pending(c, n)' \/ (Row(c, id)' \in Writes(c, id)' /\ ~Follows(n, Row(c, id))')
  <2>1. Writes(c, id)' = Writes(c, id) /\ PastRecord(c, id)' = PastRecord(c, id)
    BY <1>1 DEF Writes, PastRecord, New, Entries
  <2>2. PICK k : k = Row(c, id)'
    OBVIOUS
  <2>3. ASSUME NEW n PROVE Follows(n, Row(c, id))' <=> Follows(n, k)'
    BY <2>2 DEF Follows
  <2>4. \A n \in Writes(c, id) : Follows(n, k)' <=> Follows(n, k)
    BY <1>2, FollowsKept
  <2>5. CASE c = d /\ id = m.id
    <3>1. k = m
      BY <1>4, <1>5, <2>2, <2>5, RowUpsert DEF StoresInv
    <3>2. \A n \in Writes(c, id) : m \in Writes(c, id) /\ ~Follows(n, m)
      BY <1>3, <2>5, NothingFollows
    <3>3. m \in Writes(c, id)
      BY <1>3, <1>4, <2>5 DEF WritersOK, MirrorRecord, NextOf
    <3> QED
      BY <2>1, <2>2, <2>3, <2>4, <3>1, <3>2, <3>3
  <2>6. CASE ~(c = d /\ id = m.id)
    <3>1. k = Row(c, id)
      <4>1. CASE c = d
        BY <1>4, <1>5, <2>2, <2>6, <4>1, RowUpsert DEF StoresInv
      <4>2. CASE c # d
        BY <1>5, <2>2, <4>2 DEF Row, StoresInv, RowsOK, Deciding, Tables
      <4> QED
        BY <4>1, <4>2
    <3>2. /\ k \in Writes(c, id) \cup {PastRecord(c, id)}
          /\ faults = 0 => \A n \in Writes(c, id) :
                Pending(c, n) \/ (k \in Writes(c, id) /\ ~Follows(n, k))
      BY <1>4, <3>1 DEF RowsFresh
    <3>3. ASSUME NEW n \in Writes(c, id), Pending(c, n) PROVE Pending(c, n)'
      <4>1. n.id = id
        BY <1>2, WritesAre
      <4>2. ~(c = req[q].coll /\ n = req[q].next)
        BY <1>3, <2>6, <4>1
      <4> QED
        BY <1>1, <1>4, <3>3, <4>2, PendingKept
    <3> QED
      BY <2>1, <2>2, <2>3, <2>4, <3>2, <3>3
  <2> QED
    BY <2>5, <2>6
<1> QED
  BY <1>6 DEF RowsFresh

LEMMA RowsFreshKept ==
    ASSUME StoresInv, WritersOK, RowsFresh, OrgRowsOK, NEW q \in Requests,
           (\E r : Comes(q, r)) \/ Steps(q)
    PROVE  RowsFresh'
<1>0. MirrorRecord(q) =>
         \/ /\ faults' = faults
            /\ rows' = [rows EXCEPT ![req[q].coll] = Upsert(req[q].coll, req[q].next)]
         \/ rows' = rows /\ ~Referenced(req[q].coll, req[q].next) /\ faults' = faults
         \/ rows' = rows /\ faults' = faults + 1
  BY DEF MirrorRecord
<1>1. CASE /\ MirrorRecord(q) /\ faults' = faults
           /\ rows' = [rows EXCEPT ![req[q].coll] = Upsert(req[q].coll, req[q].next)]
  BY <1>1, RowsFreshMirrored
<1>3. ASSUME MirrorRecord(q), ~Referenced(req[q].coll, req[q].next), faults' = faults
      PROVE  faults # 0 \/ req[q].coll \notin Deciding
  <2>1. /\ q \in Running /\ req[q].pc = "mirror" /\ WorkspaceShape(q, req[q])
        /\ WriteOf(req[q]) /\ NextOf(q, req[q]) /\ mirrored
    BY <1>3, MirroredTypes DEF MirrorRecord, WorkspaceShape
  <2>2. CASE req[q].coll = "sessions" /\ faults = 0
    <3>1. req[q].next.org = req[q].target
      BY <2>1, <2>2 DEF WriteOf, NextOf
    <3>2. \E o \in rows["orgs"] : o.id = req[q].next.org
      BY <2>1, <2>2, <3>1 DEF OrgRowsOK, WriteStages
    <3> QED
      BY <1>3, <2>2, <3>2 DEF Referenced
  <2> QED
    BY <1>3, <2>2 DEF Deciding, Referenced
<1>2. CASE ~(/\ MirrorRecord(q) /\ faults' = faults
             /\ rows' = [rows EXCEPT ![req[q].coll] = Upsert(req[q].coll, req[q].next)])
  <2>0. MirrorRecord(q) => faults' # 0 \/ req[q].coll \notin Deciding
    BY <1>0, <1>2, <1>3 DEF StoresInv, ClockOK
  <2>1. rows' = rows
    <3>1. CASE \E r : Comes(q, r)
      BY <3>1 DEF Comes, Arrives
    <3>2. CASE Steps(q) /\ ~MirrorRecord(q)
      BY <3>2, AppendingIs
         DEF Steps, WorkspaceStep, DirectMember, SessionOrganization, GetOrganization, Ensure,
             FirstOwnerIn, GrantCreator, AssignSession, ReadWorkspace, AppendAudit, ReadAgent,
             RecordFeedback, RecordEvent, AppendRecord, Go
    <3>3. CASE MirrorRecord(q)
      BY <1>0, <1>2, <3>3
    <3> QED
      BY <1>2, <3>1, <3>2, <3>3
  <2> QED
    BY <2>0, <2>1, RowsFreshUnmirrored
<1> QED
  BY <1>1, <1>2

(* At first the tables hold what counts of the past.                       *)
(* A table starts as its file counts.                                      *)
LEMMA MirroredAtFirst ==
    ASSUME StoresInit, mirrored, NEW c \in Tables, NEW id
    PROVE  Row(c, id) = LatestBy(c, id)
<1>1. FilesOK /\ ClockOK /\ RowsOK /\ c \in Stamped
  BY InitFiles, InitTables DEF Stamped
<1>2. rows[c] = {LatestBy(c, file[c][i].id) : i \in DOMAIN file[c]}
  BY <1>1, InitRows
<1>3. CASE LatestBy(c, id) = Nothing /\ \A i \in DOMAIN file[c] : file[c][i].id # id
  <2>1. \A m \in rows[c] : m.id # id
    BY <1>1, <1>2, <1>3, LatestOf
  <2> QED
    BY <1>1, <1>3, <2>1, RowIs
<1>4. CASE \E i \in DOMAIN file[c] : LatestBy(c, id) = file[c][i] /\ file[c][i].id = id
  <2>1. LatestBy(c, id) \in rows[c] /\ LatestBy(c, id).id = id
    BY <1>2, <1>4
  <2>2. Keyed(rows[c])
    BY <1>1 DEF RowsOK
  <2> QED
    BY <1>1, <2>1, <2>2, RowIs DEF Keyed
<1> QED
  BY <1>1, <1>3, <1>4, LatestByIs

LEMMA RowsFreshInit ==
    ASSUME StoresInit
    PROVE  WritersOK /\ RowsFresh /\ SinceOK
<1>1. FilesOK /\ ClockOK /\ Running = {}
  BY InitFiles, StoresInvInit DEF StoresInit, Running, Idle
<1>2. \A c \in Deciding : \A i \in DOMAIN file[c] : file[c][i].req \notin Requests
  BY PastsAssumption, NothingAssumption DEF StoresInit
<1>3. WritersOK /\ SinceOK
  BY <1>1, <1>2 DEF WritersOK, WritersKnown, SinceOK
<1>4. ASSUME mirrored, NEW c \in Deciding, NEW id
      PROVE  Writes(c, id) = {} /\ Row(c, id) = PastRecord(c, id)
  <2>1. New(c, id) = {}
    BY <1>2 DEF New, Entries
  <2>2. Writes(c, id) = {} /\ PastRecord(c, id) = LatestBy(c, id)
    BY <2>1 DEF Writes, PastRecord, LatestBy, LatestIn, Entries
  <2>3. c \in Tables
    BY DEF Deciding, Tables
  <2> QED
    BY <1>4, <2>2, <2>3, MirroredAtFirst
<1>5. RowsFresh
  BY <1>4 DEF RowsFresh
<1> QED
  BY <1>3, <1>5

LEMMA AccessInvInit ==
    ASSUME StoresInit
    PROVE  AccessInv
<1>1. Running = {}
  BY DEF StoresInit, Running, Idle
<1> QED
  BY <1>1, StoresInvInit, RowsFreshInit DEF AccessInv, OrgRowsOK

LEMMA AccessUnchanged ==
    ASSUME AccessInv, Idling
    PROVE  AccessInv'
<1>1. UNCHANGED <<file, rows, mirrored, clock, faults, req>> /\ Running' = Running /\ Over' = Over
  BY DEF Idling, Running, Over
<1>2. StoresInv' /\ OrgRowsOK'
  BY <1>1, NothingChanges DEF AccessInv, OrgRowsOK
<1>3. WritersOK' /\ SinceOK'
  BY <1>1 DEF AccessInv, WritersOK, WritersKnown, SinceOK, Early, Writes, New, Entries
<1>4. RowsFresh'
  <2>1. \A c, id : /\ Writes(c, id)' = Writes(c, id) /\ PastRecord(c, id)' = PastRecord(c, id)
                   /\ Row(c, id)' = Row(c, id)
    BY <1>1 DEF Writes, PastRecord, New, Entries, Row
  <2>2. \A c, n : Pending(c, n)' <=> Pending(c, n)
    BY <1>1 DEF Pending
  <2>3. ASSUME NEW c, NEW id, NEW n
        PROVE  Follows(n, Row(c, id))' <=> Follows(n, Row(c, id))
    BY <1>1 DEF Follows, Row
  <2> QED
    BY <1>1, <2>1, <2>2, <2>3 DEF AccessInv, RowsFresh
<1>5. ASSUME NEW q \in Running', NEW r, r = req'[q] PROVE AccessOK(r)'
  <2>1. AccessOK(r) /\ WritersKnown /\ StoresInv /\ SinceOK
    BY <1>1, <1>5 DEF AccessInv, WritersOK
  <2>2. Lasting /\ Adds("members") /\ Adds("sessions")
    BY <1>1, <2>1 DEF Lasting, Adds, StoresInv, ClockOK
  <2>3. Watching(r)
    BY <1>1, <1>5, <2>1, IsWatching
  <2> QED
    BY <2>1, <2>2, <2>3, AccessGrows
<1> QED
  BY <1>2, <1>3, <1>4, <1>5 DEF AccessInv

LEMMA AccessInvKept ==
    ASSUME AccessInv, [StoresNext]_storeVars
    PROVE  AccessInv'
<1>1. StoresInv /\ WritersOK /\ SinceOK /\ RowsFresh /\ OrgRowsOK
  BY DEF AccessInv
<1>2. CASE ~Idling
  <2>1. PICK q \in Requests : (\E r : Comes(q, r)) \/ Steps(q)
    BY <1>1, <1>2, NextIs
  <2>2. StoresInv' /\ WritersOK' /\ SinceOK' /\ RowsFresh' /\ OrgRowsOK'
    BY <1>1, <2>1, StoresInvKept, WritersKept, SinceKept, RowsFreshKept, OrgRowsKept
  <2> QED
    BY <2>1, <2>2, AccessKept DEF AccessInv
<1>3. CASE Idling
  BY <1>3, AccessUnchanged
<1> QED
  BY <1>2, <1>3

(* Past its check a request was let in.                                    *)
LEMMA LetInWrites ==
    ASSUME AccessInv
    PROVE  WritesAllowed
<1>1. ASSUME NEW q \in Running, req[q].op \in Guarded, req[q].by = req[q].who
      PROVE  LetIn(req[q]) /\ Unbarred(req[q])
  <2>1. AccessOK(req[q]) /\ Shape(q, req[q])
    BY DEF AccessInv, StoresInv
  <2>2. WorkspaceShape(q, req[q])
    BY <1>1, <2>1 DEF Shape, RegistryShape, RegistryOps, ActivationShape, Guarded
  <2>3. req[q].by # Nothing
    BY <1>1, <2>2, PeopleAssumption DEF WorkspaceShape
  <2>4. req[q].pc \in Stages
    BY RequestIs DEF AccessInv, StoresInv, Running
  <2>5. req[q].pc \in {"admitted", "assign"} \cup WriteStages
    BY <1>1, <2>1, <2>2, <2>3, <2>4 DEF AccessOK, WorkspaceShape, Stages, WriteStages, Guarded
  <2> QED
    BY <1>1, <2>1, <2>5 DEF AccessOK
<1> QED
  BY <1>1 DEF WritesAllowed, LetIn, Unbarred, Owners, Guarded

(* A request that changes a member, a memo or an assignment had a role     *)
(* for it, as far as it may have seen, at every step from its check to its *)
(* last write, however other requests write in between.                    *)
THEOREM WritesAreAllowed == StoresSpec => []WritesAllowed
<1>1. StoresInit => AccessInv
  BY AccessInvInit
<1>2. AccessInv /\ [StoresNext]_storeVars => AccessInv'
  BY AccessInvKept
<1>3. AccessInv => WritesAllowed
  BY LetInWrites
<1> QED
  BY <1>1, <1>2, <1>3, PTL DEF StoresSpec
-----------------------------------------------------------------------------
(* A request that runs alone stamps last.                                  *)

Stamp(r) == IF r.pc = "read" THEN r.at ELSE r.next.at

(* Nothing is stamped later than what it is about to append, and what it   *)
(* put on file is the last record there.                                   *)
AloneAt(r) ==
    r.met = {} =>
       /\ r.pc \in {"read", "append"} /\ r.coll \in Stamped =>
             \A i \in DOMAIN file[r.coll] : file[r.coll][i].at <= Stamp(r)
       /\ r.pc = "audit" =>
             /\ Len(file["members"]) \in DOMAIN file["members"]
             /\ file["members"][Len(file["members"])] = r.next
             /\ \A i \in DOMAIN file["members"] : file["members"][i].at <= r.next.at

AloneOK == \A q \in Running : AloneAt(req[q])

LEMMA OnlyOne ==
    ASSUME StoresInv, NEW q \in Running, req[q].met = {}
    PROVE  Running = {q}
BY DEF StoresInv, RequestsOK

LEMMA AloneKept ==
    ASSUME StoresInv, AloneOK, NEW q \in Requests, (\E r : Comes(q, r)) \/ Steps(q)
    PROVE  AloneOK'
<1>1. ASSUME NEW r, Comes(q, r), NEW p \in Running', NEW n, n = req'[p]
      PROVE  AloneAt(n)'
  <2>1. /\ Running' = Running \cup {q} /\ req'[q] = r
        /\ \A s \in Running : req'[s].met = req[s].met \cup {q}
    BY <1>1, PlacesArriving DEF Comes, StoresInv
  <2>2. CASE p = q
    BY <1>1, <2>1, <2>2 DEF Comes, Arrives, Arriving, AloneAt
  <2>3. CASE p # q
    BY <1>1, <2>1, <2>3 DEF AloneAt
  <2> QED
    BY <2>2, <2>3
<1>2. ASSUME Steps(q), NEW p \in Running', NEW n, n = req'[p], n.met = {}
      PROVE  AloneAt(n)'
  <2>1. PICK r : Goes(q, r)
    BY <1>2, StepGoes DEF GoesWell
  <2>2. /\ req'[q] = r /\ \A s \in Requests : s # q => req'[s] = req[s]
        /\ Handling(r) => Running' = Running
        /\ Closed(r) => Running' = Running \ {q}
        /\ Handling(r) \/ Closed(r)
        /\ r.met = req[q].met
    BY <2>1, PlacesGoing DEF StoresInv
  <2>3. p \in Running /\ p \in Requests /\ q \in Running
    BY <2>1, <2>2 DEF Running, Goes
  <2>4. p = q
    <3>1. CASE p # q
      BY <1>2, <2>2, <2>3, <3>1 DEF StoresInv, RequestsOK
    <3> QED
      BY <3>1
  <2>5. AloneAt(req[q]) /\ req[q].met = {}
    BY <1>2, <2>2, <2>3, <2>4 DEF AloneOK
  <2>6. ASSUME n.pc = "read", n.coll \in Stamped, NEW i \in DOMAIN file'[n.coll]
        PROVE  file'[n.coll][i].at <= n.at
    <3>1. n.at = clock' /\ clock' \in Now /\ file' = file
      BY <1>2, <2>4, <2>6, StageFrom
    <3>2. PICK t \in Now : t = clock'
      BY <3>1
    <3>3. /\ file[n.coll][i].at \in Int /\ file[n.coll][i].at <= clock
          /\ clock <= t /\ clock \in Int /\ t \in Int
      BY <2>6, <3>1, NowIs, StampsAre DEF StoresInv
    <3> QED
      BY <3>1, <3>2, <3>3
  <2>7. ASSUME n.pc = "append", n.coll \in Stamped, NEW i \in DOMAIN file'[n.coll]
        PROVE  file'[n.coll][i].at <= n.next.at
    <3>1. ReadWorkspace(q) \/ ReadAgent(q) \/ RecordFeedback(q) \/ RecordEvent(q)
      BY <1>2, <2>4, <2>7, StageFrom
    <3>2. CASE ReadWorkspace(q)
      <4>1. /\ req[q].pc = "read" /\ n.coll = req[q].coll /\ n.next.at = req[q].at
            /\ file' = file
        BY <1>2, <2>4, <3>2, ReadWorkspaceIs
      <4> QED
        BY <2>5, <2>7, <4>1 DEF AloneAt, Stamp
    <3>3. CASE ReadAgent(q)
      <4>1. n.next.at = clock' /\ clock' \in Now /\ file' = file
        BY <1>2, <2>4, <2>7, <3>3, ReadAgentIs
      <4>2. PICK t \in Now : t = clock'
        BY <4>1
      <4>3. /\ file[n.coll][i].at \in Int /\ file[n.coll][i].at <= clock
            /\ clock <= t /\ clock \in Int /\ t \in Int
        BY <2>7, <4>1, NowIs, StampsAre DEF StoresInv
      <4> QED
        BY <4>1, <4>2, <4>3
    <3>4. CASE RecordFeedback(q) \/ RecordEvent(q)
      <4>3. n.coll \in {"feedback", "events"}
        BY <1>2, <2>4, <2>7, <3>4, ActivationAppends
      <4> QED
        BY <2>7, <4>3 DEF Stamped, Tables
    <3> QED
      BY <3>1, <3>2, <3>3, <3>4
  <2>8. ASSUME n.pc = "audit"
        PROVE  /\ Len(file'["members"]) \in DOMAIN file'["members"]
               /\ file'["members"][Len(file'["members"])] = n.next
               /\ \A i \in DOMAIN file'["members"] : file'["members"][i].at <= n.next.at
    <3>1. /\ AppendRecord(q) /\ n.pc = (IF req[q].coll = "members" THEN "audit" ELSE "mirror")
          /\ n.next = req[q].next
      <4>1. n = req'[q]
        BY <1>2, <2>4
      <4> QED
        BY <1>2, <2>8, <4>1, PendingFrom
    <3>2. AppendRecord(q) /\ req[q].coll = "members" /\ req[q].pc = "append"
      BY <2>8, <3>1 DEF AppendRecord
    <3>3. PICK c, m : c = req[q].coll /\ m = req[q].next
      OBVIOUS
    <3>4. Growing(c, m) /\ c = "members" /\ c \in Collections
      BY <1>2, <2>4, <2>8, <3>2, <3>3, AppendWrites DEF Deciding, Collections, Tables
    <3>5. PICK k : k = Len(file[c]) + 1
      OBVIOUS
    <3>6. /\ DOMAIN file'[c] = DOMAIN file[c] \cup {k}
          /\ file'[c][k] = m /\ \A j \in DOMAIN file[c] : file'[c][j] = file[c][j]
      BY <3>4, <3>5, LogGrows DEF StoresInv
    <3>7. Len(file'[c]) = k
      <4>1. Log(file[c]) /\ file'[c] = Append(file[c], m)
        BY <3>4 DEF Growing, StoresInv, FilesOK
      <4> QED
        BY <3>5, <4>1, Appending
    <3>8. \A j \in DOMAIN file[c] : file[c][j].at <= m.at
      BY <2>5, <3>2, <3>3, <3>4 DEF AloneAt, Stamp, Stamped, Tables
    <3>9. m.at \in Int
      BY <3>2, <3>3, <3>4, AppendedTypes DEF MemberRecords
    <3> QED
      BY <3>1, <3>3, <3>4, <3>6, <3>7, <3>8, <3>9
  <2> QED
    BY <2>6, <2>7, <2>8 DEF AloneAt, Stamp
<1>3. ASSUME NEW p \in Running', NEW n, n = req'[p] PROVE AloneAt(n)'
  <2>1. CASE n.met = {}
    BY <1>1, <1>2, <1>3, <2>1
  <2> QED
    BY <1>1, <2>1 DEF AloneAt
<1> QED
  BY <1>3 DEF AloneOK, AloneAt, Stamp
-----------------------------------------------------------------------------
(* What a request asked stays what it was.                                 *)
LEMMA AskKept ==
    ASSUME StoresInv, NEW s \in Requests, (\E r : Comes(s, r)) \/ Steps(s),
           NEW p \in Running \cup Over
    PROVE  /\ p \in Running' \cup Over'
           /\ req'[p].op = req[p].op /\ req'[p].who = req[p].who /\ req'[p].target = req[p].target
           /\ req'[p].ask = req[p].ask /\ req'[p].after = req[p].after
           /\ p \in Over => req'[p] = req[p] /\ p # s
           /\ req[p].met \subseteq req'[p].met
<1>1. p \in Requests /\ Running \cap Over = {}
  BY DEF Running, Over
<1>2. CASE \E r : Comes(s, r)
  <2>1. PICK r : Arrives(s, r)
    BY <1>2 DEF Comes
  <2>2. /\ s \notin Running /\ s \notin Over
        /\ Running' = Running \cup {s} /\ Over' = Over
        /\ \A x \in Running : /\ \A f \in Locals \ {"met"} : req'[x][f] = req[x][f]
                              /\ req'[x].met = req[x].met \cup {s}
        /\ \A x \in Requests \ Running : x # s => req'[x] = req[x]
    BY <2>1, PlacesArriving DEF StoresInv
  <2>3. CASE p \in Running
    BY <1>1, <2>2, <2>3 DEF Locals
  <2>4. CASE p \in Over
    BY <1>1, <2>2, <2>4
  <2> QED
    BY <2>3, <2>4
<1>3. CASE Steps(s)
  <2>1. PICK r : Goes(s, r)
    BY <1>3, StepGoes DEF GoesWell
  <2>2. /\ req'[s] = r /\ \A x \in Requests : x # s => req'[x] = req[x]
        /\ Handling(r) => Running' = Running /\ Over' = Over
        /\ Closed(r) => Running' = Running \ {s} /\ Over' = Over \cup {s}
        /\ Handling(r) \/ Closed(r)
        /\ SameAsk(r, req[s]) /\ s \in Running
    BY <2>1, PlacesGoing DEF StoresInv, Goes
  <2> QED
    BY <1>1, <2>2 DEF SameAsk
<1> QED
  BY <1>2, <1>3

-----------------------------------------------------------------------------
(* A request that no other overlaps that writes what it changes stamps     *)
(* last of those that do.                                                  *)

Clear(q) ==
    \A p \in req[q].met : p \in Running \cup Over => Subject(req[q]) \notin MayWrite(req[p])

(* What a handler writes is among what its request may write.              *)
LEMMA WritesSubject ==
    ASSUME StoresInv, NEW s \in Running, NEW r, r = req[s], r.coll \in Stamped,
           NEW id, \/ r.pc \in WriteStages \ {"read"} /\ id = r.next.id
                   \/ r.pc = "read" /\ id = r.id
    PROVE  <<r.coll, id>> \in MayWrite(r)
<1>1. Shape(s, r)
  BY DEF StoresInv
<1>2. CASE WorkspaceShape(s, r)
  <2>1. WriteOf(r) /\ id = r.id /\ r.who # Nothing
    BY <1>2, PeopleAssumption DEF WorkspaceShape, WriteStages, NextOf
  <2>2. MemberId(r.target, r.who) = id /\ r.coll = "members" => <<r.coll, id>> \in MayWrite(r)
    BY <2>1 DEF MayWrite
  <2>3. Subject(r) \in MayWrite(r)
    BY DEF MayWrite
  <2>4. ASSUME r.op \in {"edit", "export"}, r.coll = "memo", r.id = r.target
        PROVE  <<r.coll, id>> = Subject(r)
    BY <2>1, <2>4 DEF Subject, RegistryOps
  <2>5. ASSUME r.op = "member", r.coll = "members", r.id = MemberId(r.target, r.ask.person)
        PROVE  <<r.coll, id>> = Subject(r)
    BY <2>1, <2>5 DEF Subject, RegistryOps
  <2>6. ASSUME r.op = "org", r.coll = "orgs", r.id = r.target
        PROVE  <<r.coll, id>> = Subject(r)
    BY <2>1, <2>6 DEF Subject, RegistryOps
  <2>7. ASSUME r.op = "assign", r.coll = "sessions", r.id = r.ask
        PROVE  <<r.coll, id>> = Subject(r)
    BY <2>1, <2>7 DEF Subject, RegistryOps
  <2> QED
    BY <2>1, <2>2, <2>3, <2>4, <2>5, <2>6, <2>7 DEF WriteOf
<1>3. CASE RegistryShape(s, r)
  BY <1>3 DEF RegistryShape, WriteStages, MayWrite, Subject, RegistryOps
<1>4. CASE ActivationShape(s, r)
  BY <1>4 DEF ActivationShape, WriteStages, Stamped, Tables
<1> QED
  BY <1>1, <1>2, <1>3, <1>4 DEF Shape

LEMMA SubjectSame ==
    ASSUME NEW n, NEW r, n.op = r.op, n.who = r.who, n.target = r.target, n.ask = r.ask
    PROVE  Subject(n) = Subject(r) /\ MayWrite(n) = MayWrite(r)
BY DEF Subject, MayWrite

LEMMA ClearBefore ==
    ASSUME StoresInv, NEW s \in Requests, (\E r : Comes(s, r)) \/ Steps(s),
           NEW q \in Running \cup Over, Clear(q)'
    PROVE  Clear(q)
<1>1. ASSUME NEW p \in Running \cup Over
      PROVE  /\ p \in Running' \cup Over'
             /\ Subject(req'[p]) = Subject(req[p]) /\ MayWrite(req'[p]) = MayWrite(req[p])
             /\ req[p].met \subseteq req'[p].met
  <2>1. /\ p \in Running' \cup Over' /\ req[p].met \subseteq req'[p].met
        /\ req'[p].op = req[p].op /\ req'[p].who = req[p].who
        /\ req'[p].target = req[p].target /\ req'[p].ask = req[p].ask
    BY AskKept
  <2> QED
    BY <2>1, SubjectSame
<1>2. ASSUME NEW p \in req'[q].met, p \in Running' \cup Over'
      PROVE  Subject(req'[q]) \notin MayWrite(req'[p])
  BY <1>2 DEF Clear, Subject, MayWrite
<1> QED
  BY <1>1, <1>2 DEF Clear

(* Nothing on record of what it changes is stamped later than what it is   *)
(* about to append, and what it put on file is the last of it there.       *)
OwnAt(q, r) ==
    Clear(q) =>
       /\ r.pc = "read" /\ r.coll \in Stamped /\ <<r.coll, r.id>> = Subject(r) =>
             \A i \in Entries(r.coll, r.id) : file[r.coll][i].at <= r.at
       /\ r.pc = "append" /\ r.coll \in Stamped /\ <<r.coll, r.next.id>> = Subject(r) =>
             \A i \in Entries(r.coll, r.next.id) : file[r.coll][i].at <= r.next.at
       /\ r.pc = "audit" /\ <<"members", r.next.id>> = Subject(r) =>
             \E k \in Entries("members", r.next.id) :
                /\ file["members"][k] = r.next
                /\ \A i \in Entries("members", r.next.id) :
                      i <= k /\ file["members"][i].at <= r.next.at

OwnOK == \A q \in Running : OwnAt(q, req[q])

(* Others leave the entries of it alone.                                   *)
LEMMA OthersLeave ==
    ASSUME StoresInv, NEW s \in Requests, Steps(s), NEW q \in Running, q # s, Clear(q),
           NEW c \in Stamped, NEW id, <<c, id>> = Subject(req[q])
    PROVE  /\ Entries(c, id)' = Entries(c, id)
           /\ \A i \in Entries(c, id) : file'[c][i] = file[c][i]
<1>1. Entries(c, id) \subseteq DOMAIN file[c] /\ c \in Collections
  BY DEF Entries, Stamped, Collections, Tables
<1>2. CASE file'[c] = file[c]
  BY <1>2 DEF Entries
<1>3. CASE file'[c] # file[c]
  <2>1. req[s].pc = "append" /\ Puts(s, req[s].coll, req[s].next)
    <3>1. c # "audit"
      BY DEF Stamped, Tables
    <3> QED
      BY <1>1, <1>3, <3>1, StepEffect DEF Effect, Puts, StoresInv, FilesOK
  <2>2. PICK m : m = req[s].next
    OBVIOUS
  <2>3. req[s].coll = c /\ file' = [file EXCEPT ![c] = Append(@, m)]
    BY <1>1, <1>3, <2>1, <2>2, AppendedTypes DEF Puts, StoresInv, FilesOK
  <2>4. Growing(c, m)
    BY <1>1, <2>3 DEF Growing, StoresInv, FilesOK
  <2>5. PICK k : k = Len(file[c]) + 1
    OBVIOUS
  <2>6. /\ k \notin DOMAIN file[c] /\ DOMAIN file'[c] = DOMAIN file[c] \cup {k}
        /\ file'[c][k] = m /\ \A j \in DOMAIN file[c] : file'[c][j] = file[c][j]
        /\ Entries(c, id)' = Entries(c, id) \cup (IF m.id = id THEN {k} ELSE {})
    BY <1>1, <2>4, <2>5, EntriesGrow DEF StoresInv
  <2>7. m.id # id
    <3>1. s \in Running /\ req[s].pc = "append"
      BY <2>1, RequestIs DEF StoresInv, Stages
    <3>2. <<c, m.id>> \in MayWrite(req[s])
      BY <2>2, <2>3, <3>1, WritesSubject DEF WriteStages
    <3>3. s \in req[q].met
      BY <3>1 DEF StoresInv, RequestsOK
    <3> QED
      BY <3>1, <3>2, <3>3 DEF Clear
  <2> QED
    BY <1>1, <2>6, <2>7
<1> QED
  BY <1>2, <1>3

LEMMA OwnKept ==
    ASSUME StoresInv, OwnOK, NEW s \in Requests, (\E r : Comes(s, r)) \/ Steps(s)
    PROVE  OwnOK'
<1>1. ASSUME NEW r, Comes(s, r), NEW q \in Running', Clear(q)', NEW n, n = req'[q]
      PROVE  OwnAt(q, n)'
  <2>1. /\ Running' = Running \cup {s} /\ req'[s] = r
        /\ \A p \in Running : \A f \in Locals \ {"met"} : req'[p][f] = req[p][f]
    BY <1>1, PlacesArriving DEF Comes, StoresInv
  <2>2. CASE q = s
    BY <1>1, <2>1, <2>2 DEF Comes, Arrives, Arriving, OwnAt
  <2>3. CASE q # s
    <3>1. q \in Running /\ Clear(q) /\ file' = file
      BY <1>1, <2>1, <2>3, ClearBefore DEF Comes, Arrives
    <3>2. OwnAt(q, req[q])
      BY <3>1 DEF OwnOK
    <3>3. /\ n.pc = req[q].pc /\ n.coll = req[q].coll /\ n.id = req[q].id
          /\ n.next = req[q].next /\ n.at = req[q].at /\ n.op = req[q].op
          /\ n.who = req[q].who /\ n.target = req[q].target /\ n.ask = req[q].ask
      BY <1>1, <2>1, <3>1 DEF Locals
    <3>4. Subject(n) = Subject(req[q])
      BY <3>3, SubjectSame
    <3> QED
      BY <3>1, <3>2, <3>3, <3>4 DEF OwnAt, Entries
  <2> QED
    BY <2>2, <2>3
<1>2. ASSUME Steps(s), NEW q \in Running', Clear(q)', NEW n, n = req'[q], q # s
      PROVE  OwnAt(q, n)'
  <2>1. PICK r : Goes(s, r)
    BY <1>2, StepGoes DEF GoesWell
  <2>2. n = req[q] /\ q \in Running
    <3>1. \A x \in Requests : x # s => req'[x] = req[x]
      BY <2>1, PlacesGoing DEF StoresInv
    <3> QED
      BY <1>2, <3>1 DEF Running
  <2>3. Clear(q) /\ OwnAt(q, n)
    BY <1>2, <2>2, ClearBefore DEF OwnOK
  <2>4. ASSUME n.pc = "read", n.coll \in Stamped, <<n.coll, n.id>> = Subject(n)
        PROVE  \A i \in Entries(n.coll, n.id)' : file'[n.coll][i].at <= n.at
    BY <1>2, <2>2, <2>3, <2>4, OthersLeave DEF OwnAt
  <2>5. ASSUME n.pc = "append", n.coll \in Stamped, <<n.coll, n.next.id>> = Subject(n)
        PROVE  \A i \in Entries(n.coll, n.next.id)' : file'[n.coll][i].at <= n.next.at
    BY <1>2, <2>2, <2>3, <2>5, OthersLeave DEF OwnAt
  <2>6. ASSUME n.pc = "audit", <<"members", n.next.id>> = Subject(n)
        PROVE  \E k \in Entries("members", n.next.id)' :
                  /\ file'["members"][k] = n.next
                  /\ \A i \in Entries("members", n.next.id)' :
                        i <= k /\ file'["members"][i].at <= n.next.at
    <3>1. "members" \in Stamped
      BY DEF Stamped, Tables
    <3> QED
      BY <1>2, <2>2, <2>3, <2>6, <3>1, OthersLeave DEF OwnAt
  <2> QED
    BY <2>4, <2>5, <2>6 DEF OwnAt, Subject
<1>3. ASSUME Steps(s), s \in Running', Clear(s)', NEW n, n = req'[s]
      PROVE  OwnAt(s, n)'
  <2>1. PICK r : r = req[s]
    OBVIOUS
  <2>2. /\ s \in Running /\ Subject(n) = Subject(r)
    <3>1. PICK k : Goes(s, k)
      BY <1>3, StepGoes DEF GoesWell
    <3>2. s \in Running /\ SameAsk(n, r)
      BY <1>3, <2>1, <3>1, PlacesGoing DEF StoresInv, Goes, SameRequest
    <3> QED
      BY <3>2, SubjectSame DEF SameAsk
  <2>3. Clear(s) /\ OwnAt(s, r)
    BY <1>3, <2>1, <2>2, ClearBefore DEF OwnOK
  <2>4. ASSUME n.pc = "read", n.coll \in Stamped, NEW i \in Entries(n.coll, n.id)'
        PROVE  file'[n.coll][i].at <= n.at
    <3>1. n.at = clock' /\ clock' \in Now /\ file' = file
      BY <1>3, <2>4, StageFrom
    <3>2. PICK t \in Now : t = clock'
      BY <3>1
    <3>3. i \in DOMAIN file[n.coll]
      BY <2>4, <3>1 DEF Entries
    <3>4. /\ file[n.coll][i].at \in Int /\ file[n.coll][i].at <= clock
          /\ clock <= t /\ clock \in Int /\ t \in Int
      BY <2>4, <3>1, <3>3, NowIs, StampsAre DEF StoresInv
    <3> QED
      BY <3>1, <3>2, <3>4
  <2>5. ASSUME n.pc = "append", n.coll \in Stamped, <<n.coll, n.next.id>> = Subject(n),
               NEW i \in Entries(n.coll, n.next.id)'
        PROVE  file'[n.coll][i].at <= n.next.at
    <3>1. ReadWorkspace(s) \/ ReadAgent(s) \/ RecordFeedback(s) \/ RecordEvent(s)
      BY <1>3, <2>5, StageFrom
    <3>2. CASE ReadWorkspace(s)
      <4>1. /\ r.pc = "read" /\ n.coll = r.coll /\ n.next.at = r.at /\ n.next.id = r.id
            /\ file' = file
        BY <1>3, <2>1, <3>2, ReadWorkspaceIs
      <4>2. i \in Entries(r.coll, r.id)
        BY <2>5, <4>1 DEF Entries
      <4> QED
        BY <2>2, <2>3, <2>5, <4>1, <4>2 DEF OwnAt
    <3>3. CASE ReadAgent(s)
      <4>1. n.next.at = clock' /\ clock' \in Now /\ file' = file
        BY <1>3, <2>5, <3>3, ReadAgentIs
      <4>2. PICK t \in Now : t = clock'
        BY <4>1
      <4>3. i \in DOMAIN file[n.coll]
        BY <2>5, <4>1 DEF Entries
      <4>4. /\ file[n.coll][i].at \in Int /\ file[n.coll][i].at <= clock
            /\ clock <= t /\ clock \in Int /\ t \in Int
        BY <2>5, <4>1, <4>3, NowIs, StampsAre DEF StoresInv
      <4> QED
        BY <4>1, <4>2, <4>4
    <3>4. CASE RecordFeedback(s) \/ RecordEvent(s)
      <4>1. n.coll \in {"feedback", "events"}
        BY <1>3, <2>5, <3>4, ActivationAppends
      <4> QED
        BY <2>5, <4>1 DEF Stamped, Tables
    <3> QED
      BY <3>1, <3>2, <3>3, <3>4
  <2>6. ASSUME n.pc = "audit", <<"members", n.next.id>> = Subject(n)
        PROVE  \E k \in Entries("members", n.next.id)' :
                  /\ file'["members"][k] = n.next
                  /\ \A i \in Entries("members", n.next.id)' :
                        i <= k /\ file'["members"][i].at <= n.next.at
    <3>1. /\ AppendRecord(s) /\ n.pc = (IF r.coll = "members" THEN "audit" ELSE "mirror")
          /\ n.next = r.next
      BY <1>3, <2>1, <2>6, PendingFrom
    <3>2. AppendRecord(s) /\ r.coll = "members" /\ r.pc = "append"
      BY <2>1, <2>6, <3>1 DEF AppendRecord
    <3>3. PICK c, m, id : c = r.coll /\ m = r.next /\ id = m.id
      OBVIOUS
    <3>4. Growing(c, m) /\ c = "members" /\ c \in Collections
      BY <1>3, <2>1, <2>6, <3>2, <3>3, AppendWrites DEF Deciding, Collections, Tables
    <3>5. PICK k : k = Len(file[c]) + 1
      OBVIOUS
    <3>6. /\ k \notin DOMAIN file[c] /\ DOMAIN file'[c] = DOMAIN file[c] \cup {k}
          /\ file'[c][k] = m /\ \A j \in DOMAIN file[c] : file'[c][j] = file[c][j]
          /\ Entries(c, id)' = Entries(c, id) \cup (IF m.id = id THEN {k} ELSE {})
      BY <3>4, <3>5, EntriesGrow DEF StoresInv
    <3>7. \A j \in Entries(c, id) : file[c][j].at <= m.at
      BY <2>2, <2>3, <2>6, <3>1, <3>2, <3>3 DEF OwnAt, Stamped, Tables
    <3>8. m.at \in Int
      BY <2>1, <3>2, <3>3, <3>4, AppendedTypes DEF MemberRecords
    <3>9. DOMAIN file[c] = 1..Len(file[c]) /\ Len(file[c]) \in Nat
      BY <3>4, LogFacts DEF StoresInv, FilesOK
    <3>10. Entries(c, id) \subseteq DOMAIN file[c]
      BY DEF Entries
    <3>11. k \in Entries(c, id)'
      BY <3>3, <3>6
    <3>12. ASSUME NEW i \in Entries(c, id)' PROVE i <= k /\ file'[c][i].at <= m.at
      <4>1. CASE i = k
        BY <3>5, <3>6, <3>8, <3>9, <4>1
      <4>2. CASE i \in Entries(c, id)
        BY <3>5, <3>6, <3>7, <3>9, <3>10, <4>2
      <4> QED
        BY <3>6, <3>12, <4>1, <4>2
    <3> QED
      BY <3>1, <3>3, <3>4, <3>6, <3>11, <3>12
  <2> QED
    BY <2>4, <2>5, <2>6 DEF OwnAt, Subject
<1>4. ASSUME NEW q \in Running', NEW n, n = req'[q] PROVE OwnAt(q, n)'
  <2>1. CASE Clear(q)'
    BY <1>1, <1>2, <1>3, <1>4, <2>1
  <2> QED
    BY <2>1 DEF OwnAt
<1> QED
  BY <1>4 DEF OwnOK, OwnAt, Subject
-----------------------------------------------------------------------------
(* What changes last.                                                      *)

(* What a request changes, and what a record of it has to say so that the  *)
(* change is not lost.                                                     *)
SubjectIn(r) ==
    IF r.op = "export" THEN "memo" ELSE IF r.op = "member" THEN "members" ELSE "agents"
SubjectId(r) == IF r.op = "member" THEN MemberId(r.target, r.ask.person) ELSE r.target

Says(r) ==
    \/ r.op = "export"
    \/ r.op = "member" /\ r.ask.status = "revoked"
    \/ r.op \in RegistryOps /\ r.ask = "suspended"

Keeps(q, op, m) ==
    IF op = "export" THEN q \in m.exports
    ELSE IF op = "member" THEN m.status = "revoked" ELSE m.status = "suspended"

Undoes(n, r) ==
    \/ /\ r.op = "member" /\ n.op = "member" /\ n.target = r.target
       /\ n.ask.person = r.ask.person /\ n.ask.status = "active"
    \/ /\ r.op \in RegistryOps /\ n.target = r.target
       /\ \/ n.op \in {"register", "update"} /\ n.ask \notin {Nothing, "suspended"}
          \/ n.op = "transition" /\ n.ask = "pending"

Undone(q) == \E p \in Later(q) : Undoes(req[p], req[q])

FileKeeps(q, op, c, id) ==
    \E i \in Entries(c, id) :
       /\ Keeps(q, op, file[c][i])
       /\ \A j \in Entries(c, id) :
             Keeps(q, op, file[c][j]) \/ (j < i /\ file[c][j].at <= file[c][i].at)

RowKeeps(q, op, c, id) == \E m \in rows[c] : m.id = id /\ Keeps(q, op, m)

Stands(q, op, c, id) ==
    IF mirrored /\ c \in Tables THEN RowKeeps(q, op, c, id) ELSE FileKeeps(q, op, c, id)

(* Whoever is about to write the record again has read it.                 *)
WritersKeep(q, op, c, id) ==
    \A p \in Running :
       req[p].pc \in {"append", "audit", "mirror"} /\ req[p].coll = c /\ req[p].next.id = id =>
          Keeps(q, op, req[p].next)

ChangeAt(q, r) ==
    Says(r) => /\ Stands(q, r.op, SubjectIn(r), SubjectId(r))
               /\ WritersKeep(q, r.op, SubjectIn(r), SubjectId(r))

(* Answered, and alone in writing what it changed.                         *)
Settled(q) ==
    req[q].pc = "answered" /\ q \notin refused /\ faults = 0 /\ Clear(q)

ChangesOK == \A q \in Requests : Settled(q) /\ ~Undone(q) => ChangeAt(q, req[q])

Subjects3 == {"memo", "members", "agents"}

(* The record that counts says what it has to.                             *)
LEMMA CurrentStands ==
    ASSUME StoresInv, NEW c \in Subjects3, NEW q, NEW op, NEW id, Stands(q, op, c, id)
    PROVE  Current(c, id) # Nothing /\ Keeps(q, op, Current(c, id))
<1>1. c \in Stamped /\ FilesOK /\ ClockOK /\ RowsOK
  BY DEF Subjects3, Stamped, Tables, StoresInv
<1>2. CASE mirrored /\ c \in Tables
  <2>1. Current(c, id) = Row(c, id)
    BY <1>2 DEF Current, Record
  <2>2. PICK m \in rows[c] : m.id = id /\ Keeps(q, op, m)
    BY <1>2 DEF Stands, RowKeeps
  <2>3. Row(c, id) = m
    BY <1>1, <1>2, <2>2, RowIs DEF RowsOK, Keyed
  <2>4. m # Nothing
    BY <1>1, <1>2, <2>2, NothingAssumption DEF RowsOK, Subjects3, Tables
  <2> QED
    BY <2>1, <2>2, <2>3, <2>4
<1>3. CASE ~(mirrored /\ c \in Tables)
  <2>1. Current(c, id) = LatestBy(c, id)
    BY <1>3 DEF Current, Record
  <2>2. PICK i \in Entries(c, id) :
          /\ Keeps(q, op, file[c][i])
          /\ \A j \in Entries(c, id) :
                Keeps(q, op, file[c][j]) \/ (j < i /\ file[c][j].at <= file[c][i].at)
    BY <1>3 DEF Stands, FileKeeps
  <2>3. i \in DOMAIN file[c] /\ file[c][i].id = id
    BY <2>2 DEF Entries
  <2>4. PICK k \in DOMAIN file[c] :
          /\ LatestBy(c, id) = file[c][k] /\ file[c][k].id = id
          /\ \A j \in DOMAIN file[c] : file[c][j].id = id =>
                file[c][j].at <= file[c][k].at /\ (file[c][j].at = file[c][k].at => j <= k)
    BY <1>1, <2>3, LatestByIs
  <2>5. k \in Entries(c, id)
    BY <2>4 DEF Entries
  <2>6. /\ file[c][i].at \in Int /\ file[c][k].at \in Int /\ i \in Int /\ k \in Int
    BY <1>1, <2>3, StampsAre, LogFacts
  <2>7. Keeps(q, op, file[c][k])
    <3>1. file[c][i].at <= file[c][k].at /\ (file[c][i].at = file[c][k].at => i <= k)
      BY <2>3, <2>4
    <3>2. ~(k < i /\ file[c][k].at <= file[c][i].at)
      BY <2>6, <3>1
    <3> QED
      BY <2>2, <2>5, <3>2
  <2>8. file[c][k] # Nothing
    BY <1>1, <2>4, NothingAssumption DEF FilesOK, Subjects3
  <2> QED
    BY <2>1, <2>4, <2>7, <2>8
<1> QED
  BY <1>2, <1>3

LEMMA StandsKept ==
    ASSUME StoresInv, NEW s \in Requests, (\E r : Comes(s, r)) \/ Steps(s),
           NEW c \in Subjects3, NEW q, NEW op, NEW id,
           Stands(q, op, c, id), WritersKeep(q, op, c, id)
    PROVE  Stands(q, op, c, id)'
<1>1. mirrored' = mirrored
  BY LastingIs DEF Lasting
<1>2. CASE file' = file /\ rows' = rows
  BY <1>1, <1>2 DEF Stands, RowKeeps, FileKeeps, Entries
<1>3. CASE Steps(s) /\ ~(file' = file /\ rows' = rows)
  <2>1. \/ req[s].pc = "append" /\ Puts(s, req[s].coll, req[s].next)
        \/ req[s].pc = "audit" /\ Puts(s, "audit", AuditOf(s))
        \/ /\ req[s].pc = "mirror" /\ file' = file
           /\ rows' = [rows EXCEPT ![req[s].coll] = Upsert(req[s].coll, req[s].next)]
    BY <1>3, StepEffect DEF Effect
  <2>2. CASE req[s].pc = "append" /\ Puts(s, req[s].coll, req[s].next)
    <3>1. PICK d, m : d = req[s].coll /\ m = req[s].next
      OBVIOUS
    <3>2. /\ d \in Collections /\ s \in Running /\ rows' = rows
          /\ file' = [file EXCEPT ![d] = Append(@, m)]
      BY <2>2, <3>1, AppendedTypes DEF Puts
    <3>3. Growing(d, m)
      BY <3>2 DEF Growing, StoresInv, FilesOK
    <3>4. CASE d # c
      <4>1. file'[c] = file[c]
        BY <3>2, <3>4 DEF StoresInv, FilesOK, Subjects3, Collections, Tables
      <4> QED
        BY <1>1, <3>2, <4>1 DEF Stands, RowKeeps, FileKeeps, Entries
    <3>5. CASE d = c
      <4>1. CASE mirrored /\ c \in Tables
        BY <1>1, <3>2, <4>1 DEF Stands, RowKeeps
      <4>2. CASE ~(mirrored /\ c \in Tables)
        <5>1. PICK i \in Entries(c, id) :
              /\ Keeps(q, op, file[c][i])
              /\ \A j \in Entries(c, id) :
                    Keeps(q, op, file[c][j]) \/ (j < i /\ file[c][j].at <= file[c][i].at)
          BY <4>2 DEF Stands, FileKeeps
        <5>2. PICK k : k = Len(file[c]) + 1
          OBVIOUS
        <5>3. /\ k \notin DOMAIN file[c] /\ DOMAIN file'[c] = DOMAIN file[c] \cup {k}
              /\ file'[c][k] = m /\ \A j \in DOMAIN file[c] : file'[c][j] = file[c][j]
              /\ Entries(c, id)' = Entries(c, id) \cup (IF m.id = id THEN {k} ELSE {})
          BY <3>2, <3>3, <3>5, <5>2, EntriesGrow DEF StoresInv
        <5>4. Entries(c, id) \subseteq DOMAIN file[c]
          BY DEF Entries
        <5>5. m.id = id => Keeps(q, op, m)
          BY <2>2, <3>1, <3>2, <3>5 DEF WritersKeep
        <5>6. i \in Entries(c, id)' /\ Keeps(q, op, file'[c][i])
          BY <5>1, <5>3, <5>4
        <5>7. ASSUME NEW j \in Entries(c, id)'
              PROVE  Keeps(q, op, file'[c][j]) \/ (j < i /\ file'[c][j].at <= file'[c][i].at)
          <6>1. CASE j \in Entries(c, id)
            BY <5>1, <5>3, <5>4, <6>1
          <6>2. CASE j = k /\ m.id = id
            BY <5>3, <5>5, <6>2
          <6> QED
            BY <5>3, <5>7, <6>1, <6>2
        <5>8. FileKeeps(q, op, c, id)'
          BY <5>6, <5>7 DEF FileKeeps, Keeps
        <5> QED
          BY <1>1, <4>2, <5>8 DEF Stands
      <4> QED
        BY <4>1, <4>2
    <3> QED
      BY <3>4, <3>5
  <2>3. CASE req[s].pc = "audit" /\ Puts(s, "audit", AuditOf(s))
    <3>1. file'[c] = file[c] /\ rows' = rows
      BY <2>3 DEF Puts, StoresInv, FilesOK, Subjects3, Collections, Tables
    <3> QED
      BY <1>1, <3>1 DEF Stands, RowKeeps, FileKeeps, Entries
  <2>4. CASE /\ req[s].pc = "mirror" /\ file' = file
             /\ rows' = [rows EXCEPT ![req[s].coll] = Upsert(req[s].coll, req[s].next)]
    <3>1. PICK d, m : d = req[s].coll /\ m = req[s].next
      OBVIOUS
    <3>2. s \in Running /\ d \in Tables
      BY <2>4, <3>1, MirroredTypes
    <3>3. CASE ~(mirrored /\ c \in Tables)
      BY <1>1, <2>4, <3>3 DEF Stands, FileKeeps, Entries
    <3>4. CASE mirrored /\ c \in Tables /\ c # d
      <4>1. rows'[c] = rows[c]
        BY <2>4, <3>1, <3>2, <3>4 DEF StoresInv, RowsOK
      <4> QED
        BY <1>1, <3>4, <4>1 DEF Stands, RowKeeps
    <3>5. CASE mirrored /\ c \in Tables /\ c = d
      <4>1. PICK rest : rest = rows'
        OBVIOUS
      <4>2. /\ m \in rest[c] /\ \A n \in rows[c] : n.id # m.id => n \in rest[c]
        BY <2>4, <3>1, <3>2, <3>5, <4>1, Upserting DEF StoresInv
      <4>3. PICK n \in rows[c] : n.id = id /\ Keeps(q, op, n)
        BY <3>5 DEF Stands, RowKeeps
      <4>4. m.id = id => Keeps(q, op, m)
        BY <2>4, <3>1, <3>2, <3>5 DEF WritersKeep
      <4>5. RowKeeps(q, op, c, id)'
        BY <4>1, <4>2, <4>3, <4>4 DEF RowKeeps, Keeps
      <4> QED
        BY <1>1, <3>5, <4>5 DEF Stands
    <3> QED
      BY <3>3, <3>4, <3>5
  <2> QED
    BY <2>1, <2>2, <2>3, <2>4
<1>4. CASE \E r : Comes(s, r)
  BY <1>2, <1>4 DEF Comes, Arrives
<1> QED
  BY <1>2, <1>3, <1>4

(* What is made of a record that says it says it still, unless the request *)
(* that makes it asks for something else.                                  *)
LEMMA MadeKeeps ==
    ASSUME StoresInv, NEW s \in Requests, ReadWorkspace(s), faults' = faults,
           NEW c \in Subjects3, NEW q, NEW r, Says(r), c = SubjectIn(r),
           NEW id, id = SubjectId(r),
           Stands(q, r.op, c, id), req[s].coll = c, req[s].id = id,
           NEW n, n = req'[s], ~Undoes(req[s], r)
    PROVE  Keeps(q, r.op, n.next)
<1>1. PICK fromFile \in BOOLEAN :
         /\ ReadRecords(req[s].coll, fromFile)
         /\ n.was = Record(req[s].coll, req[s].id, fromFile)
         /\ n.next = NextRecord(s, req[s], n.was)
  BY ReadWorkspaceIs
<1>2. /\ WorkspaceShape(s, req[s]) /\ WriteOf(req[s]) /\ c \in Tables
  BY ReadWorkspaceIs
<1>3. n.was = Current(c, id)
  <2>1. faults \in Nat /\ faults' # faults + 1
    BY DEF StoresInv, ClockOK
  <2>2. fromFile = ~(mirrored /\ c \in Tables)
    BY <1>1, <2>1 DEF ReadRecords
  <2> QED
    BY <1>1, <2>2 DEF Current
<1>4. n.was # Nothing /\ Keeps(q, r.op, n.was)
  BY <1>3, CurrentStands
<1>5. CASE r.op = "export"
  <2>1. c = "memo" /\ n.next = NextMemo(s, req[s], n.was) /\ q \in n.was.exports
    BY <1>1, <1>4, <1>5 DEF SubjectIn, NextRecord, Keeps
  <2> QED
    BY <1>4, <1>5, <2>1 DEF NextMemo, Keeps
<1>6. CASE r.op = "member"
  <2>1. c = "members" /\ n.next = NextMember(s, req[s], n.was) /\ n.was.status = "revoked"
    BY <1>1, <1>4, <1>6 DEF SubjectIn, NextRecord, Keeps
  <2>2. n.next.status = IF req[s].patch.status # Nothing THEN req[s].patch.status ELSE "revoked"
    BY <1>4, <2>1 DEF NextMember
  <2>3. CASE req[s].patch.status = Nothing \/ req[s].patch.status = "revoked"
    BY <1>6, <2>2, <2>3 DEF Keeps
  <2>4. CASE req[s].patch.status # Nothing /\ req[s].patch.status # "revoked"
    <3>1. /\ req[s].op = "member" /\ req[s].patch = req[s].ask /\ req[s].ask \in Patches
          /\ req[s].id = MemberId(req[s].target, req[s].ask.person)
      BY <1>2, <2>1, <2>4 DEF WriteOf, Patch, WorkspaceShape
    <3>2. req[s].ask.status = "active"
      BY <2>4, <3>1, PatchesAssumption DEF MemberStatuses
    <3>3. req[s].target = r.target /\ req[s].ask.person = r.ask.person
      <4>1. MemberId(req[s].target, req[s].ask.person) = MemberId(r.target, r.ask.person)
        BY <1>6, <3>1 DEF SubjectId
      <4> QED
        BY <4>1 DEF MemberId
    <3> QED
      BY <1>6, <3>1, <3>2, <3>3 DEF Undoes
  <2> QED
    BY <2>3, <2>4
<1>7. CASE r.op # "export" /\ r.op # "member"
  BY <1>2, <1>7 DEF SubjectIn, Tables
<1> QED
  BY <1>5, <1>6, <1>7

LEMMA MadeAgentKeeps ==
    ASSUME StoresInv, NEW s \in Requests, ReadAgent(s),
           NEW q, NEW r, Says(r), r.op \in RegistryOps, Stands(q, r.op, "agents", r.target),
           NEW n, n = req'[s], n.pc = "append", n.next.id = r.target, ~Undoes(req[s], r)
    PROVE  Keeps(q, r.op, n.next)
<1>1. Current("agents", r.target) = LatestBy("agents", r.target)
  BY DEF Current, Record, Tables
<1>2. LatestBy("agents", r.target) # Nothing /\ LatestBy("agents", r.target).status = "suspended"
  <2>1. "agents" \in Subjects3 /\ r.op # "export" /\ r.op # "member"
    BY DEF Subjects3, RegistryOps
  <2> QED
    BY <1>1, <2>1, CurrentStands DEF Keeps
<1>3. /\ RegistryShape(s, req[s]) /\ req[s].target = r.target
      /\ \/ /\ req[s].op # "transition"
            /\ req[s].ask # Nothing => n.next.status = req[s].ask
            /\ req[s].ask = Nothing => n.next.status = "suspended"
         \/ /\ req[s].op = "transition" /\ n.next.status = req[s].ask
            /\ IsAllowedTransition("suspended", req[s].ask)
  BY <1>2, ReadAgentIs
<1>4. n.next.status = "suspended"
  BY <1>3 DEF Undoes, RegistryShape, RegistryOps, IsAllowedTransition
<1> QED
  BY <1>4 DEF Keeps, RegistryOps

LEMMA LaterIs ==
    ASSUME StoresInv, NEW q \in Over, NEW s \in Running
    PROVE  s \in Later(q) \/ s \in req[q].met
<1>1. q \in req[s].after \/ s \in req[q].met
  BY DEF StoresInv, RequestsOK
<1> QED
  BY <1>1 DEF Later, Running

LEMMA SaysOf ==
    ASSUME NEW r, Says(r)
    PROVE  Subject(r) = <<SubjectIn(r), SubjectId(r)>> /\ SubjectIn(r) \in Stamped
BY DEF Says, Subject, SubjectIn, SubjectId, RegistryOps, Stamped, Tables

LEMMA UndoneKept ==
    ASSUME StoresInv, NEW s \in Requests, (\E r : Comes(s, r)) \/ Steps(s),
           NEW q \in Over, Undone(q)
    PROVE  Undone(q)'
<1>1. PICK p \in Later(q) : Undoes(req[p], req[q])
  BY DEF Undone
<1>2. p \in Requests /\ p \in Running \cup Over /\ q \in req[p].after
  BY <1>1 DEF Later, Running, Over
<1>3. /\ p \in Running' \cup Over' /\ req'[p].op = req[p].op /\ req'[p].target = req[p].target
      /\ req'[p].ask = req[p].ask /\ req'[p].after = req[p].after
      /\ req'[q] = req[q]
  BY <1>2, AskKept
<1>4. p \in Later(q)'
  BY <1>2, <1>3 DEF Later, Running, Over, Ended
<1>5. Undoes(req'[p], req'[q])
  BY <1>1, <1>3 DEF Undoes
<1> QED
  BY <1>4, <1>5 DEF Undone, Undoes

LEMMA WritersKeepKept ==
    ASSUME StoresInv, NEW s \in Requests, (\E r : Comes(s, r)) \/ Steps(s), faults' = faults,
           NEW q \in Over, NEW r, r = req[q], Clear(q), Says(r), ~Undone(q)',
           NEW c, NEW id, c = SubjectIn(r), id = SubjectId(r),
           Stands(q, r.op, c, id), WritersKeep(q, r.op, c, id)
    PROVE  WritersKeep(q, r.op, c, id)'
<1>1. c \in Subjects3
  BY DEF SubjectIn, Subjects3
<1>2. req'[q] = r
  BY AskKept
<1>3. CASE \E k : Comes(s, k)
  <2>1. PICK k : Arrives(s, k)
    BY <1>3 DEF Comes
  <2>2. /\ Running' = Running \cup {s} /\ req'[s] = k
        /\ \A x \in Running : \A f \in Locals \ {"met"} : req'[x][f] = req[x][f]
    BY <2>1, PlacesArriving DEF StoresInv
  <2>3. k.pc \notin {"append", "audit", "mirror"}
    BY <2>1 DEF Arrives, Arriving
  <2>4. \A x \in Running : req'[x].pc = req[x].pc /\ req'[x].coll = req[x].coll
                           /\ req'[x].next = req[x].next
    BY <2>2 DEF Locals
  <2> QED
    BY <2>2, <2>3, <2>4 DEF WritersKeep, Keeps
<1>4. CASE Steps(s)
  <2>1. PICK k : Goes(s, k)
    BY <1>4, StepGoes DEF GoesWell
  <2>2. /\ req'[s] = k /\ \A x \in Requests : x # s => req'[x] = req[x]
        /\ Handling(k) => Running' = Running
        /\ Closed(k) => Running' = Running \ {s}
        /\ Handling(k) \/ Closed(k)
        /\ SameAsk(k, req[s])
    BY <2>1, PlacesGoing DEF StoresInv, Goes
  <2>3. s \in Running
    BY <2>1 DEF Goes
  <2>4. ~Undoes(req[s], r) \/ <<c, id>> \notin MayWrite(req[s])
    <3>1. CASE s \in Later(q)
      <4>1. Undoes(req[s], r) => Undone(q)
        BY <3>1 DEF Undone
      <4> QED
        BY <4>1, UndoneKept
    <3>2. CASE s \in req[q].met
      BY <2>3, <3>2, SaysOf DEF Clear
    <3> QED
      BY <2>3, <3>1, <3>2, LaterIs
  <2>5. ASSUME k.pc \in {"append", "audit", "mirror"}, k.coll = c, k.next.id = id
        PROVE  Keeps(q, r.op, k.next)
    <3>1. CASE k.pc \in {"audit", "mirror"}
      <4>1. /\ k.coll = req[s].coll /\ k.next = req[s].next
            /\ req[s].pc \in {"append", "audit"}
        BY <1>4, <2>2, <3>1, PendingFrom DEF AppendRecord, AppendAudit
      <4> QED
        BY <2>3, <2>5, <4>1 DEF WritersKeep
    <3>2. CASE k.pc = "append"
      <4>1. ReadWorkspace(s) \/ ReadAgent(s) \/ RecordFeedback(s) \/ RecordEvent(s)
        BY <1>4, <2>2, <3>2, StageFrom
      <4>2. CASE ReadWorkspace(s)
        <5>1. req[s].coll = c /\ req[s].id = id /\ req[s].pc = "read"
          BY <2>2, <2>5, <4>2, ReadWorkspaceIs
        <5>2. <<c, id>> \in MayWrite(req[s])
          BY <2>3, <5>1, SaysOf, WritesSubject
        <5> QED
          BY <1>1, <2>2, <2>4, <4>2, <5>1, <5>2, MadeKeeps
      <4>3. CASE ReadAgent(s)
        <5>1. c = "agents"
          BY <2>2, <2>5, <3>2, <4>3, ReadAgentIs
        <5>2. r.op \in RegistryOps /\ id = r.target
          BY <5>1 DEF SubjectIn, SubjectId, Says
        <5>3. RegistryShape(s, req[s]) /\ req[s].target = k.next.id
          BY <2>2, <2>5, <3>2, <4>3, ReadAgentIs
        <5>4. <<c, id>> \in MayWrite(req[s])
          BY <2>5, <5>1, <5>3 DEF RegistryShape, MayWrite, Subject, RegistryOps
        <5> QED
          BY <2>2, <2>4, <2>5, <3>2, <4>3, <5>1, <5>2, <5>4, MadeAgentKeeps
      <4>4. CASE RecordFeedback(s) \/ RecordEvent(s)
        <5>1. k.coll \in {"feedback", "events"}
          BY <2>2, <3>2, <4>4, ActivationAppends
        <5> QED
          BY <1>1, <2>5, <5>1 DEF Subjects3
      <4> QED
        BY <4>1, <4>2, <4>3, <4>4
    <3> QED
      BY <2>5, <3>1, <3>2
  <2>6. ASSUME NEW x \in Running', req'[x].pc \in {"append", "audit", "mirror"},
               req'[x].coll = c, req'[x].next.id = id
        PROVE  Keeps(q, r.op, req'[x].next)
    <3>1. CASE x = s
      BY <2>2, <2>5, <2>6, <3>1
    <3>2. CASE x # s
      <4>1. x \in Running /\ req'[x] = req[x]
        BY <2>2, <2>6, <3>2 DEF Running
      <4> QED
        BY <2>6, <4>1 DEF WritersKeep
    <3> QED
      BY <3>1, <3>2
  <2> QED
    BY <2>6 DEF WritersKeep, Keeps
<1> QED
  BY <1>3, <1>4

(* What a request that writes for good has in hand is what it asked for.   *)
LEMMA AskedIs ==
    ASSUME StoresInv, NEW q \in Running, NEW r, r = req[q], r.pc \in {"append", "audit", "mirror"},
           r.then = "answered", Says(r)
    PROVE  /\ r.coll = SubjectIn(r) /\ r.next.id = SubjectId(r) /\ Keeps(q, r.op, r.next)
           /\ r.coll \in Subjects3
<1>1. Shape(q, r)
  BY DEF StoresInv
<1>2. CASE WorkspaceShape(q, r)
  <2>1. WriteOf(r) /\ NextOf(q, r)
    BY <1>2 DEF WorkspaceShape, WriteStages
  <2>2. CASE r.op = "export"
    BY <2>1, <2>2 DEF WriteOf, NextOf, SubjectIn, SubjectId, Keeps, Subjects3
  <2>3. CASE r.op = "member"
    <3>1. r.ask.status = "revoked" /\ "revoked" # Nothing
      BY <2>3, NothingAssumption DEF Says, RegistryOps, MemberStatuses
    <3> QED
      BY <2>1, <2>3, <3>1 DEF WriteOf, NextOf, SubjectIn, SubjectId, Keeps, Subjects3
  <2> QED
    BY <1>2, <2>2, <2>3 DEF Says, WorkspaceShape, WorkspaceOps, RegistryOps
<1>3. CASE RegistryShape(q, r)
  <2>1. r.ask = "suspended" /\ "suspended" # Nothing /\ r.pc = "append"
    BY <1>3, NothingAssumption DEF Says, RegistryShape, RegistryOps, RegistryStatuses
  <2> QED
    BY <1>3, <2>1 DEF RegistryShape, RegistryOps, SubjectIn, SubjectId, Keeps, Subjects3
<1>4. CASE ActivationShape(q, r)
  BY <1>4 DEF Says, ActivationShape, RegistryOps
<1> QED
  BY <1>1, <1>2, <1>3, <1>4 DEF Shape

(* When a request that alone wrote what it changes is answered, and no     *)
(* foreign key refused it its row, its change is there.                    *)
LEMMA AnsweredStands ==
    ASSUME StoresInv, OwnOK, NEW q \in Requests, Steps(q), faults' = faults, q \notin refused',
           NEW n, n = req'[q], n.pc = "answered", Clear(q), NEW r, r = req[q], Says(r)
    PROVE  Stands(q, r.op, SubjectIn(r), SubjectId(r))'
<1>1. AppendRecord(q) \/ AppendAudit(q) \/ MirrorRecord(q)
  BY StageFrom
<1>2. q \in Running /\ Handling(r) /\ Shape(q, r) /\ q \in DOMAIN req
      /\ r.pc \in {"append", "audit", "mirror"}
  BY <1>1, RequestIs DEF AppendRecord, AppendAudit, MirrorRecord, Stages, StoresInv, RequestsOK
<1>3. faults' # faults + 1
  BY DEF StoresInv, ClockOK
<1>4. \A pc : To(r, pc).pc = pc
  BY <1>2 DEF To, Handling, Locals
<1>5. PICK c, m, id : c = r.coll /\ m = r.next /\ id = m.id
  OBVIOUS
<1>6. OwnAt(q, r) /\ mirrored' = mirrored /\ Subject(r) = <<SubjectIn(r), SubjectId(r)>>
  BY <1>2, LastingIs, SaysOf DEF OwnOK, Lasting
<1>7. ASSUME r.then = "answered"
      PROVE  c = SubjectIn(r) /\ id = SubjectId(r) /\ Keeps(q, r.op, m) /\ c \in Subjects3
  BY <1>2, <1>5, <1>7, AskedIs
<1>8. CASE MirrorRecord(q)
  <2>1. r.then = "answered" /\ file' = file
    BY <1>2, <1>4, <1>8 DEF MirrorRecord
  <2>2. rows' = [rows EXCEPT ![c] = Upsert(c, m)] /\ mirrored /\ c \in Tables
    <3>1. WorkspaceShape(q, r)
      BY <1>8, MirroredTypes DEF MirrorRecord
    <3> QED
      BY <1>3, <1>5, <1>8, <3>1 DEF MirrorRecord, WorkspaceShape
  <2>3. PICK rest : rest = rows'
    OBVIOUS
  <2>4. m \in rest[c]
    BY <2>2, <2>3, Upserting DEF StoresInv
  <2>5. RowKeeps(q, r.op, c, id)'
    BY <1>5, <1>7, <2>1, <2>3, <2>4 DEF RowKeeps, Keeps
  <2>6. Stands(q, r.op, c, id)'
    BY <1>6, <2>2, <2>5 DEF Stands
  <2> QED
    BY <1>7, <2>1, <2>6
<1>9. CASE AppendAudit(q)
  <2>1. ~mirrored /\ r.then = "answered" /\ Puts(q, "audit", AuditOf(q))
    BY <1>2, <1>3, <1>4, <1>9, AppendingIs DEF AppendAudit, Appends, Throws, Puts, AuditOf
  <2>2. c = "members" /\ r.pc = "audit"
    BY <1>2, <1>5, <1>9, MirroredTypes DEF AppendAudit
  <2>3. file'["members"] = file["members"]
    BY <2>1 DEF Puts, StoresInv, FilesOK, Collections, Tables
  <2>4. <<"members", m.id>> = Subject(r)
    BY <1>5, <1>6, <1>7, <2>1, <2>2
  <2>5. PICK i \in Entries("members", m.id) :
           /\ file["members"][i] = m
           /\ \A j \in Entries("members", m.id) : j <= i /\ file["members"][j].at <= m.at
    BY <1>5, <1>6, <2>2, <2>4 DEF OwnAt
  <2>6. DOMAIN file["members"] \subseteq Int
    BY LogFacts DEF StoresInv, FilesOK, Collections, Tables
  <2>7. Entries(c, id)' = Entries("members", m.id) /\ Entries(c, id)' \subseteq Int
    BY <1>5, <2>2, <2>3, <2>6 DEF Entries
  <2>8. \A j \in Entries(c, id)' : j = i \/ (j < i /\ file'[c][j].at <= file'[c][i].at)
    BY <2>2, <2>3, <2>5, <2>7
  <2>9. Keeps(q, r.op, file'[c][i])
    BY <1>7, <2>1, <2>2, <2>3, <2>5
  <2>10. FileKeeps(q, r.op, c, id)'
    BY <2>7, <2>8, <2>9 DEF FileKeeps, Keeps
  <2>11. Stands(q, r.op, c, id)'
    BY <1>6, <2>1, <2>10 DEF Stands
  <2> QED
    BY <1>7, <2>1, <2>11
<1>10. CASE AppendRecord(q)
  <2>1. PICK pc : /\ pc = IF c = "members" THEN "audit"
                          ELSE IF mirrored /\ c \in Tables THEN "mirror" ELSE r.then
                  /\ Appends(q, c, m, pc)
    BY <1>2, <1>3, <1>4, <1>5, <1>10, AppendingIs DEF AppendRecord, Throws
  <2>2. pc = "answered"
    BY <1>2, <1>4, <2>1 DEF Appends
  <2>3. /\ r.pc = "append" /\ r.then = "answered" /\ c # "members" /\ ~(mirrored /\ c \in Tables)
    BY <1>10, <2>1, <2>2 DEF AppendRecord
  <2>4. /\ c = SubjectIn(r) /\ id = SubjectId(r) /\ Keeps(q, r.op, m)
        /\ c \in {"memo", "agents"} /\ c \in Collections /\ c \in Stamped
    BY <1>7, <2>3 DEF Subjects3, Collections, Tables, Stamped
  <2>5. Growing(c, m)
    BY <2>1, <2>4 DEF Growing, Appends, StoresInv, FilesOK
  <2>6. PICK k : k = Len(file[c]) + 1
    OBVIOUS
  <2>71. /\ k \notin DOMAIN file[c] /\ DOMAIN file'[c] = DOMAIN file[c] \cup {k}
         /\ file'[c][k] = m /\ \A j \in DOMAIN file[c] : file'[c][j] = file[c][j]
         /\ Entries(c, id)' = Entries(c, id) \cup (IF m.id = id THEN {k} ELSE {})
    BY <2>4, <2>5, <2>6, EntriesGrow DEF StoresInv
  <2>7. /\ k \notin DOMAIN file[c] /\ DOMAIN file'[c] = DOMAIN file[c] \cup {k}
        /\ file'[c][k] = m /\ \A j \in DOMAIN file[c] : file'[c][j] = file[c][j]
        /\ Entries(c, id)' = Entries(c, id) \cup {k}
    BY <1>5, <2>71
  <2>8. \A j \in Entries(c, id) : file[c][j].at <= m.at /\ j < k
    <3>1. DOMAIN file[c] = 1..Len(file[c]) /\ Len(file[c]) \in Nat
      BY <2>4, LogFacts DEF StoresInv, FilesOK
    <3>2. \A j \in Entries(c, id) : j \in 1..Len(file[c])
      BY <3>1 DEF Entries
    <3>3. \A j \in Entries(c, id) : file[c][j].at <= m.at
      BY <1>5, <1>6, <2>3, <2>4 DEF OwnAt
    <3> QED
      BY <2>6, <3>1, <3>2, <3>3
  <2>9. Entries(c, id) \subseteq DOMAIN file[c]
    BY DEF Entries
  <2>10. ASSUME NEW j \in Entries(c, id)'
         PROVE  Keeps(q, r.op, file'[c][j]) \/ (j < k /\ file'[c][j].at <= file'[c][k].at)
    BY <2>4, <2>7, <2>8, <2>9, <2>10
  <2>11. FileKeeps(q, r.op, c, id)'
    BY <2>4, <2>7, <2>10 DEF FileKeeps, Keeps
  <2>12. Stands(q, r.op, c, id)'
    BY <1>6, <2>3, <2>11 DEF Stands
  <2> QED
    BY <2>4, <2>12
<1> QED
  BY <1>1, <1>8, <1>9, <1>10

LEMMA ChangesKept ==
    ASSUME StoresInv, OwnOK, ChangesOK, NEW s \in Requests, (\E r : Comes(s, r)) \/ Steps(s)
    PROVE  ChangesOK'
<1>1. ASSUME NEW q \in Requests, NEW n, n = req'[q], Settled(q)', ~Undone(q)', Says(n)
      PROVE  Stands(q, n.op, SubjectIn(n), SubjectId(n))'
             /\ WritersKeep(q, n.op, SubjectIn(n), SubjectId(n))'
  <2>1. faults = 0 /\ faults' = faults
    BY <1>1, LastingIs DEF Lasting, Settled
  <2>4. n.pc = "answered" /\ q \notin refused' /\ q \notin refused
    BY <1>1, StepEffect DEF Settled, Comes, Arrives
  <2>5. q \in Running \cup Over => Clear(q)
    BY <1>1, ClearBefore DEF Settled
  <2>2. CASE q \in Over
    <3>1. n = req[q]
      BY <1>1, <2>2, AskKept
    <3>2. Settled(q) /\ ~Undone(q)
      BY <1>1, <2>1, <2>2, <2>4, <2>5, <3>1, UndoneKept DEF Settled
    <3>3. PICK c, id : c = SubjectIn(n) /\ id = SubjectId(n)
      OBVIOUS
    <3>4. Stands(q, n.op, c, id) /\ WritersKeep(q, n.op, c, id) /\ c \in Subjects3
      BY <1>1, <3>1, <3>2, <3>3 DEF ChangesOK, ChangeAt, SubjectIn, Subjects3
    <3>5. Stands(q, n.op, c, id)'
      BY <3>4, StandsKept
    <3>6. WritersKeep(q, n.op, c, id)'
      BY <1>1, <2>1, <2>2, <2>5, <3>1, <3>3, <3>4, WritersKeepKept
    <3> QED
      BY <3>3, <3>5, <3>6
  <2>3. CASE q \notin Over
    <3>1. Steps(s)
      <4>1. ASSUME NEW r, Comes(s, r) PROVE FALSE
        <5>1. q \in Over'
          BY <1>1, <2>4 DEF Over, Ended
        <5>2. Over' = Over
          BY <4>1, PlacesArriving DEF Comes, StoresInv
        <5> QED
          BY <2>3, <5>1, <5>2
      <4> QED
        BY <4>1
    <3>2. PICK r : Goes(s, r)
      BY <3>1, StepGoes DEF GoesWell
    <3>3. /\ req'[s] = r /\ \A x \in Requests : x # s => req'[x] = req[x]
          /\ Handling(r) => Over' = Over
          /\ Closed(r) => Running' = Running \ {s} /\ Over' = Over \cup {s}
          /\ Handling(r) \/ Closed(r)
          /\ SameAsk(r, req[s]) /\ s \in Running
      BY <3>2, PlacesGoing DEF StoresInv, Goes
    <3>4. q \in Over'
      BY <1>1, <2>4 DEF Over, Ended
    <3>5. q = s /\ Closed(r) /\ n = r
      BY <1>1, <2>3, <3>3, <3>4
    <3>6. /\ n.op = req[q].op /\ n.target = req[q].target /\ n.ask = req[q].ask
          /\ q \in Running /\ Clear(q)
      BY <1>1, <2>5, <3>3, <3>5 DEF SameAsk
    <3>7. /\ Says(req[q]) /\ SubjectIn(req[q]) = SubjectIn(n) /\ SubjectId(req[q]) = SubjectId(n)
      BY <1>1, <3>6 DEF Says, SubjectIn, SubjectId
    <3>8. PICK k : k = req[q]
      OBVIOUS
    <3>9. Stands(q, k.op, SubjectIn(k), SubjectId(k))'
      BY <1>1, <2>1, <2>4, <3>1, <3>5, <3>6, <3>7, <3>8, AnsweredStands
    <3>10. ASSUME NEW x \in Running', req'[x].pc \in {"append", "audit", "mirror"},
                  req'[x].coll = SubjectIn(n), req'[x].next.id = SubjectId(n)
           PROVE  FALSE
      <4>1. x \in Running /\ x # q /\ req'[x] = req[x]
        BY <3>3, <3>5, <3>10 DEF Running
      <4>2. x \in req[q].met
        BY <3>6, <4>1 DEF StoresInv, RequestsOK
      <4>3. <<SubjectIn(n), SubjectId(n)>> = Subject(req[q]) /\ SubjectIn(n) \in Stamped
        BY <3>7, SaysOf
      <4>4. <<SubjectIn(n), SubjectId(n)>> \in MayWrite(req[x])
        BY <3>10, <4>1, <4>3, WritesSubject DEF WriteStages
      <4> QED
        BY <3>6, <4>1, <4>2, <4>3, <4>4 DEF Clear
    <3> QED
      BY <3>6, <3>7, <3>8, <3>9, <3>10 DEF WritersKeep
  <2> QED
    BY <2>2, <2>3
<1>2. ASSUME NEW q \in Requests, Settled(q)', ~Undone(q)' PROVE ChangeAt(q, req[q])'
  <2>1. PICK n : n = req'[q]
    OBVIOUS
  <2>3. ChangeAt(q, n)'
    BY <1>1, <1>2, <2>1 DEF ChangeAt
  <2> QED
    BY <2>1, <2>3 DEF ChangeAt, Says, Stands, WritersKeep, SubjectIn, SubjectId, RowKeeps,
                      FileKeeps, Keeps, Entries
<1> QED
  BY <1>2 DEF ChangesOK

ChangeInv == StoresInv /\ AloneOK /\ OwnOK /\ ChangesOK

LEMMA ChangeInvInit ==
    ASSUME StoresInit
    PROVE  ChangeInv
<1>1. req = [q \in Requests |-> Idle]
  BY DEF StoresInit
<1>2. Running = {} /\ \A q \in Requests : ~Settled(q)
  BY <1>1 DEF Running, Idle, Settled
<1> QED
  BY <1>2, StoresInvInit DEF ChangeInv, AloneOK, OwnOK, ChangesOK

LEMMA ChangeUnchanged ==
    ASSUME ChangeInv, Idling
    PROVE  ChangeInv'
<1>1. /\ UNCHANGED <<file, rows, mirrored, clock, faults, refused, req>>
      /\ Running' = Running /\ Over' = Over
  BY DEF Idling, Running, Over
<1>2. StoresInv'
  BY NothingChanges DEF ChangeInv
<1>3. AloneOK'
  BY <1>1 DEF ChangeInv, AloneOK, AloneAt
<1>5. OwnOK'
  BY <1>1 DEF ChangeInv, OwnOK, OwnAt, Clear, Entries
<1>4. ASSUME NEW q \in Requests, Settled(q)', ~Undone(q)' PROVE ChangeAt(q, req[q])'
  <2>1. Settled(q) /\ ~Undone(q)
    BY <1>1, <1>4 DEF Settled, Clear, Undone, Later
  <2>2. ChangeAt(q, req[q])
    BY <2>1 DEF ChangeInv, ChangesOK
  <2> QED
    BY <1>1, <2>2 DEF ChangeAt, Stands, WritersKeep, RowKeeps, FileKeeps, Entries
<1> QED
  BY <1>2, <1>3, <1>4, <1>5 DEF ChangeInv, ChangesOK

LEMMA ChangeInvKept ==
    ASSUME ChangeInv, [StoresNext]_storeVars
    PROVE  ChangeInv'
<1>1. StoresInv /\ AloneOK /\ OwnOK /\ ChangesOK
  BY DEF ChangeInv
<1>2. CASE ~Idling
  <2>1. PICK q \in Requests : (\E r : Comes(q, r)) \/ Steps(q)
    BY <1>1, <1>2, NextIs
  <2>2. StoresInv' /\ AloneOK' /\ OwnOK' /\ ChangesOK'
    BY <1>1, <2>1, StoresInvKept, AloneKept, OwnKept, ChangesKept
  <2> QED
    BY <2>2 DEF ChangeInv
<1>3. CASE Idling
  BY <1>3, ChangeUnchanged
<1> QED
  BY <1>2, <1>3

LEMMA ChangesStand ==
    ASSUME ChangeInv
    PROVE  ChangesLast
<1>1. ASSUME NEW q \in Requests, Kept(q), Says(req[q]), ~Undone(q)
      PROVE  /\ Current(SubjectIn(req[q]), SubjectId(req[q])) # Nothing
             /\ Keeps(q, req[q].op, Current(SubjectIn(req[q]), SubjectId(req[q])))
  <2>1. Stands(q, req[q].op, SubjectIn(req[q]), SubjectId(req[q]))
    <3>1. Settled(q)
      BY <1>1 DEF Kept, Settled, Clear
    <3> QED
      BY <1>1, <3>1 DEF ChangeInv, ChangesOK, ChangeAt
  <2>2. SubjectIn(req[q]) \in Subjects3 /\ StoresInv
    BY DEF SubjectIn, Subjects3, ChangeInv
  <2> QED
    BY <2>1, <2>2, CurrentStands
<1>2. ASSUME NEW q \in Requests, Kept(q), req[q].op = "export"
      PROVE  q \in Current("memo", req[q].target).exports
  <2>1. Says(req[q]) /\ ~Undone(q)
    BY <1>2 DEF Says, Undone, Undoes, RegistryOps
  <2> QED
    BY <1>1, <1>2, <2>1 DEF Keeps, SubjectIn, SubjectId
<1>3. ASSUME NEW q \in Requests, Kept(q), req[q].op = "member", req[q].ask.status = "revoked"
      PROVE  \/ Current("members", MemberId(req[q].target, req[q].ask.person)).status = "revoked"
             \/ \E p \in Later(q) :
                  /\ req[p].op = "member" /\ req[p].target = req[q].target
                  /\ req[p].ask.person = req[q].ask.person /\ req[p].ask.status = "active"
  <2>1. Says(req[q])
    BY <1>3 DEF Says
  <2>2. CASE Undone(q)
    BY <1>3, <2>2 DEF Undone, Undoes, RegistryOps
  <2>3. CASE ~Undone(q)
    BY <1>1, <1>3, <2>1, <2>3 DEF Keeps, SubjectIn, SubjectId
  <2> QED
    BY <2>2, <2>3
<1>4. ASSUME NEW q \in Requests, Kept(q), req[q].op \in RegistryOps,
             req[q].ask = "suspended"
      PROVE  \/ ~Discovered(req[q].target, {})
             \/ \E p \in Later(q) :
                  /\ req[p].target = req[q].target
                  /\ \/ req[p].op \in {"register", "update"}
                        /\ req[p].ask \notin {Nothing, "suspended"}
                     \/ req[p].op = "transition" /\ req[p].ask = "pending"
  <2>1. Says(req[q])
    BY <1>4 DEF Says, RegistryOps
  <2>2. CASE Undone(q)
    BY <1>4, <2>2 DEF Undone, Undoes, RegistryOps
  <2>3. CASE ~Undone(q)
    <3>1. Current("agents", req[q].target).status = "suspended"
      BY <1>1, <1>4, <2>1, <2>3 DEF Keeps, SubjectIn, SubjectId, RegistryOps
    <3>2. Current("agents", req[q].target) = LatestBy("agents", req[q].target)
      BY DEF Current, Record, Tables
    <3> QED
      BY <3>1, <3>2 DEF Discovered
  <2> QED
    BY <2>2, <2>3
<1> QED
  BY <1>2, <1>3, <1>4 DEF ChangesLast

(* What a request was answered for stays on record, in the file and in the *)
(* table, whatever overlaps it without writing the same record, until a    *)
(* later request on the same one says otherwise; a row that a foreign key  *)
(* refused is excepted.                                                    *)
THEOREM AnsweredChangesLast == StoresSpec => []ChangesLast
<1>1. StoresInit => ChangeInv
  BY ChangeInvInit
<1>2. ChangeInv /\ [StoresNext]_storeVars => ChangeInv'
  BY ChangeInvKept
<1>3. ChangeInv => ChangesLast
  BY ChangesStand
<1> QED
  BY <1>1, <1>2, <1>3, PTL DEF StoresSpec
-----------------------------------------------------------------------------
(* What the logs tell.                                                     *)

(* Every log keeps what it holds, and only one of them grows, at its end.  *)
LEMMA OnlyAppended ==
    ASSUME StoresInv, NEW s \in Requests, Steps(s), NEW c \in Collections
    PROVE  \/ file'[c] = file[c]
           \/ /\ AppendRecord(s) /\ req[s].coll = c /\ Growing(c, req[s].next)
              /\ Puts(s, c, req[s].next)
           \/ AppendAudit(s) /\ c = "audit" /\ Growing(c, AuditOf(s)) /\ Puts(s, c, AuditOf(s))
<1>1. Effect(s)
  BY StepEffect
<1>2. CASE req[s].pc = "append" /\ Puts(s, req[s].coll, req[s].next)
  <2>1. PICK d, m : d = req[s].coll /\ m = req[s].next
    OBVIOUS
  <2>2. d \in Collections /\ file' = [file EXCEPT ![d] = Append(@, m)]
    BY <1>2, <2>1, AppendedTypes DEF Puts
  <2>3. AppendRecord(s)
    BY <1>2 DEF Steps, WorkspaceStep, DirectMember, SessionOrganization, GetOrganization, Ensure,
                FirstOwnerIn, GrantCreator, AssignSession, ReadWorkspace, AppendAudit, ReadAgent,
                RecordFeedback, RecordEvent, MirrorRecord
  <2>4. CASE c = d
    <3>1. Growing(c, m)
      BY <2>2, <2>4 DEF Growing, StoresInv, FilesOK
    <3>2. Puts(s, c, m)
      BY <1>2, <2>1, <2>4
    <3> QED
      BY <2>1, <2>3, <2>4, <3>1, <3>2
  <2>5. CASE c # d
    BY <2>2, <2>5 DEF StoresInv, FilesOK
  <2> QED
    BY <2>4, <2>5
<1>3. CASE req[s].pc = "audit" /\ Puts(s, "audit", AuditOf(s))
  <2>1. AppendAudit(s)
    BY <1>3 DEF Steps, WorkspaceStep, DirectMember, SessionOrganization, GetOrganization, Ensure,
                FirstOwnerIn, GrantCreator, AssignSession, ReadWorkspace, AppendRecord, ReadAgent,
                RecordFeedback, RecordEvent, MirrorRecord
  <2>2. PICK m : m = AuditOf(s)
    OBVIOUS
  <2>3. CASE c = "audit"
    <3>1. Growing(c, m)
      BY <1>3, <2>2, <2>3 DEF Puts, Growing, StoresInv, FilesOK
    <3> QED
      BY <1>3, <2>1, <2>2, <2>3, <3>1
  <2>4. CASE c # "audit"
    BY <1>3, <2>4 DEF Puts, StoresInv, FilesOK, Collections
  <2> QED
    BY <2>3, <2>4
<1> QED
  BY <1>1, <1>2, <1>3 DEF Effect

LEMMA StillThere ==
    ASSUME StoresInv, NEW s \in Requests, (\E r : Comes(s, r)) \/ Steps(s), NEW c \in Collections
    PROVE  \A i \in DOMAIN file[c] : i \in DOMAIN file'[c] /\ file'[c][i] = file[c][i]
<1>1. CASE \E m : Growing(c, m)
  BY <1>1, LogGrows DEF StoresInv
<1>2. CASE file'[c] = file[c]
  BY <1>2
<1> QED
  BY <1>1, <1>2, OnlyAppended DEF Comes, Arrives

(* A moment later.                                                         *)
LEMMA ClockGoes ==
    ASSUME StoresInv, NEW s \in Requests, (\E r : Comes(s, r)) \/ Steps(s)
    PROVE  clock \in Int /\ clock' \in Int /\ clock <= clock'
<1>1. clock' \in Now \cup {clock}
  BY StepEffect DEF Comes, Arrives
<1>2. PICK t : t = clock'
  OBVIOUS
<1> QED
  BY <1>1, <1>2, NowIs DEF StoresInv, ClockOK

(* Feedback that its request has yet to report, or has reported.           *)
Reporting(f, r) ==
    /\ r.op = "feedback" /\ r.target = f.about /\ f.at \in Int /\ f.at <= clock
    /\ \/ r.pc = "event"
       \/ r.pc = "append" /\ r.coll = "events" /\ f.at <= r.next.at

Reported(f) ==
    \E j \in DOMAIN file["events"] :
       LET e == file["events"][j] IN
       e.id = f.id /\ e.about = f.about /\ e.type = "feedback_submitted" /\ e.at >= f.at

FeedbackAt(f) ==
    /\ f.rating \in 1..5
    /\ f.id \in Requests =>
          /\ f.id \in Running \cup Over
          /\ f.id \in Running => Reporting(f, req[f.id])
          /\ f.id \in Over /\ faults = 0 => Reported(f)

FeedbackOK == \A i \in DOMAIN file["feedback"] : FeedbackAt(file["feedback"][i])

(* Feedback put on file is reported next.                                  *)
LEMMA FeedbackFiled ==
    ASSUME StoresInv, NEW s \in Requests, AppendRecord(s), req[s].coll = "feedback",
           NEW f, f = req[s].next, Puts(s, "feedback", f)
    PROVE  FeedbackAt(f)'
<1>1. /\ req[s].pc = "append" /\ Handling(req[s]) /\ s \in Running
      /\ ActivationShape(s, req[s]) /\ s \in DOMAIN req
  BY AppendedTypes DEF AppendRecord, StoresInv, RequestsOK
<1>2. /\ f.id = s /\ f.rating \in 1..5 /\ f.about = req[s].target /\ f.at \in Int /\ f.at <= clock
      /\ req[s].op = "feedback" /\ req[s].then = "event"
  BY <1>1 DEF ActivationShape
<1>3. faults' # faults + 1 /\ clock' = clock
  BY DEF Puts, StoresInv, ClockOK, AppendRecord
<1>4. Appends(s, "feedback", f, "event")
  BY <1>2, <1>3, AppendingIs DEF AppendRecord, Throws, Tables
<1>5. PICK n : n = To(req[s], "event")
  OBVIOUS
<1>6. req'[s] = n /\ Handling(n) /\ n.pc = "event" /\ n.op = "feedback" /\ n.target = f.about
  BY <1>1, <1>2, <1>4, <1>5, MovedIs DEF Appends, Stages, SameRequest, SameAsk
<1>7. s \in Running' /\ s \notin Over'
  BY <1>6 DEF Running, Over, Ended
<1>8. Reporting(f, n)'
  BY <1>2, <1>3, <1>6 DEF Reporting
<1> QED
  BY <1>2, <1>6, <1>7, <1>8 DEF FeedbackAt, Reporting

(* The report is made of it ...                                            *)
LEMMA FeedbackMade ==
    ASSUME StoresInv, NEW s \in Requests, RecordEvent(s), NEW f, f.id = s, f.rating \in 1..5,
           Reporting(f, req[s])
    PROVE  FeedbackAt(f)'
<1>1. Handling(req[s]) /\ s \in DOMAIN req /\ req[s].op = "feedback"
  BY RequestIs DEF StoresInv, RequestsOK, RecordEvent, Stages, Reporting
<1>2. EventType(req[s]) = "feedback_submitted"
  BY <1>1 DEF EventType
<1>3. PICK t \in Now : t = clock' /\ Go(s, Appended(req[s], "events",
                              Event(s, "feedback_submitted", req[s].target, t), "answered"))
  BY <1>2 DEF RecordEvent, activationEventTypes
<1>4. PICK e : e = Event(s, "feedback_submitted", req[s].target, t)
  OBVIOUS
<1>5. e.at = t
  BY <1>4 DEF Event
<1>6. PICK n : n = Appended(req[s], "events", e, "answered")
  OBVIOUS
<1>7. req'[s] = n
  BY <1>1, <1>3, <1>4, <1>6 DEF Go
<1>8. /\ Handling(n) /\ n.pc = "append" /\ n.coll = "events" /\ n.next = e
      /\ n.op = "feedback" /\ n.target = req[s].target
  BY <1>1, <1>6, AppendedIs DEF SameRequest, SameAsk
<1>9. s \in Running' /\ s \notin Over'
  BY <1>7, <1>8 DEF Running, Over, Ended
<1>10. f.at \in Int /\ f.at <= clock /\ f.about = req[s].target
       /\ t \in Int /\ clock \in Int /\ clock <= t
  BY <1>3, NowIs DEF Reporting
<1>11. Reporting(f, n)'
  BY <1>3, <1>5, <1>8, <1>10 DEF Reporting
<1> QED
  BY <1>7, <1>9, <1>11 DEF FeedbackAt, Reporting

(* ... and put on file, unless that fails.                                 *)
LEMMA FeedbackTold ==
    ASSUME StoresInv, NEW s \in Requests, AppendRecord(s), NEW f, f.id = s, f.rating \in 1..5,
           Reporting(f, req[s])
    PROVE  FeedbackAt(f)'
<1>1. /\ req[s].pc = "append" /\ req[s].coll = "events" /\ req[s].op = "feedback"
      /\ f.at <= req[s].next.at /\ f.at \in Int /\ f.about = req[s].target
  BY DEF Reporting, AppendRecord
<1>2. Handling(req[s]) /\ s \in Running /\ ActivationShape(s, req[s]) /\ s \in DOMAIN req
  BY <1>1, AppendedTypes DEF StoresInv, RequestsOK
<1>3. PICK e : e = req[s].next
  OBVIOUS
<1>4. /\ e.id = s /\ e.about = req[s].target /\ e.at \in Int /\ req[s].then = "answered"
      /\ e.type = "feedback_submitted"
  BY <1>1, <1>2, <1>3 DEF ActivationShape, EventType
<1>5. CASE Throws(s)
  <2>1. faults' # 0
    BY <1>5 DEF Throws, StoresInv, ClockOK
  <2>2. req'[s].pc = "refused"
    BY <1>2, <1>5 DEF Throws, To, Ended
  <2>3. s \in Over' /\ s \notin Running'
    BY <2>2 DEF Over, Running, Ended
  <2> QED
    BY <2>1, <2>3 DEF FeedbackAt
<1>6. CASE ~Throws(s)
  <2>1. Appends(s, "events", e, "answered")
    BY <1>1, <1>3, <1>4, <1>6, AppendingIs DEF AppendRecord, Tables
  <2>2. Growing("events", e)
    BY <2>1 DEF Appends, Growing, StoresInv, FilesOK, Collections
  <2>3. PICK k : k = Len(file["events"]) + 1
    OBVIOUS
  <2>4. k \in DOMAIN file'["events"] /\ file'["events"][k] = e
    BY <2>2, <2>3, LogGrows DEF StoresInv, Collections
  <2>5. e.at >= f.at
    BY <1>1, <1>3, <1>4
  <2>6. Reported(f)'
    BY <1>1, <1>4, <2>4, <2>5 DEF Reported
  <2>7. req'[s].pc = "answered"
    BY <1>2, <2>1 DEF Appends, To
  <2>8. s \in Over' /\ s \notin Running'
    BY <2>7 DEF Over, Running, Ended
  <2> QED
    BY <2>6, <2>8 DEF FeedbackAt
<1> QED
  BY <1>5, <1>6

LEMMA FeedbackKept ==
    ASSUME StoresInv, FeedbackOK, NEW s \in Requests, (\E r : Comes(s, r)) \/ Steps(s)
    PROVE  FeedbackOK'
<1>1. ASSUME NEW i \in DOMAIN file["feedback"], NEW f, f = file["feedback"][i]
      PROVE  FeedbackAt(f)'
  <2>1. FeedbackAt(f)
    BY <1>1 DEF FeedbackOK
  <2>2. CASE f.id \in Requests
    <3>1. PICK p \in Requests : p = f.id
      BY <2>2
    <3>2. f.rating \in 1..5 /\ p \in Running \cup Over
      BY <2>1, <3>1 DEF FeedbackAt
    <3>3. /\ p \in Running' \cup Over' /\ (p \in Over => req'[p] = req[p] /\ p # s)
          /\ faults \in Nat /\ faults' \in Nat /\ faults <= faults'
      BY <3>2, AskKept, LastingIs DEF Lasting
    <3>4. CASE p \in Over
      <4>1. faults' = 0 => Reported(f)
        BY <2>1, <3>1, <3>3, <3>4 DEF FeedbackAt
      <4>2. Reported(f) => Reported(f)'
        BY StillThere DEF Reported, Collections
      <4>3. p \in Over' /\ p \notin Running'
        BY <3>3, <3>4 DEF Over, Running
      <4> QED
        BY <3>1, <3>2, <4>1, <4>2, <4>3 DEF FeedbackAt
    <3>5. CASE p \in Running /\ p # s
      <4>1. PICK r, n : r = req[p] /\ n = req'[p]
        OBVIOUS
      <4>2. /\ n.pc = r.pc /\ n.op = r.op /\ n.target = r.target /\ n.coll = r.coll
            /\ n.next = r.next
        <5>1. CASE \E k : Comes(s, k)
          BY <3>5, <4>1, <5>1, PlacesArriving DEF Comes, StoresInv, Locals
        <5>2. CASE Steps(s)
          <6>1. PICK k : Goes(s, k)
            BY <5>2, StepGoes DEF GoesWell
          <6> QED
            BY <3>5, <4>1, <6>1, PlacesGoing DEF StoresInv
        <5> QED
          BY <5>1, <5>2
      <4>3. Reporting(f, r) /\ p \notin Over
        BY <2>1, <3>1, <3>5, <4>1 DEF FeedbackAt, Running, Over
      <4>4. clock \in Int /\ clock' \in Int /\ clock <= clock'
        BY ClockGoes
      <4>5. Reporting(f, n)'
        BY <4>2, <4>3, <4>4 DEF Reporting
      <4>6. p \in Running' /\ p \notin Over'
        BY <3>5, <4>1, <4>2 DEF Running, Over
      <4> QED
        BY <3>1, <3>2, <4>1, <4>5, <4>6 DEF FeedbackAt, Reporting
    <3>6. CASE p \in Running /\ p = s
      <4>1. Reporting(f, req[s]) /\ req[s].pc \in {"event", "append"}
        BY <2>1, <3>1, <3>6 DEF FeedbackAt, Reporting
      <4>2. Steps(s)
        BY <4>1 DEF Comes, Arrives
      <4>3. RecordEvent(s) \/ AppendRecord(s)
        BY <4>1, <4>2
           DEF Steps, WorkspaceStep, DirectMember, SessionOrganization, GetOrganization, Ensure,
                FirstOwnerIn, GrantCreator, AssignSession, ReadWorkspace, AppendAudit, ReadAgent,
                RecordFeedback, MirrorRecord, Reporting
      <4> QED
        BY <3>1, <3>2, <3>6, <4>1, <4>3, FeedbackMade, FeedbackTold
    <3> QED
      BY <3>2, <3>4, <3>5, <3>6
  <2> QED
    BY <2>1, <2>2 DEF FeedbackAt
<1>2. ASSUME NEW i \in DOMAIN file'["feedback"], i \notin DOMAIN file["feedback"]
      PROVE  FeedbackAt(file["feedback"][i])'
  <2>1. Steps(s) /\ file'["feedback"] # file["feedback"]
    BY <1>2 DEF Comes, Arrives
  <2>2. PICK f : f = req[s].next
    OBVIOUS
  <2>3. /\ AppendRecord(s) /\ req[s].coll = "feedback" /\ Growing("feedback", f)
        /\ Puts(s, "feedback", f)
    BY <2>1, <2>2, OnlyAppended DEF Collections
  <2>4. file'["feedback"][i] = f
    BY <1>2, <2>3, LogGrows DEF StoresInv, Collections
  <2>5. FeedbackAt(f)'
    BY <2>2, <2>3, FeedbackFiled
  <2> QED
    BY <2>4, <2>5 DEF FeedbackAt, Reporting, Reported
<1>3. ASSUME NEW i \in DOMAIN file'["feedback"] PROVE FeedbackAt(file["feedback"][i])'
  <2>1. CASE i \in DOMAIN file["feedback"]
    <3>1. PICK f : f = file["feedback"][i]
      OBVIOUS
    <3>2. file'["feedback"][i] = f
      BY <2>1, <3>1, StillThere DEF Collections
    <3>3. FeedbackAt(f)'
      BY <1>1, <2>1, <3>1
    <3> QED
      BY <3>2, <3>3 DEF FeedbackAt, Reporting, Reported
  <2> QED
    BY <1>2, <2>1
<1> QED
  BY <1>3 DEF FeedbackOK
-----------------------------------------------------------------------------
(* The audit of the members, as long as requests do not overlap.           *)

(* m is what the first n records of a log say of id last.                  *)
LastOf(log, n, id, m) ==
    \/ m = Nothing /\ \A j \in 1..n : log[j].id # id
    \/ \E i \in 1..n : /\ log[i].id = id /\ m = log[i]
                       /\ \A j \in 1..n : log[j].id = id => j <= i

Sorted(log) == \A i \in DOMAIN log : \A j \in 1..i : log[j].at <= log[i].at

(* In a log in the order of its stamps the newest record is the last.      *)
LEMMA LatestIsLast ==
    ASSUME NEW log, Log(log), Sorted(log), \A i \in DOMAIN log : log[i].at \in Int,
           NEW id, NEW k \in DOMAIN log, log[k].id = id,
           \A j \in DOMAIN log : log[j].id = id =>
              log[j].at <= log[k].at /\ (log[j].at = log[k].at => j <= k)
    PROVE  LastOf(log, Len(log), id, log[k])
<1>1. DOMAIN log = 1..Len(log) /\ Len(log) \in Nat
  BY LogFacts
<1>2. ASSUME NEW j \in 1..Len(log), log[j].id = id PROVE j <= k
  <2>1. CASE k <= j
    <3>1. log[k].at <= log[j].at
      BY <1>1, <2>1 DEF Sorted
    <3>2. log[j].at = log[k].at
      BY <1>1, <1>2, <3>1
    <3> QED
      BY <1>1, <1>2, <3>2
  <2> QED
    BY <1>1, <2>1
<1> QED
  BY <1>1, <1>2 DEF LastOf

LEMMA LastGrows ==
    ASSUME NEW log, Log(log), NEW m, NEW id, NEW x, NEW longer, longer = Append(log, m)
    PROVE  /\ LastOf(log, Len(log), id, x) => LastOf(longer, Len(longer) - 1, id, x)
           /\ LastOf(log, Len(log), id, x) /\ m.id # id => LastOf(longer, Len(longer), id, x)
           /\ LastOf(longer, Len(longer), m.id, m)
           /\ Len(longer) \in DOMAIN longer /\ longer[Len(longer)] = m
<1>1. /\ Len(log) \in Nat /\ Len(longer) = Len(log) + 1 /\ longer[Len(log) + 1] = m
      /\ \A i \in 1..Len(log) : longer[i] = log[i]
      /\ DOMAIN longer = 1..(Len(log) + 1)
  BY Appending
<1>2. PICK n : n = Len(log)
  OBVIOUS
<1>3. n \in Nat /\ Len(longer) = n + 1 /\ Len(longer) - 1 = n /\ longer[n + 1] = m
      /\ \A i \in 1..n : longer[i] = log[i]
  BY <1>1, <1>2
<1>4. ASSUME LastOf(log, n, id, x) PROVE LastOf(longer, n, id, x)
  BY <1>3, <1>4 DEF LastOf
<1>5. ASSUME LastOf(log, n, id, x), m.id # id PROVE LastOf(longer, n + 1, id, x)
  <2>1. \A j \in 1..(n + 1) : longer[j].id = id => j \in 1..n /\ log[j].id = id
    BY <1>3, <1>5
  <2>2. CASE x = Nothing /\ \A j \in 1..n : log[j].id # id
    BY <2>1, <2>2 DEF LastOf
  <2>3. CASE \E i \in 1..n : /\ log[i].id = id /\ x = log[i]
                             /\ \A j \in 1..n : log[j].id = id => j <= i
    <3>1. PICK i \in 1..n : /\ log[i].id = id /\ x = log[i]
                            /\ \A j \in 1..n : log[j].id = id => j <= i
      BY <2>3
    <3>2. i \in 1..(n + 1) /\ longer[i].id = id /\ x = longer[i]
      BY <1>3, <3>1
    <3> QED
      BY <2>1, <3>1, <3>2 DEF LastOf
  <2> QED
    BY <1>5, <2>2, <2>3 DEF LastOf
<1>6. LastOf(longer, n + 1, m.id, m)
  <2>1. n + 1 \in 1..(n + 1) /\ \A j \in 1..(n + 1) : j <= n + 1
    BY <1>3
  <2> QED
    BY <1>3, <2>1 DEF LastOf
<1> QED
  BY <1>1, <1>2, <1>3, <1>4, <1>5, <1>6

(* The audit is about the members, entry by entry.                         *)
Aligned(ms, au) ==
    \A i \in DOMAIN au : au[i].id = ms[i].id /\ au[i].to = Standing(ms[i])

LEMMA ChainGrows ==
    ASSUME NEW ms, Log(ms), NEW au, Log(au), Len(ms) = Len(au) + 1, Aligned(ms, au), Chained(au),
           NEW e, NEW was, LastOf(ms, Len(ms) - 1, e.id, was), e.from = Standing(was),
           e.id = ms[Len(ms)].id, e.to = Standing(ms[Len(ms)])
    PROVE  Aligned(ms, Append(au, e)) /\ Chained(Append(au, e))
<1>1. PICK n, longer : n = Len(au) /\ longer = Append(au, e)
  OBVIOUS
<1>2. /\ n \in Nat /\ DOMAIN longer = 1..(n + 1) /\ DOMAIN au = 1..n /\ longer[n + 1] = e
      /\ \A i \in 1..n : longer[i] = au[i]
  BY <1>1, Appending
<1>3. Len(ms) = n + 1 /\ Len(ms) - 1 = n
  BY <1>1, <1>2
<1>4. Aligned(ms, longer)
  BY <1>2, <1>3 DEF Aligned
<1>5. ASSUME NEW i \in 1..n
      PROVE  LET before == {j \in 1..(i - 1) : longer[j].id = longer[i].id}
             IN  longer[i].from = IF before = {} THEN Nothing
                                  ELSE longer[CHOOSE j \in before : \A k \in before : k <= j].to
  <2>1. PICK before : before = {j \in 1..(i - 1) : au[j].id = au[i].id}
    OBVIOUS
  <2>2. \A j \in 1..(i - 1) : j \in 1..n
    BY <1>2
  <2>3. before = {j \in 1..(i - 1) : longer[j].id = longer[i].id}
    BY <1>2, <2>1, <2>2
  <2>4. au[i].from = IF before = {} THEN Nothing
                     ELSE au[CHOOSE j \in before : \A k \in before : k <= j].to
    BY <1>2, <2>1 DEF Chained
  <2>5. PICK last : last = CHOOSE j \in before : \A k \in before : k <= j
    OBVIOUS
  <2>6. ASSUME before # {} PROVE longer[i].from = longer[last].to
    <3>1. last \in before
      <4>1. PICK a \in before : TRUE
        BY <2>6
      <4>2. before \in SUBSET (1..i) /\ i \in Nat
        BY <1>2, <2>1
      <4> DEFINE T == {i - j : j \in before}
      <4>3. T \in SUBSET Nat /\ T # {}
        BY <4>1, <4>2
      <4>4. PICK x \in T : \A y \in T : x <= y
        BY <4>3, LeastIn
      <4>5. PICK j \in before : x = i - j
        BY <4>4
      <4>6. \A k \in before : k <= j
        <5> TAKE k \in before
        <5>1. i - j <= i - k
          BY <4>4, <4>5
        <5> QED
          BY <4>2, <5>1
      <4> QED
        BY <2>5, <4>6
    <3>2. last \in 1..n
      BY <2>1, <2>2, <3>1
    <3> QED
      BY <1>2, <2>4, <2>5, <2>6, <3>2
  <2> QED
    BY <1>2, <2>3, <2>4, <2>5, <2>6
<1>6. LET before == {j \in 1..n : longer[j].id = longer[n + 1].id}
      IN  longer[n + 1].from = IF before = {} THEN Nothing
                               ELSE longer[CHOOSE j \in before : \A k \in before : k <= j].to
  <2>1. PICK before : before = {j \in 1..n : longer[j].id = longer[n + 1].id}
    OBVIOUS
  <2>2. before = {j \in 1..n : ms[j].id = e.id}
    BY <1>2, <2>1 DEF Aligned
  <2>3. CASE was = Nothing /\ \A j \in 1..n : ms[j].id # e.id
    BY <1>2, <2>1, <2>2, <2>3 DEF Standing
  <2>4. CASE \E i \in 1..n : /\ ms[i].id = e.id /\ was = ms[i]
                             /\ \A j \in 1..n : ms[j].id = e.id => j <= i
    <3>1. PICK i \in 1..n : /\ ms[i].id = e.id /\ was = ms[i]
                            /\ \A j \in 1..n : ms[j].id = e.id => j <= i
      BY <2>4
    <3>2. i \in before /\ \A k \in before : k <= i
      BY <2>2, <3>1
    <3>3. PICK last : last = CHOOSE j \in before : \A k \in before : k <= j
      OBVIOUS
    <3>4. last \in before /\ \A k \in before : k <= last
      BY <3>2, <3>3
    <3>5. last = i
      BY <1>2, <2>2, <3>2, <3>4
    <3>6. longer[i].to = Standing(ms[i])
      BY <1>2 DEF Aligned
    <3> QED
      BY <1>2, <2>1, <3>1, <3>2, <3>3, <3>5, <3>6
  <2> QED
    BY <1>3, <2>3, <2>4 DEF LastOf
<1>7. ASSUME NEW i \in DOMAIN longer
      PROVE  LET before == {j \in 1..(i - 1) : longer[j].id = longer[i].id}
             IN  longer[i].from = IF before = {} THEN Nothing
                                  ELSE longer[CHOOSE j \in before : \A k \in before : k <= j].to
  <2>1. CASE i \in 1..n
    BY <1>5, <2>1
  <2>2. CASE i \notin 1..n
    <3>1. PICK k : k = i - 1
      OBVIOUS
    <3>2. i = n + 1 /\ k = n
      BY <1>2, <1>7, <2>2, <3>1
    <3>3. LET before == {j \in 1..k : longer[j].id = longer[i].id}
          IN  longer[i].from = IF before = {} THEN Nothing
                               ELSE longer[CHOOSE j \in before : \A l \in before : l <= j].to
      BY <1>6, <3>2
    <3> QED
      BY <3>1, <3>3
  <2> QED
    BY <2>1, <2>2
<1>8. Chained(longer)
  BY <1>7 DEF Chained
<1> QED
  BY <1>1, <1>4, <1>8

(* No request overlaps another, and no call fails.                         *)
Orderly == faults = 0 /\ \A q \in Requests : req[q].pc # "idle" => req[q].met = {}

Auditing == \E q \in Running : req[q].pc = "audit"
Holding(r) == r.pc \in {"audit", "mirror"} /\ r.coll = "members"

LogsAgree ==
    /\ Sorted(file["members"]) /\ Aligned(file["members"], file["audit"])
    /\ Chained(file["audit"])
    /\ Len(file["members"]) = Len(file["audit"]) + (IF Auditing THEN 1 ELSE 0)

(* A request knows the member as it was before its write, which is the     *)
(* last one until the table has it too.                                    *)
StoryAt(r) ==
    /\ r.pc = "append" /\ r.coll = "members" =>
          LastOf(file["members"], Len(file["members"]), r.id, r.was)
    /\ r.pc = "audit" => LastOf(file["members"], Len(file["members"]) - 1, r.id, r.was)
    /\ Holding(r) => /\ Len(file["members"]) \in DOMAIN file["members"]
                     /\ file["members"][Len(file["members"])] = r.next

TableTells ==
    mirrored =>
       \A id : \/ LastOf(file["members"], Len(file["members"]), id, Row("members", id))
               \/ \E q \in Running : Holding(req[q]) /\ req[q].next.id = id

StoryOK == Orderly => LogsAgree /\ TableTells /\ \A q \in Running : StoryAt(req[q])

LEMMA OrderlyBefore ==
    ASSUME StoresInv, NEW s \in Requests, (\E r : Comes(s, r)) \/ Steps(s), Orderly'
    PROVE  Orderly /\ faults' = faults /\ faults = 0 /\ mirrored' = mirrored
<1>1. faults' = faults /\ faults = 0 /\ mirrored' = mirrored
  BY LastingIs DEF Lasting, Orderly
<1>2. ASSUME NEW q \in Requests, req[q].pc # "idle" PROVE req[q].met = {}
  <2>1. q \in Running \cup Over
    BY <1>2 DEF Running, Over
  <2>2. req[q].met \subseteq req'[q].met /\ q \in Running' \cup Over'
    BY <2>1, AskKept
  <2> QED
    BY <2>2 DEF Orderly, Running, Over, Ended
<1> QED
  BY <1>1, <1>2 DEF Orderly

LEMMA OrderlyStep ==
    ASSUME StoresInv, NEW s \in Requests, Steps(s), Orderly'
    PROVE  /\ Orderly /\ faults' = faults /\ faults = 0 /\ mirrored' = mirrored
           /\ s \in Running /\ Running = {s} /\ Running' \subseteq {s} /\ ~Throws(s)
           /\ s \in DOMAIN req /\ Handling(req[s]) /\ req[s].met = {}
           /\ Handling(req'[s]) => Running' = {s}
<1>1. Orderly /\ faults' = faults /\ faults = 0 /\ mirrored' = mirrored
  BY OrderlyBefore
<1>2. PICK r : Goes(s, r)
  BY StepGoes DEF GoesWell
<1>3. s \in Running /\ s \in DOMAIN req /\ Handling(req[s])
  BY <1>2 DEF Goes, StoresInv, RequestsOK
<1>4. req[s].met = {}
  BY <1>1, <1>3 DEF Orderly, Running
<1>5. Running = {s}
  BY <1>3, <1>4, OnlyOne
<1>6. /\ req'[s] = r
      /\ Handling(r) => Running' = Running
      /\ Closed(r) => Running' = Running \ {s}
      /\ Handling(r) \/ Closed(r)
  BY <1>2, PlacesGoing DEF StoresInv
<1>7. ~Throws(s)
  BY <1>1 DEF Throws
<1> QED
  BY <1>1, <1>3, <1>4, <1>5, <1>6, <1>7

LEMMA MovesTo ==
    ASSUME NEW r, Handling(r), NEW pc
    PROVE  To(r, pc).pc = pc
BY DEF To, Handling, Locals

LEMMA KeepsLocals ==
    ASSUME NEW r, Handling(r), NEW pc \in Stages, NEW n, n = To(r, pc)
    PROVE  /\ Handling(n) /\ n.pc = pc /\ n.coll = r.coll /\ n.id = r.id /\ n.was = r.was
           /\ n.next = r.next
BY DEF To, Handling, Locals, Stages, Ended

(* A member is put on file.                                                *)
LEMMA StoryAppended ==
    ASSUME StoresInv, AloneOK, NEW s \in Requests, AppendRecord(s), Orderly',
           req[s].coll = "members", StoryOK
    PROVE  LogsAgree' /\ TableTells' /\ \A q \in Running' : StoryAt(req[q])'
<1> DEFINE ms == file["members"]
           au == file["audit"]
<1>1. Steps(s)
  BY DEF Steps
<1>2. /\ Orderly /\ faults' = faults /\ faults = 0 /\ mirrored' = mirrored
      /\ s \in Running /\ Running = {s} /\ ~Throws(s)
      /\ s \in DOMAIN req /\ Handling(req[s]) /\ req[s].met = {}
      /\ Handling(req'[s]) => Running' = {s}
  BY <1>1, OrderlyStep
<1>3. LogsAgree /\ TableTells /\ StoryAt(req[s])
  BY <1>2 DEF StoryOK
<1>4. PICK r, m : r = req[s] /\ m = r.next
  OBVIOUS
<1>5. r.pc = "append" /\ WorkspaceShape(s, r) /\ m \in MemberRecords /\ r.coll = "members"
  BY <1>4, AppendedTypes DEF AppendRecord
<1>6. m.id = r.id /\ m.at \in Int
  BY <1>4, <1>5 DEF WorkspaceShape, WriteStages, NextOf, MemberRecords
<1>7. Appends(s, "members", m, "audit") /\ rows' = rows
  BY <1>2, <1>4, <1>5, AppendingIs DEF AppendRecord
<1>8. PICK n : n = To(r, "audit")
  OBVIOUS
<1>9. /\ req'[s] = n /\ n.pc = "audit" /\ n.coll = "members" /\ n.id = r.id /\ n.was = r.was
      /\ n.next = m /\ Handling(n)
  BY <1>2, <1>4, <1>5, <1>7, <1>8, KeepsLocals DEF Appends, Stages
<1>10. Running' = {s} /\ Auditing' /\ ~Auditing
  BY <1>2, <1>4, <1>5, <1>9 DEF Auditing
<1>11. Log(ms) /\ Log(au) /\ ms' = Append(ms, m) /\ au' = au
  BY <1>7 DEF Appends, StoresInv, FilesOK, Collections, Tables
<1>12. PICK longer : longer = Append(ms, m)
  OBVIOUS
<1>13. /\ DOMAIN longer = 1..(Len(ms) + 1) /\ DOMAIN ms = 1..Len(ms) /\ Len(ms) \in Nat
       /\ longer[Len(ms) + 1] = m /\ Len(longer) = Len(ms) + 1
       /\ \A i \in 1..Len(ms) : longer[i] = ms[i]
  BY <1>11, <1>12, Appending
<1>14. Len(au) = Len(ms) /\ DOMAIN au = 1..Len(ms)
  <2>1. Len(au) \in Nat /\ DOMAIN au = 1..Len(au)
    BY <1>11, LogFacts
  <2>2. Len(ms) = Len(au) + 0
    BY <1>3, <1>10 DEF LogsAgree
  <2> QED
    BY <2>1, <2>2
<1>15. Sorted(longer)
  <2>1. \A i \in 1..Len(ms) : ms[i].at <= m.at
    BY <1>2, <1>4, <1>5, <1>13 DEF AloneOK, AloneAt, Stamp, Stamped, Tables
  <2>2. \A i \in 1..Len(ms) : \A j \in 1..i : ms[j].at <= ms[i].at
    BY <1>3, <1>13 DEF LogsAgree, Sorted
  <2>3. \A i \in 1..Len(ms) : \A j \in 1..i : j \in 1..Len(ms)
    BY <1>13
  <2>4. ASSUME NEW i \in 1..Len(ms), NEW j \in 1..i PROVE longer[j].at <= longer[i].at
    BY <1>13, <2>2, <2>3
  <2>5. ASSUME NEW j \in 1..(Len(ms) + 1) PROVE longer[j].at <= m.at
    <3>1. CASE j \in 1..Len(ms)
      BY <1>13, <2>1, <3>1
    <3>2. CASE j = Len(ms) + 1
      BY <1>6, <1>13, <3>2
    <3> QED
      BY <1>13, <3>1, <3>2
  <2>6. ASSUME NEW i \in DOMAIN longer, NEW j \in 1..i PROVE longer[j].at <= longer[i].at
    <3>1. CASE i \in 1..Len(ms)
      BY <2>4, <3>1
    <3>2. CASE i = Len(ms) + 1
      BY <1>13, <2>5, <3>2
    <3> QED
      BY <1>13, <3>1, <3>2
  <2> QED
    BY <2>6 DEF Sorted
<1>16. Aligned(longer, au)
  BY <1>3, <1>13, <1>14 DEF LogsAgree, Aligned
<1>17. LogsAgree'
  <2>1. Len(longer) = Len(au) + 1
    BY <1>13, <1>14
  <2>2. Chained(au)
    BY <1>3 DEF LogsAgree
  <2>3. ms' = longer /\ au' = au /\ Auditing'
    BY <1>10, <1>11, <1>12
  <2> QED
    BY <1>15, <1>16, <2>1, <2>2, <2>3 DEF LogsAgree
<1>18. StoryAt(n)'
  <2>1. LastOf(ms, Len(ms), r.id, r.was)
    BY <1>3, <1>4, <1>5 DEF StoryAt
  <2>2. /\ LastOf(longer, Len(longer) - 1, r.id, r.was)
        /\ Len(longer) \in DOMAIN longer /\ longer[Len(longer)] = m
    <3>1. PICK log : log = ms
      OBVIOUS
    <3>2. Log(log) /\ longer = Append(log, m) /\ LastOf(log, Len(log), r.id, r.was)
      BY <1>11, <1>12, <2>1, <3>1
    <3> QED
      BY <3>2, LastGrows
  <2> QED
    BY <1>9, <1>11, <1>12, <2>2 DEF StoryAt, LastOf
<1>19. TableTells'
  <2>1. ASSUME mirrored, NEW id, id # m.id
        PROVE  LastOf(longer, Len(longer), id, Row("members", id))
    <3>1. LastOf(ms, Len(ms), id, Row("members", id))
      BY <1>2, <1>3, <1>4, <1>5, <2>1 DEF TableTells, Holding
    <3>2. PICK log : log = ms
      OBVIOUS
    <3>3. PICK x : x = Row("members", id)
      OBVIOUS
    <3>4. Log(log) /\ longer = Append(log, m) /\ LastOf(log, Len(log), id, x)
      BY <1>11, <1>12, <3>1, <3>2, <3>3
    <3> QED
      BY <2>1, <3>3, <3>4, LastGrows
  <2>2. \A id : Row("members", id)' = Row("members", id)
    BY <1>7 DEF Row
  <2>3. \A id : id = m.id => \E q \in Running' : Holding(req'[q]) /\ req'[q].next.id = id
    BY <1>9, <1>10 DEF Holding
  <2> QED
    BY <1>2, <1>11, <1>12, <2>1, <2>2, <2>3 DEF TableTells, LastOf, Holding
<1> QED
  BY <1>9, <1>10, <1>17, <1>18, <1>19 DEF StoryAt, LastOf, Holding

(* The change is put on record ...                                         *)
LEMMA StoryAudited ==
    ASSUME StoresInv, NEW s \in Requests, AppendAudit(s), Orderly', StoryOK
    PROVE  LogsAgree' /\ TableTells' /\ \A q \in Running' : StoryAt(req[q])'
<1> DEFINE ms == file["members"]
           au == file["audit"]
<1>1. Steps(s)
  BY DEF Steps, WorkspaceStep
<1>2. /\ Orderly /\ faults' = faults /\ faults = 0 /\ mirrored' = mirrored
      /\ s \in Running /\ Running = {s} /\ Running' \subseteq {s} /\ ~Throws(s)
      /\ s \in DOMAIN req /\ Handling(req[s]) /\ req[s].met = {}
      /\ Handling(req'[s]) => Running' = {s}
  BY <1>1, OrderlyStep
<1>3. LogsAgree /\ TableTells /\ StoryAt(req[s])
  BY <1>2 DEF StoryOK
<1>4. PICK r, m, e : r = req[s] /\ m = r.next /\ e = AuditOf(s)
  OBVIOUS
<1>5. r.pc = "audit" /\ WriteOf(r) /\ NextOf(s, r) /\ r.coll = "members"
  BY <1>4, MirroredTypes DEF AppendAudit
<1>6. m.id = r.id /\ r.then \in {"admitted", "answered", "creator"}
  BY <1>4, <1>5 DEF NextOf, WriteOf
<1>7. PICK pc \in {"mirror", "admitted", "answered", "creator"} :
         Appends(s, "audit", e, pc) /\ (mirrored => pc = "mirror")
  BY <1>2, <1>4, <1>6, AppendingIs DEF AppendAudit, AuditOf
<1>8. rows' = rows
  BY DEF AppendAudit
<1>9. PICK n : n = To(r, pc)
  OBVIOUS
<1>10. req'[s] = n /\ n.pc = pc
  BY <1>2, <1>4, <1>7, <1>9, MovesTo DEF Appends
<1>11. pc = "mirror" => Handling(n) /\ n.coll = "members" /\ n.next = m
  BY <1>2, <1>4, <1>5, <1>9, KeepsLocals DEF Stages
<1>12. Auditing /\ ~Auditing'
  BY <1>2, <1>4, <1>5, <1>7, <1>10 DEF Auditing
<1>13. Log(ms) /\ Log(au) /\ ms' = ms /\ au' = Append(au, e)
  BY <1>7 DEF Appends, StoresInv, FilesOK, Collections, Tables
<1>14. PICK longer : longer = Append(au, e)
  OBVIOUS
<1>15. Len(ms) = Len(au) + 1 /\ Len(longer) = Len(au) + 1 /\ Len(au) \in Nat
  BY <1>3, <1>12, <1>13, <1>14, Appending DEF LogsAgree
<1>16. /\ LastOf(ms, Len(ms) - 1, r.id, r.was)
       /\ Len(ms) \in DOMAIN ms /\ ms[Len(ms)] = m
  BY <1>3, <1>4, <1>5 DEF StoryAt, Holding
<1>17. e.id = r.id /\ e.from = Standing(r.was) /\ e.to = Standing(m)
  BY <1>4 DEF AuditOf
<1>18. Aligned(ms, longer) /\ Chained(longer)
  <2>1. e.id = ms[Len(ms)].id /\ e.to = Standing(ms[Len(ms)]) /\ LastOf(ms, Len(ms) - 1, e.id, r.was)
    BY <1>6, <1>16, <1>17
  <2> QED
    BY <1>3, <1>13, <1>14, <1>15, <1>17, <2>1, ChainGrows DEF LogsAgree
<1>19. LogsAgree'
  <2>1. Len(ms) = Len(longer) + 0
    BY <1>15
  <2>2. Sorted(ms)
    BY <1>3 DEF LogsAgree
  <2>3. ms' = ms /\ au' = longer /\ ~Auditing'
    BY <1>12, <1>13, <1>14
  <2> QED
    BY <1>18, <2>1, <2>2, <2>3 DEF LogsAgree
<1>20. n.pc \notin {"append", "audit"} /\ (Holding(n) => n.next = m)
  BY <1>7, <1>10, <1>11 DEF Holding
<1>21. StoryAt(n)'
  BY <1>13, <1>16, <1>20 DEF StoryAt
<1>22. TableTells'
  <2>1. ASSUME mirrored, NEW id
        PROVE  \/ LastOf(ms, Len(ms), id, Row("members", id))
               \/ \E q \in Running' : Holding(req'[q]) /\ req'[q].next.id = id
    <3>1. Running' = {s} /\ Holding(n) /\ n.next = m
      BY <1>2, <1>7, <1>10, <1>11, <2>1 DEF Holding
    <3>2. LastOf(ms, Len(ms), id, Row("members", id)) \/ m.id = id
      BY <1>2, <1>3, <1>4, <2>1 DEF TableTells
    <3> QED
      BY <1>10, <3>1, <3>2
  <2>2. \A id : Row("members", id)' = Row("members", id)
    BY <1>8 DEF Row
  <2> QED
    BY <1>2, <1>13, <2>1, <2>2 DEF TableTells, LastOf, Holding
<1> QED
  BY <1>2, <1>10, <1>19, <1>21, <1>22 DEF StoryAt, LastOf, Holding

(* ... and mirrored.                                                       *)
LEMMA StoryMirrored ==
    ASSUME StoresInv, NEW s \in Requests, MirrorRecord(s), Orderly', StoryOK,
           req[s].coll = "members"
    PROVE  LogsAgree' /\ TableTells' /\ \A q \in Running' : StoryAt(req[q])'
<1> DEFINE ms == file["members"]
           au == file["audit"]
<1>1. Steps(s)
  BY DEF Steps
<1>2. /\ Orderly /\ faults' = faults /\ faults = 0 /\ mirrored' = mirrored
      /\ s \in Running /\ Running = {s} /\ Running' \subseteq {s}
      /\ s \in DOMAIN req /\ Handling(req[s])
  BY <1>1, OrderlyStep
<1>3. LogsAgree /\ TableTells /\ StoryAt(req[s])
  BY <1>2 DEF StoryOK
<1>4. PICK r, m : r = req[s] /\ m = r.next
  OBVIOUS
<1>5. r.pc = "mirror" /\ WriteOf(r) /\ NextOf(s, r) /\ r.coll = "members"
  BY <1>4, MirroredTypes DEF MirrorRecord
<1>6. r.then \in {"admitted", "answered", "creator"} /\ m.id = r.id
  BY <1>4, <1>5 DEF NextOf, WriteOf
<1>7. rows' = [rows EXCEPT !["members"] = Upsert("members", m)] /\ file' = file
  <2>1. faults' # faults + 1
    BY <1>2
  <2> QED
    BY <1>4, <1>5, <2>1 DEF MirrorRecord, Referenced
<1>8. PICK n : n = To(r, r.then)
  OBVIOUS
<1>9. req'[s] = n /\ n.pc = r.then
  BY <1>2, <1>4, <1>8, MovesTo DEF MirrorRecord
<1>10. n.pc \notin {"append", "audit", "mirror"}
  BY <1>6, <1>9
<1>11. ~Auditing /\ ~Auditing'
  BY <1>2, <1>4, <1>5, <1>9, <1>10 DEF Auditing
<1>12. LogsAgree'
  BY <1>3, <1>7, <1>11 DEF LogsAgree
<1>13. StoryAt(n)'
  BY <1>10 DEF StoryAt, Holding
<1>14. PICK log : log = ms
  OBVIOUS
<1>15. Log(log) /\ Len(log) \in DOMAIN log /\ log[Len(log)] = m
  BY <1>3, <1>4, <1>5, <1>14
     DEF StoryAt, Holding, StoresInv, FilesOK, Collections, Tables
<1>16. LastOf(log, Len(log), m.id, m)
  <2>1. Len(log) \in 1..Len(log) /\ \A j \in 1..Len(log) : j <= Len(log)
    BY <1>15, LogFacts
  <2> QED
    BY <1>15, <2>1 DEF LastOf
<1>17. TableTells'
  <2>1. ASSUME mirrored, NEW id PROVE LastOf(log, Len(log), id, Row("members", id)')
    <3>1. Row("members", id)' = IF id = m.id THEN m ELSE Row("members", id)
      BY <1>7, RowUpsert DEF StoresInv, Tables
    <3>2. CASE id = m.id
      BY <1>16, <3>1, <3>2
    <3>3. CASE id # m.id
      <4>1. LastOf(log, Len(log), id, Row("members", id))
        BY <1>2, <1>3, <1>4, <1>14, <2>1, <3>3 DEF TableTells
      <4> QED
        BY <3>1, <3>3, <4>1
    <3> QED
      BY <3>2, <3>3
  <2>2. ms' = log
    BY <1>7, <1>14
  <2> QED
    BY <1>2, <2>1, <2>2 DEF TableTells
<1> QED
  BY <1>2, <1>9, <1>12, <1>13, <1>17 DEF StoryAt, LastOf, Holding

(* What a request reads of a member is the last that was written of it.    *)
LEMMA StoryRead ==
    ASSUME StoresInv, NEW s \in Requests, ReadWorkspace(s), Orderly', StoryOK,
           req[s].coll = "members"
    PROVE  StoryAt(req[s])'
<1>1. Steps(s)
  BY DEF Steps, WorkspaceStep
<1>2. /\ Orderly /\ faults' = faults /\ faults = 0 /\ mirrored' = mirrored
      /\ s \in Running /\ Running = {s}
  BY <1>1, OrderlyStep
<1>3. LogsAgree /\ TableTells
  BY <1>2 DEF StoryOK
<1>4. PICK n, r : n = req'[s] /\ r = req[s]
  OBVIOUS
<1>5. /\ r.pc = "read" /\ n.pc = "append" /\ n.coll = "members" /\ n.id = r.id /\ file' = file
      /\ \E fromFile \in BOOLEAN : /\ ReadRecords("members", fromFile)
                                   /\ n.was = Record("members", r.id, fromFile)
  BY <1>4, ReadWorkspaceIs
<1>6. PICK fromFile \in BOOLEAN : /\ ReadRecords("members", fromFile)
                                  /\ n.was = Record("members", r.id, fromFile)
  BY <1>5
<1>7. PICK log, id : log = file["members"] /\ id = r.id
  OBVIOUS
<1>8. LastOf(log, Len(log), id, n.was)
  <2>1. CASE mirrored
    <3>1. fromFile = FALSE
      BY <1>2, <1>6, <2>1 DEF ReadRecords, Tables
    <3>2. n.was = Row("members", id)
      BY <1>6, <1>7, <3>1 DEF Record
    <3> QED
      BY <1>2, <1>3, <1>4, <1>5, <1>7, <2>1, <3>2 DEF TableTells, Holding
  <2>2. CASE ~mirrored
    <3>1. n.was = LatestBy("members", id)
      BY <1>6, <1>7, <2>2 DEF ReadRecords, Record
    <3>2. "members" \in Stamped /\ FilesOK /\ ClockOK
      BY DEF Stamped, Tables, StoresInv
    <3>3. Log(log) /\ \A i \in DOMAIN log : log[i].at \in Int
      BY <1>7, <3>2, StampsAre
    <3>4. Sorted(log)
      BY <1>3, <1>7 DEF LogsAgree
    <3>5. CASE n.was = Nothing /\ \A i \in DOMAIN log : log[i].id # id
      BY <3>3, <3>5, LogFacts DEF LastOf
    <3>6. CASE \E i \in DOMAIN log :
                 /\ n.was = log[i] /\ log[i].id = id
                 /\ \A j \in DOMAIN log : log[j].id = id =>
                       /\ log[j].at <= log[i].at
                       /\ log[j].at = log[i].at => j <= i
      BY <3>3, <3>4, <3>6, LatestIsLast
    <3> QED
      BY <1>7, <3>1, <3>2, <3>5, <3>6, LatestByIs
  <2> QED
    BY <2>1, <2>2
<1>9. file'["members"] = log
  BY <1>5, <1>7
<1>10. StoryAt(n)'
  BY <1>5, <1>7, <1>8, <1>9 DEF StoryAt, Holding
<1> QED
  BY <1>4, <1>10 DEF StoryAt, Holding

(* While no member is being written nothing else touches the members.      *)
LEMMA StoryQuiet ==
    ASSUME StoresInv, StoresInv', LogsAgree, TableTells, mirrored' = mirrored,
           file'["members"] = file["members"], file'["audit"] = file["audit"],
           \A id : Row("members", id)' = Row("members", id),
           \A q \in Running : ~Holding(req[q]), \A q \in Running' : ~Holding(req'[q])
    PROVE  LogsAgree' /\ TableTells'
<1>1. ~Auditing
  BY MirroredTypes DEF Auditing, Holding, Running
<1>2. ~Auditing'
  <2>1. ASSUME NEW q \in Running', req'[q].pc = "audit" PROVE FALSE
    <3>1. Shape(q, req[q])'
      BY <2>1 DEF StoresInv
    <3>2. PICK n : n = req'[q]
      OBVIOUS
    <3>3. Shape(q, n)'
      BY <3>1, <3>2 DEF Shape, WorkspaceShape, WriteOf, NextOf, RegistryShape, ActivationShape
    <3>4. n.coll = "members"
      BY <2>1, <3>2, <3>3 DEF Shape, WorkspaceShape, RegistryShape, ActivationShape
    <3> QED
      BY <2>1, <3>2, <3>4 DEF Holding
  <2> QED
    BY <2>1 DEF Auditing
<1>3. LogsAgree'
  BY <1>1, <1>2 DEF LogsAgree
<1>4. TableTells'
  BY DEF TableTells
<1> QED
  BY <1>3, <1>4

LEMMA StoryArrival ==
    ASSUME StoresInv, StoresInv', NEW s \in Requests, NEW r, Comes(s, r), Orderly', StoryOK
    PROVE  LogsAgree' /\ TableTells' /\ \A q \in Running' : StoryAt(req[q])'
<1>1. /\ Running' = Running \cup {s} /\ req'[s] = r /\ r.met = Running /\ r.pc \in Arriving
      /\ UNCHANGED <<file, rows, mirrored>>
  BY PlacesArriving DEF Comes, Arrives, StoresInv
<1>2. Orderly
  BY OrderlyBefore
<1>3. Running = {}
  BY <1>1 DEF Orderly, Running, Arriving
<1>4. \A q \in Running : ~Holding(req[q])
  BY <1>3
<1>5. \A q \in Running' : ~Holding(req'[q])
  BY <1>1, <1>3 DEF Holding, Arriving
<1>6. \A id : Row("members", id)' = Row("members", id)
  BY <1>1 DEF Row
<1>7. LogsAgree' /\ TableTells'
  BY <1>1, <1>2, <1>4, <1>5, <1>6, StoryQuiet DEF StoryOK
<1>8. StoryAt(r)'
  BY <1>1 DEF StoryAt, Holding, Arriving
<1> QED
  BY <1>1, <1>3, <1>7, <1>8 DEF StoryAt, Holding

LEMMA StoryOther ==
    ASSUME StoresInv, StoresInv', NEW s \in Requests, Steps(s), Orderly', StoryOK,
           ~AppendAudit(s), AppendRecord(s) \/ MirrorRecord(s) => req[s].coll # "members"
    PROVE  LogsAgree' /\ TableTells' /\ \A q \in Running' : StoryAt(req[q])'
<1>1. /\ Orderly /\ mirrored' = mirrored /\ Running = {s} /\ Running' \subseteq {s}
      /\ s \in DOMAIN req /\ Handling(req[s])
  BY OrderlyStep
<1>2. file'["members"] = file["members"]
  BY OnlyAppended DEF Collections, Tables
<1>3. file'["audit"] = file["audit"]
  <2>1. AppendRecord(s) => req[s].coll # "audit"
    BY AppendedTypes DEF AppendRecord
  <2> QED
    BY <2>1, OnlyAppended DEF Collections
<1>4. \A id : Row("members", id)' = Row("members", id)
  <2>1. rows'["members"] = rows["members"]
    <3>1. CASE rows' = rows
      BY <3>1
    <3>2. CASE /\ req[s].pc = "mirror"
               /\ rows' = [rows EXCEPT ![req[s].coll] = Upsert(req[s].coll, req[s].next)]
      <4>1. req[s].coll # "members"
        BY <3>2, PendingSteps
      <4> QED
        BY <3>2, <4>1 DEF StoresInv, RowsOK, Tables
    <3> QED
      BY <3>1, <3>2, StepEffect DEF Effect, Puts
  <2> QED
    BY <2>1 DEF Row
<1>5. ~Holding(req[s])
  BY PendingSteps DEF Holding
<1>6. PICK n : n = req'[s]
  OBVIOUS
<1>7. n.pc # "audit" /\ ~Holding(n)
  <2>1. CASE n.pc \in {"audit", "mirror"}
    <3>1. /\ AppendRecord(s) /\ n.pc = (IF req[s].coll = "members" THEN "audit" ELSE "mirror")
          /\ n.coll = req[s].coll
      BY <1>6, <2>1, PendingFrom
    <3> QED
      BY <3>1 DEF Holding
  <2> QED
    BY <2>1 DEF Holding
<1>8. StoryAt(n)'
  <2>1. CASE n.pc = "append" /\ n.coll = "members"
    <3>1. ReadWorkspace(s) \/ ReadAgent(s) \/ RecordFeedback(s) \/ RecordEvent(s)
      BY <1>6, <2>1, StageFrom
    <3>2. CASE ReadWorkspace(s)
      <4>1. req[s].coll = "members"
        BY <1>6, <2>1, <3>2, ReadWorkspaceIs
      <4>2. StoryAt(req[s])'
        BY <3>2, <4>1, StoryRead
      <4> QED
        BY <1>6, <4>2 DEF StoryAt, Holding
    <3>3. CASE ReadAgent(s) \/ RecordFeedback(s) \/ RecordEvent(s)
      BY <1>6, <2>1, <3>3, ReadAgentIs, ActivationAppends
    <3> QED
      BY <3>1, <3>2, <3>3
  <2>2. CASE ~(n.pc = "append" /\ n.coll = "members")
    BY <1>7, <2>2 DEF StoryAt, Holding
  <2> QED
    BY <2>1, <2>2
<1>9. LogsAgree' /\ TableTells'
  <2>1. \A q \in Running : ~Holding(req[q])
    BY <1>1, <1>5
  <2>2. \A q \in Running' : ~Holding(req'[q])
    BY <1>1, <1>6, <1>7
  <2> QED
    BY <1>1, <1>2, <1>3, <1>4, <2>1, <2>2, StoryQuiet DEF StoryOK
<1> QED
  BY <1>1, <1>6, <1>8, <1>9 DEF StoryAt, Holding

LEMMA StoryKept ==
    ASSUME StoresInv, StoresInv', AloneOK, StoryOK, NEW s \in Requests,
           (\E r : Comes(s, r)) \/ Steps(s)
    PROVE  StoryOK'
<1>1. ASSUME Orderly' PROVE LogsAgree' /\ TableTells' /\ \A q \in Running' : StoryAt(req[q])'
  <2>1. CASE \E r : Comes(s, r)
    BY <1>1, <2>1, StoryArrival
  <2>2. CASE AppendRecord(s) /\ req[s].coll = "members"
    BY <1>1, <2>2, StoryAppended
  <2>3. CASE AppendAudit(s)
    BY <1>1, <2>3, StoryAudited
  <2>4. CASE MirrorRecord(s) /\ req[s].coll = "members"
    BY <1>1, <2>4, StoryMirrored
  <2>5. CASE /\ Steps(s) /\ ~AppendAudit(s)
             /\ AppendRecord(s) \/ MirrorRecord(s) => req[s].coll # "members"
    BY <1>1, <2>5, StoryOther
  <2> QED
    BY <2>1, <2>2, <2>3, <2>4, <2>5
<1> QED
  BY <1>1 DEF StoryOK, StoryAt, Holding

(* It starts with the logs of a server that kept them well.                *)
LEMMA StoryInit ==
    ASSUME StoresInit, WellKept(file)
    PROVE  StoryOK
<1>1. Running = {} /\ StoresInv
  BY StoresInvInit DEF StoresInit, Running, Idle
<1>2. /\ Log(file["members"]) /\ Log(file["audit"]) /\ FilesOK /\ ClockOK /\ RowsOK
      /\ "members" \in Stamped /\ "members" \in Tables
  BY <1>1 DEF StoresInv, FilesOK, Collections, Tables, Stamped
<1>3. PICK ms, au : ms = file["members"] /\ au = file["audit"]
  OBVIOUS
<1>4. /\ Len(au) = Len(ms) /\ Len(ms) \in Nat /\ DOMAIN ms = 1..Len(ms) /\ DOMAIN au = 1..Len(ms)
  BY <1>2, <1>3, LogFacts DEF WellKept
<1>5. Sorted(ms) /\ Aligned(ms, au) /\ Chained(au)
  BY <1>3, <1>4 DEF WellKept, Sorted, Aligned
<1>6. LogsAgree
  BY <1>1, <1>3, <1>4, <1>5 DEF LogsAgree, Auditing
<1>7. ASSUME mirrored, NEW id PROVE LastOf(ms, Len(ms), id, Row("members", id))
  <2>1. Row("members", id) = LatestBy("members", id)
    BY <1>2, <1>7, MirroredAtFirst
  <2>2. PICK x : x = LatestBy("members", id)
    OBVIOUS
  <2>3. \A i \in DOMAIN ms : ms[i].at \in Int
    BY <1>2, <1>3, StampsAre
  <2>4. CASE x = Nothing /\ \A i \in DOMAIN ms : ms[i].id # id
    BY <1>4, <2>1, <2>2, <2>4 DEF LastOf
  <2>5. CASE \E i \in DOMAIN ms :
               /\ x = ms[i] /\ ms[i].id = id
               /\ \A j \in DOMAIN ms : ms[j].id = id =>
                     /\ ms[j].at <= ms[i].at
                     /\ ms[j].at = ms[i].at => j <= i
    BY <1>2, <1>3, <1>5, <2>1, <2>2, <2>3, <2>5, LatestIsLast
  <2> QED
    BY <1>2, <1>3, <2>2, <2>4, <2>5, LatestByIs
<1>8. TableTells
  BY <1>3, <1>7 DEF TableTells
<1> QED
  BY <1>1, <1>6, <1>8 DEF StoryOK

LEMMA FeedbackInit ==
    ASSUME StoresInit
    PROVE  FeedbackOK
<1>1. \A i \in DOMAIN file["feedback"] :
         file["feedback"][i].id \notin Requests /\ file["feedback"][i].rating \in 1..5
  BY PastsAssumption DEF StoresInit
<1> QED
  BY <1>1 DEF FeedbackOK, FeedbackAt

LogsInv == ChangeInv /\ FeedbackOK /\ StoryOK

LEMMA LogsInvKept ==
    ASSUME LogsInv, [StoresNext]_storeVars
    PROVE  LogsInv'
<1>1. ChangeInv /\ StoresInv /\ AloneOK /\ FeedbackOK /\ StoryOK
  BY DEF LogsInv, ChangeInv
<1>2. ChangeInv' /\ StoresInv'
  BY <1>1, ChangeInvKept DEF ChangeInv
<1>3. CASE ~Idling
  <2>1. PICK q \in Requests : (\E r : Comes(q, r)) \/ Steps(q)
    BY <1>1, <1>3, NextIs
  <2> QED
    BY <1>1, <1>2, <2>1, FeedbackKept, StoryKept DEF LogsInv
<1>4. CASE Idling
  <2>1. UNCHANGED <<file, rows, mirrored, clock, faults, req>> /\ Running' = Running /\ Over' = Over
    BY <1>4 DEF Idling, Running, Over
  <2>2. FeedbackOK'
    BY <1>1, <2>1 DEF FeedbackOK, FeedbackAt, Reporting, Reported
  <2>3. StoryOK'
    <3>1. \A id : Row("members", id)' = Row("members", id)
      BY <2>1 DEF Row
    <3>2. TableTells => TableTells'
      BY <2>1, <3>1 DEF TableTells, Holding
    <3>3. LogsAgree => LogsAgree'
      BY <2>1 DEF LogsAgree, Auditing
    <3>4. (\A q \in Running : StoryAt(req[q])) => \A q \in Running' : StoryAt(req[q])'
      BY <2>1 DEF StoryAt, Holding
    <3>5. Orderly' => Orderly
      BY <2>1 DEF Orderly
    <3> QED
      BY <1>1, <3>2, <3>3, <3>4, <3>5 DEF StoryOK
  <2> QED
    BY <1>2, <2>2, <2>3 DEF LogsInv
<1> QED
  BY <1>3, <1>4

LEMMA LogsTell ==
    ASSUME LogsInv
    PROVE  LogsExplain
<1>1. FilesOK /\ FeedbackOK /\ StoryOK
  BY DEF LogsInv, ChangeInv, StoresInv
<1>2. FeedbackIsReported
  <2>1. ASSUME NEW i \in DOMAIN file["feedback"], NEW f, f = file["feedback"][i]
        PROVE  /\ f.rating \in 1..5
               /\ f.id \in Over /\ faults = 0 => Reported(f)
    <3>1. FeedbackAt(f)
      BY <1>1, <2>1 DEF FeedbackOK
    <3> QED
      BY <3>1 DEF FeedbackAt, Over
  <2> QED
    BY <2>1 DEF FeedbackIsReported, Reported
<1>3. AuditTells
  <2>1. ASSUME Orderly, Running = {} PROVE Len(file["audit"]) = Len(file["members"])
    <3>1. Len(file["members"]) = Len(file["audit"]) + 0 /\ Len(file["audit"]) \in Nat
      BY <1>1, <2>1, LogFacts DEF StoryOK, LogsAgree, Auditing, FilesOK, Collections
    <3> QED
      BY <3>1
  <2>2. Orderly => Chained(file["audit"])
    BY <1>1 DEF StoryOK, LogsAgree
  <2> QED
    BY <2>1, <2>2 DEF AuditTells, Orderly
<1> QED
  BY <1>2, <1>3 DEF LogsExplain

(* The audit has every change of a member, each from where the one before  *)
(* it ended, as long as requests do not overlap and the server started     *)
(* with such an audit; and feedback on file was sent with a rating from 1  *)
(* to 5 and is reported when its request is done, however requests overlap.*)
THEOREM LogsExplained ==
    ASSUME \A past \in Pasts : WellKept(past)
    PROVE  StoresSpec => []LogsExplain
<1>1. StoresInit => LogsInv
  BY ChangeInvInit, FeedbackInit, StoryInit DEF LogsInv, StoresInit
<1>2. LogsInv /\ [StoresNext]_storeVars => LogsInv'
  BY LogsInvKept
<1>3. LogsInv => LogsExplain
  BY LogsTell
<1> QED
  BY <1>1, <1>2, <1>3, PTL DEF StoresSpec
=============================================================================
