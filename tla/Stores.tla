------------------------------- MODULE Stores -------------------------------
(***************************************************************************)
(* The stores of the marketplace feed: collections of records that are     *)
(* only ever appended to a JSONL file, where the newest record of an id    *)
(* counts, and that may be mirrored to tables in Supabase, which are then  *)
(* read instead.  A request handler reads, awaits, and appends what it     *)
(* made of what it read; other handlers run at every await.  Modules       *)
(* Workspace, Registry and Activation say what the handlers decide.        *)
(***************************************************************************)
EXTENDS Integers, Sequences, FiniteSets

CONSTANTS Requests,   \* the requests that arrive
          InFlight,   \* how many of them may overlap
          MaxTime,    \* bound on the clock that stamps records
          MaxFaults,  \* calls to Supabase and appends that may fail
          Pasts,      \* what the files may hold when the server starts
          Sessions,   \* the sessions that memos are about
          Nothing     \* no record, or a field left out of a request

ASSUME StoresAssumption ==
  /\ InFlight \in Nat
  /\ MaxTime \in Nat
  /\ MaxFaults \in Nat

VARIABLES file,      \* by collection: the records appended, in order
          rows,      \* by collection: the records of its table
          mirrored,  \* whether Supabase is configured
          clock, faults,
          listed,    \* the sessions with a row in the table of sessions
          refused,   \* a history: the requests that a foreign key refused a row
          req        \* by request: its place in the handler and its locals

storeVars == <<file, rows, mirrored, clock, faults, listed, refused, req>>

Tables == {"members", "orgs", "sessions", "memo"}
Collections == Tables \cup {"audit", "agents", "events", "feedback"}

-----------------------------------------------------------------------------
(* Reading.                                                                *)

\* A slip: the first of two records with equal stamps counts.
LatestInMutant(log, id) ==
  LET hits == {i \in DOMAIN log : log[i].id = id}
      newest == {i \in hits : \A j \in hits : log[j].at <= log[i].at}
  IN  IF hits = {} THEN Nothing
      ELSE log[CHOOSE i \in newest : \A j \in newest : i <= j]

\* Of two records with equal stamps the one further down the file counts.
Newest(log, hits) ==
  LET newest == {i \in hits : \A j \in hits : log[j].at <= log[i].at}
  IN  IF hits = {} THEN Nothing
      ELSE log[CHOOSE i \in newest : \A j \in newest : j <= i]

LatestIn(log, id) == Newest(log, {i \in DOMAIN log : log[i].id = id})

LatestBy(c, id) == LatestIn(file[c], id)

Row(c, id) ==
  IF \E r \in rows[c] : r.id = id
  THEN CHOOSE r \in rows[c] : r.id = id
  ELSE Nothing

\* A read of the table that fails falls back to the file.
ReadRecords(c, fromFile) ==
  IF mirrored /\ c \in Tables
  THEN \/ ~fromFile /\ UNCHANGED faults
       \/ fromFile /\ faults < MaxFaults /\ faults' = faults + 1
  ELSE fromFile /\ UNCHANGED faults

Record(c, id, fromFile) == IF fromFile THEN LatestBy(c, id) ELSE Row(c, id)

-----------------------------------------------------------------------------
(* Requests.                                                               *)

Idle == [pc |-> "idle"]
Ended == {"answered", "refused"}
Over == {q \in Requests : req[q].pc \in Ended}
Running == {q \in Requests : req[q].pc \notin Ended \cup {"idle"}}

Now == {t \in {clock, clock + 1} : t <= MaxTime}

\* met, after and since are histories: the requests this one overlaps, those
\* that had ended when it arrived, and how many records the files that decide
\* on permissions held by then.
Deciding == {"members", "sessions"}
Arrive(q, r) ==
  /\ req[q].pc = "idle"
  /\ Cardinality(Running) < InFlight
  /\ req' = [p \in Requests |->
               IF p = q THEN [r EXCEPT !.met = Running, !.after = Over,
                                         !.since = [c \in Deciding |-> Len(file[c])]]
               ELSE IF p \in Running THEN [req[p] EXCEPT !.met = @ \cup {q}]
               ELSE req[p]]
  /\ UNCHANGED <<file, rows, mirrored, clock, faults, listed, refused>>

\* A handler's locals: who asks for what of which target; the scope whose
\* members decide; the write in hand and where the handler goes on after it.
Fresh(op, who, target, ask, pc) ==
  [pc |-> pc, op |-> op, who |-> who, target |-> target, ask |-> ask,
   met |-> {}, after |-> {}, since |-> 0, scope |-> target, autoGrant |-> FALSE,
   coll |-> Nothing, id |-> Nothing, patch |-> Nothing, by |-> Nothing,
   at |-> 0, was |-> Nothing, next |-> Nothing, then |-> "answered"]

\* Of a request that has ended only what was asked is of interest.
To(r, pc) ==
  IF pc \in Ended
  THEN [pc |-> pc, op |-> r.op, who |-> r.who, target |-> r.target, ask |-> r.ask,
        met |-> r.met, after |-> r.after]
  ELSE [r EXCEPT !.pc = pc]

\* Go(q, r) moves a request on; it leaves the stores alone.
Go(q, r) ==
  /\ req' = [req EXCEPT ![q] = r]
  /\ UNCHANGED <<file, rows, mirrored, listed, refused>>

\* The write of patch to the record id of c: its stamp is taken here, its
\* read, append and mirroring follow, then the handler goes on at then.
Write(r, c, id, patch, by, t, then) ==
  [r EXCEPT !.pc = "read", !.coll = c, !.id = id, !.patch = patch, !.by = by,
            !.at = t, !.then = then]

-----------------------------------------------------------------------------
(* Writing.                                                                *)

\* appendFile.  A failed append ends the request.
AppendFile(q, c, record, pc) ==
  \/ /\ file' = [file EXCEPT ![c] = Append(@, record)]
     /\ req' = [req EXCEPT ![q] = To(@, pc)]
     /\ UNCHANGED faults
  \/ /\ faults < MaxFaults
     /\ faults' = faults + 1
     /\ req' = [req EXCEPT ![q] = To(@, "refused")]
     /\ UNCHANGED file

AppendRecord(q) ==
  /\ req[q].pc = "append"
  /\ AppendFile(q, req[q].coll, req[q].next,
                IF req[q].coll = "members" THEN "audit"
                ELSE IF mirrored /\ req[q].coll \in Tables THEN "mirror"
                ELSE req[q].then)
  /\ UNCHANGED <<rows, mirrored, clock, listed, refused>>

\* The foreign keys of the tables: a memo's session, an assignment's organization.
Referenced(c, record) ==
  /\ c = "memo" => record.id \in listed
  /\ c = "sessions" => \E o \in rows["orgs"] : o.id = record.org

\* An upsert that fails, or that a foreign key refuses, is logged and forgotten
\* (SUPABASE_STRICT unset).
Upsert(c, record) == {r \in rows[c] : r.id # record.id} \cup {record}

MirrorRecord(q) ==
  /\ req[q].pc = "mirror"
  /\ req' = [req EXCEPT ![q] = To(@, @.then)]
  /\ \/ /\ Referenced(req[q].coll, req[q].next)
        /\ rows' = [rows EXCEPT ![req[q].coll] = Upsert(req[q].coll, req[q].next)]
        /\ UNCHANGED <<faults, refused>>
     \/ /\ ~Referenced(req[q].coll, req[q].next)
        /\ refused' = refused \cup {q}
        /\ UNCHANGED <<rows, faults>>
     \/ /\ faults < MaxFaults
        /\ faults' = faults + 1
        /\ UNCHANGED <<rows, refused>>
  /\ UNCHANGED <<file, mirrored, clock, listed>>

\* A pass over the market puts the row of a session, when it first gets to it.
SessionListed ==
  /\ mirrored
  /\ \E s \in Sessions \ listed : listed' = listed \cup {s}
  /\ UNCHANGED <<file, rows, mirrored, clock, faults, refused, req>>

StoresInit ==
  /\ file \in Pasts
  /\ mirrored \in BOOLEAN
  /\ rows = [c \in Tables |->
               IF mirrored
               THEN {LatestBy(c, id) : id \in {file[c][i].id : i \in DOMAIN file[c]}}
               ELSE {}]
  /\ clock = 0
  /\ faults = 0
  /\ listed \in SUBSET Sessions
  /\ \A r \in rows["memo"] : r.id \in listed
  /\ refused = {}
  /\ req = [q \in Requests |-> Idle]

=============================================================================
