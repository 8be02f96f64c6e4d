------------------------------ MODULE Archive ------------------------------
(***************************************************************************)
(* What a pass of the feed (module Feed) records of a round, and its copy  *)
(* in Supabase: after the append to its file, a record is put into a table *)
(* whose foreign keys the schema checks (docs/supabase_migration.sql), and *)
(* with Supabase configured the tables are what the read API reads.        *)
(*                                                                         *)
(* Columns that no property tells apart are left out.  The request stands  *)
(* for the events, nodes and edges too: they meet the same foreign key.    *)
(* Records without a table (winners, decisions, profiles, snapshots) are   *)
(* left to Feed, as are restarts.                                          *)
(* A pass takes its time, now, only when it comes to a round, and in that  *)
(* step it marks the session's key: there is no wait between the two       *)
(* (persistence.ts:35-50), but there is one between the state it was given *)
(* and now.  Of the times only their order counts, and two of one          *)
(* millisecond are left out.                                               *)
(* Faults are requests to Supabase that fail.  SUPABASE_STRICT is unset, so *)
(* a failure is only logged.                                               *)
(***************************************************************************)
EXTENDS Feed

VARIABLES
    tables,     \* tables[k]: the row under key k
    mirroring,  \* mirroring[p]: the step of the mirror that poll p waits for
    stamped     \* the session's stages, in the order of their records' times

mirrorVars == <<tables, mirroring, stamped>>
archiveVars == <<allVars, mirrorVars>>

ArchiveInit ==
    /\ FeedInit
    /\ tables = <<>>
    /\ mirroring = [p \in Polls |-> "no"]
    /\ stamped = <<>>
-----------------------------------------------------------------------------
(* The session's graph: nodes are entities, edges pairs of them.           *)

Node(cond, e) == IF cond THEN {e} ELSE {}

VerifiedNodeMutant(n, r) == Node(r.release, <<n, "verification">>)

VerifiedNode(n, r) == Node(r.verified # "none", <<n, "verification">>)

Settling(r) == r.escrow \/ r.deposit \/ r.release

Nodes(n, r) ==
    (UNION {Node(r.want, e) : e \in {<<"session">>, <<n, "request">>, <<"buyer">>, <<"snapshot">>}})
    \cup (UNION {{<<s>>, <<n, "bid", s>>} : s \in ToSet(r.bids)})
    \cup Node(r.award # NoSeller, <<n, "winner">>)
    \cup Node(r.delivered, <<n, "memo">>)
    \cup VerifiedNode(n, r)
    \cup Node(Settling(r), <<n, "settlement">>)

Edge(cond, from, to) == IF cond THEN {<<from, to>>} ELSE {}

Edges(n, r) ==
    {<<<<"session">>, <<n, "request">>>>, <<<<n, "request">>, <<"snapshot">>>>,
     <<<<"buyer">>, <<n, "request">>>>}
    \cup (UNION {{<<<<n, "request">>, <<s>>>>, <<<<s>>, <<n, "bid", s>>>>,
                  <<<<n, "bid", s>>, <<n, "request">>>>} : s \in ToSet(r.bids)})
    \cup Edge(r.award # NoSeller, <<"buyer">>, <<n, "winner">>)
    \cup Edge(r.award # NoSeller, <<n, "winner">>, <<r.award>>)
    \cup Edge(r.delivered, <<r.award>>, <<n, "memo">>)
    \cup Edge(r.delivered, <<n, "memo">>, <<n, "request">>)
    \cup Edge(r.verified # "none", <<n, "memo">>, <<n, "verification">>)
    \cup Edge(Settling(r), <<n, "memo">>, <<n, "settlement">>)
    \cup Edge(Settling(r) /\ r.award # NoSeller, <<n, "settlement">>, <<r.award>>)
-----------------------------------------------------------------------------
(* persistRound, every collection that has a table, in the code's order.   *)

(* The state that a pass is given: the later it was read, the more is said. *)
(* No code keeps it; the properties read it, as they read a record's round. *)
ReadAt == Cardinality(thread)

Absent == "absent"      \* a column that JSON leaves out

Column(cond, value) == IF cond THEN value ELSE Absent

CompletedMutant(r) == r.verified # "none"

Completed(r) == r.release \/ r.refunded

SessionEntry(n, r) ==
    Entry("session", 0, RecordedStage(r),
          [stage |-> RecordedStage(r),
           of |-> n,
           read |-> ReadAt,
           winner |-> Column(r.award # NoSeller, r.award),
           settlement |-> Column(SettlementStatus(r) # "none", SettlementStatus(r)),
           completed |-> Column(Completed(r), "now")])

AgentEntry(kind, n, s) == Entry(kind, n, s, [agent |-> s])

MemoEntry(n, r) == Entry("memo", n, "", [agent |-> Column(r.award # NoSeller, r.award)])

SettledEntry(n, r) ==
    Entry("settlement", n, SettlementStatus(r), [status |-> SettlementStatus(r)])

Each(r, kind, n) == [i \in DOMAIN r.bids |-> AgentEntry(kind, n, r.bids[i])]

ArchiveEntries(n, r) ==
    If(r.want, SessionEntry(n, r))
    \o If(r.want, Entry("request", n, "", [round |-> n]))
    \o Each(r, "bid", n)
    \o If(r.delivered, MemoEntry(n, r))
    \o If(SettlementStatus(r) # "none", SettledEntry(n, r))
    \o Each(r, "reputation", n)

ArchivePass ==
    FlattenSeq([n \in 1..MaxRounds |->
                  IF n \in DOMAIN rounds THEN ArchiveEntries(n, rounds[n]) ELSE <<>>])

StartPass(p) ==
    /\ todo[p] = <<>>
    /\ todo' = [todo EXCEPT ![p] = ArchivePass]
    /\ UNCHANGED <<talkVars, seen, writing, files, faults, restarts, mirrorVars>>

(* The session's key leaves the round out: its stage is put on record once *)
(* in all its rounds.                                                      *)
TakeStamp(p) ==
    stamped' = IF writing'[p] /\ Head(todo'[p]).key[1] = "session"
               THEN Append(stamped, Head(todo'[p]).value.stage) ELSE stamped

Claim(p) ==
    /\ mirroring[p] = "no"
    /\ WriteOnce(p)
    /\ TakeStamp(p)
    /\ UNCHANGED <<tables, mirroring>>

-----------------------------------------------------------------------------
(* The mirror.                                                             *)

(* targetFor: the row an entry goes to.  A session has one row, whatever   *)
(* its stage.                                                              *)
Target(entry) == IF entry.key[1] = "session" THEN <<"session", 0, "">> ELSE entry.key

Columns(entry) == [c \in DOMAIN entry.value \ {"of", "read"} |-> entry.value[c]]

(* The agent whose row is put first.                                       *)
BeforeMutant(entry) == Absent

Before(entry) ==
    IF entry.key[1] \in {"bid", "memo", "reputation"} THEN entry.value.agent ELSE Absent

AgentRow(s) == <<"agent", 0, s>>

(* The foreign keys that the row of an entry must meet.                    *)
Refs(entry) ==
    LET agent == IF entry.key[1] = "session" THEN entry.value.winner
                 ELSE IF "agent" \in DOMAIN entry.value THEN entry.value.agent
                 ELSE Absent
    IN (IF agent = Absent THEN {} ELSE {AgentRow(agent)})
       \cup (IF entry.key[1] = "session" THEN {} ELSE {<<"session", 0, "">>})

(* The append has landed; the mirror comes next, agents first.             *)
AppendRecord(p) ==
    /\ writing[p]
    /\ writing' = [writing EXCEPT ![p] = FALSE]
    /\ mirroring' =
          [mirroring EXCEPT ![p] = IF Before(Head(todo[p])) = Absent THEN "row" ELSE "before"]
    /\ Put(Head(todo[p]))
    /\ UNCHANGED <<talkVars, seen, todo, faults, restarts, tables, stamped>>

(* stripUndefined and merge-duplicates: a column that is left out keeps    *)
(* what it held.                                                           *)
Merge(old, new) == [c \in DOMAIN new |-> IF new[c] = Absent THEN old[c] ELSE new[c]]

Upsert(k, row) ==
    tables' = With(tables, k, IF k \in DOMAIN tables THEN Merge(tables[k], row) ELSE row)

(* What the read API makes of a row: the record it came from.  A settlement*)
(* whose status it does not know counts as requested.                      *)
SettlementFromRow(status) ==
    IF status \in {"DEPOSITED", "VERIFIED", "RELEASED", "REFUNDED"} THEN status ELSE "REQUESTED"

FromRow(k) ==
    IF k[1] = "settlement" THEN [status |-> SettlementFromRow(tables[k].status)] ELSE tables[k]

(* The rest of a record's mirror is dropped with the request that fails.   *)
Mirrored(p) ==
    /\ mirroring' = [mirroring EXCEPT ![p] = "no"]
    /\ todo' = [todo EXCEPT ![p] = Tail(@)]

MirrorFails(p) ==
    /\ faults < MaxFaults
    /\ faults' = faults + 1
    /\ Mirrored(p)
    /\ UNCHANGED tables

MirrorAgent(p) ==
    /\ mirroring[p] = "before"
    /\ \/ /\ Upsert(AgentRow(Before(Head(todo[p]))), [status |-> "active"])
          /\ mirroring' = [mirroring EXCEPT ![p] = "row"]
          /\ UNCHANGED <<todo, faults>>
       \/ MirrorFails(p)
    /\ UNCHANGED <<talkVars, seen, writing, files, restarts, stamped>>

(* A row whose foreign keys name no row is refused.                        *)
MirrorRow(p) ==
    /\ mirroring[p] = "row"
    /\ LET entry == Head(todo[p])
       IN \/ /\ IF Refs(entry) \subseteq DOMAIN tables THEN Upsert(Target(entry), Columns(entry))
                ELSE UNCHANGED tables
             /\ Mirrored(p)
             /\ UNCHANGED faults
          \/ MirrorFails(p)
    /\ UNCHANGED <<talkVars, seen, writing, files, restarts, stamped>>
-----------------------------------------------------------------------------
(* The read API without Supabase: of a session's records in the file, the  *)
(* one with the latest time counts (listMarkets, getMarket).               *)

SessionRecords == UNION {ToSet(files[k]) : k \in {key \in DOMAIN files : key[1] = "session"}}

UpdatedAt(record) == Place(stamped, record.stage)

LatestByMutant(items) ==
    CHOOSE item \in items : \A x \in items : UpdatedAt(item) <= UpdatedAt(x)

LatestBy(items) == CHOOSE item \in items : \A x \in items : UpdatedAt(x) <= UpdatedAt(item)

GetMarket == LatestBy(SessionRecords)
-----------------------------------------------------------------------------
ArchiveStep(p) ==
    StartPass(p) \/ Claim(p) \/ AppendRecord(p) \/ MirrorAgent(p) \/ MirrorRow(p)

ArchiveNext ==
    \/ Talk /\ UNCHANGED <<feedVars, mirrorVars>>
    \/ \E p \in Polls : ArchiveStep(p)

ArchiveSpec ==
    ArchiveInit /\ [][ArchiveNext]_archiveVars /\ \A p \in Polls : WF_archiveVars(ArchiveStep(p))
-----------------------------------------------------------------------------
(* The graph of a round is whole once the work is delivered: every edge    *)
(* ends in nodes that are written too, whoever bid and however the round   *)
(* ended.  Until then the settlement may hang from a memo that is not      *)
(* there yet (persistence.ts:359-413).                                     *)
GraphCloses ==
    \A n \in DOMAIN rounds :
       LET r == rounds[n]
           missing == {e \in Edges(n, r) : ~({e[1], e[2]} \subseteq Nodes(n, r))}
       IN r.want =>
            /\ r.delivered => missing = {}
            /\ missing \subseteq {<<<<n, "memo">>, <<n, "settlement">>>>}

(* What the tables say of a session happened, although passes overlap and  *)
(* a row is merged from older and newer records; and every other row is    *)
(* read back as the record on file that it was put for (persistence.ts:    *)
(* 37-60, supabasePersistence.ts:343-459).                                 *)
RowsHold ==
    /\ \A k \in DOMAIN tables \ {<<"session", 0, "">>} :
          k[1] = "agent" \/ FromRow(k) \in ToSet(Records(k))
    /\ <<"session", 0, "">> \in DOMAIN tables =>
          LET row == FromRow(<<"session", 0, "">>)
          IN /\ Records(<<"session", 0, row.stage>>) # <<>>
             /\ row.winner # Absent => \E n \in Rounds : Said(Msg("AWARD", n, row.winner))
             /\ row.completed # Absent => \E n \in Rounds : Said(Msg("RELEASED", n, NoSeller))
             /\ row.settlement = "VERIFIED" =>
                   \E n \in Rounds, v \in {"PASS", "FAIL"} : Said(Msg("VERIFIED", n, v))

RecordedStages ==
    <<"SESSION_CREATED", "WANT_BROADCAST", "BIDS_RECEIVED", "WINNER_SELECTED",
      "SETTLEMENT_INITIATED", "MEMO_GENERATED", "VERIFICATION_FAILED", "VERIFICATION_PASSED",
      "REFUNDED", "PAYMENT_RELEASED">>

(* Of two passes over one round, that with the older state took its time   *)
(* later: sends overlap (server.ts:1033), and a pass waits between the     *)
(* state it is given and now, for mkdir and for all of the rounds before   *)
(* (persistence.ts:28-35).                                                 *)
Overtaken ==
    \E x, y \in SessionRecords :
       x.of = y.of /\ UpdatedAt(x) < UpdatedAt(y) /\ y.read < x.read

(* As long as the session is shown by records of one round, whoever reads  *)
(* its stage from the files, again and again, never sees it go back, in    *)
(* whatever order the records are appended, unless a pass was overtaken    *)
(* between its state and its time (history.ts:24-56, 137-145).             *)
MarketAdvances ==
    [][LET old == GetMarket
           new == GetMarket'
       IN SessionRecords # {} /\ old.of = new.of /\ ~Overtaken'
             => Place(RecordedStages, old.stage) <= Place(RecordedStages, new.stage)]_files

(* Once the session has its row, every record of it that is written from   *)
(* then on gets its own, the first of a new agent too, unless a request    *)
(* fails (supabasePersistence.ts:52-63, 108-186).                          *)
MirrorKeepsUp ==
    [][\A p \in Polls :
          /\ mirroring[p] = "row" /\ mirroring'[p] = "no"
          /\ Head(todo[p]).key[1] # "session"
          /\ <<"session", 0, "">> \in DOMAIN tables
          => Head(todo[p]).key \in DOMAIN tables' \/ faults > 0 \/ faults' > 0]_archiveVars

(* "When SUPABASE_URL and SUPABASE_SERVICE_ROLE_KEY are configured, writes *)
(* are mirrored to Supabase for market records"                            *)
(* (docs/data_architecture.md:176): a request that is on file is in its    *)
(* table.                                                                  *)
RequestsMirrored ==
    \A n \in Rounds :
       Records(<<"request", n, "">>) # <<>> ~> <<"request", n, "">> \in DOMAIN tables
=============================================================================
