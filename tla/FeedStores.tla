----------------------------- MODULE FeedStores -----------------------------
(***************************************************************************)
(* The feed server over its stores: workspace, registry and activation     *)
(* requests, their handlers interleaved at every await.                    *)
(***************************************************************************)
EXTENDS Workspace, Registry, Activation

\* A field left out is no value, and no record is none.
ASSUME NothingAssumption ==
  Nothing \notin Requests \cup MemberStatuses \cup RegistryStatuses \cup MemberRecords
                     \cup SessionRecords \cup MemoRecords \cup AgentRecords

\* The files hold what earlier runs wrote before the clock started.
ASSUME PastsAssumption ==
  \A past \in Pasts :
    /\ DOMAIN past = Collections
    /\ past["members"] \in Seq(MemberRecords) /\ past["sessions"] \in Seq(SessionRecords)
    /\ past["memo"] \in Seq(MemoRecords) /\ past["orgs"] \in Seq(OrgRecords)
    /\ past["agents"] \in Seq(AgentRecords)
    /\ \A c \in Collections :
         /\ past[c] \in Seq({past[c][i] : i \in DOMAIN past[c]})
         /\ \A i \in DOMAIN past[c] : past[c][i].at <= 0
    /\ \A c \in Deciding : \A i \in DOMAIN past[c] : past[c][i].req = Nothing
    /\ \A i \in DOMAIN past["feedback"] :
         past["feedback"][i].id \notin Requests /\ past["feedback"][i].rating \in 1..5

StoresNext ==
  \/ \E q \in Requests :
       \/ WorkspaceRequest(q) \/ RegistryRequest(q)
       \/ WorkspaceStep(q) \/ ReadAgent(q) \/ ActivationNext(q)
       \/ AppendRecord(q) \/ MirrorRecord(q)
  \/ SessionListed

StoresSpec == StoresInit /\ [][StoresNext]_storeVars

-----------------------------------------------------------------------------
(* Properties.                                                             *)

\* What request r may find on record of id.  In a file: the record that counted
\* at some moment while r ran.  In a table, which the handlers that write a
\* record bring up to date each in its own time: whatever was written, as long as
\* nobody who was done before r arrived wrote it anew in a later request, or
\* later in the same one.  An upsert that failed leaves a row behind for good.
Entries(c, id) == {i \in DOMAIN file[c] : file[c][i].id = id}
New(c, id) == {i \in Entries(c, id) : file[c][i].req \in Requests}

Writes(c, id) == {file[c][i] : i \in New(c, id)}
PastRecord(c, id) == Newest(file[c], Entries(c, id) \ New(c, id))

Follows(n, m) ==
  \/ m.req \in req[n.req].after
  \/ m.req = n.req /\ m.by = "first-signed-writer" /\ n.by # m.by

DoneBefore(c, id, r) == {n \in Writes(c, id) : n.req \in r.after}

MayFind(c, id, r) ==
  IF ~mirrored THEN {LatestIn(SubSeq(file[c], 1, n), id) : n \in r.since[c]..Len(file[c])}
  ELSE IF faults > 0 THEN Writes(c, id) \cup {PastRecord(c, id)}
  ELSE {m \in Writes(c, id) : \A n \in DoneBefore(c, id, r) : ~Follows(n, m)}
         \cup {m \in {PastRecord(c, id)} : DoneBefore(c, id, r) = {}}

\* What r may take for the members of a scope: all at one moment from the file,
\* each row for itself from the table.
MaySee(scope, r) ==
  LET Id(p) == MemberId(scope, p)
  IN  IF ~mirrored
      THEN {[p \in People |-> LatestIn(SubSeq(file["members"], 1, n), Id(p))] :
              n \in r.since["members"]..Len(file["members"])}
      ELSE {seen \in [People -> UNION {MayFind("members", Id(p), r) : p \in People}] :
              \A p \in People : seen[p] \in MayFind("members", Id(p), r)}

ActiveIn(seen) == {p \in People : seen[p] # Nothing /\ seen[p].status = "active"}
Needed(seen, r) == r.who \in ActiveIn(seen) /\ seen[r.who].role \in NeededRoles(r)
Barred(seen, r) == r.who \in ActiveIn(seen) /\ seen[r.who].role \notin NeededRoles(r)

\* No write by a stranger or a mere viewer gets through an interleaving.  A
\* request that changes a member, a memo or an assignment is let in only if its
\* publisher may have been seen with a role for it, in its target or in the
\* organization that may have been seen to own it; or if nobody may have been
\* seen as an active member of a target that no organization owned; and never if
\* an active membership of the target could only be seen to bar it
\* (server.ts:809-884, workspacePermissionPolicy.ts:13-47).
WritesAllowed ==
  \A q \in Running :
    LET r == req[q]
        owners == MayFind("sessions", r.target, r)
    IN
    r.op \in {"edit", "export", "member", "assign"} /\ r.by = r.who =>
      /\ \/ \E seen \in MaySee(r.target, r) :
              Needed(seen, r) \/ (ActiveIn(seen) = {} /\ Nothing \in owners)
         \/ \E a \in owners \ {Nothing} : \E seen \in MaySee(a.org, r) : Needed(seen, r)
      /\ \E seen \in MaySee(r.target, r) : ~Barred(seen, r)

\* What a request changes, and every record it may write: the first writer of a
\* scope, and who creates an organization, becomes a member of it as well.
RegistryOps == {"register", "update", "transition"}

Subject(r) ==
  CASE r.op \in {"edit", "export"} -> <<"memo", r.target>>
    [] r.op = "member" -> <<"members", MemberId(r.target, r.ask.person)>>
    [] r.op = "org" -> <<"orgs", r.target>>
    [] r.op = "assign" -> <<"sessions", r.ask>>
    [] r.op \in RegistryOps -> <<"agents", r.target>>
    [] OTHER -> <<Nothing, Nothing>>

MayWrite(r) ==
  {Subject(r)} \cup IF r.who = Nothing THEN {}
                     ELSE {<<"members", MemberId(r.target, r.who)>>}

\* An update is lost only to a request that overlapped it and may write the same
\* record, or to the foreign key of a table.  Whatever else overlaps it, an answered
\* export stays in the memo's history, a revoked member and a suspended agent stay
\* so until a later request on the same one says otherwise.  Updates that say
\* nothing of the status, or of exports, carry it over (workspaceStore.ts:45-72,
\* workspaceMembershipStore.ts:72-98, registryStore.ts:58-104).
Current(c, id) == Record(c, id, ~(mirrored /\ c \in Tables))

Kept(q) ==
  /\ req[q].pc = "answered" /\ q \notin refused /\ faults = 0
  /\ \A p \in req[q].met : Subject(req[q]) \notin MayWrite(req[p])

Later(q) == {p \in Requests : req[p].pc # "idle" /\ q \in req[p].after}

ChangesLast ==
  \A q \in Requests : Kept(q) =>
    /\ req[q].op = "export" => q \in Current("memo", req[q].target).exports
    /\ req[q].op = "member" /\ req[q].ask.status = "revoked" =>
         \/ Current("members", MemberId(req[q].target, req[q].ask.person)).status = "revoked"
         \/ \E p \in Later(q) :
              /\ req[p].op = "member" /\ req[p].target = req[q].target
              /\ req[p].ask.person = req[q].ask.person /\ req[p].ask.status = "active"
    /\ req[q].op \in RegistryOps /\ req[q].ask = "suspended" =>
         \/ ~Discovered(req[q].target, {})
         \/ \E p \in Later(q) :
              /\ req[p].target = req[q].target
              /\ \/ req[p].op \in {"register", "update"} /\ req[p].ask \notin {Nothing, "suspended"}
                 \/ req[p].op = "transition" /\ req[p].ask = "pending"

Chained(audit) ==
  \A i \in DOMAIN audit :
    LET before == {j \in 1..(i - 1) : audit[j].id = audit[i].id}
    IN  audit[i].from = IF before = {} THEN Nothing
                        ELSE audit[CHOOSE j \in before : \A k \in before : k <= j].to

\* The audit tells the whole story of a member as long as requests do not
\* overlap: every change is in it when the requests are done, and each entry
\* starts from where the one before it for the same member ended
\* (workspaceMembershipStore.ts:158-193).
AuditTells ==
  faults = 0 /\ (\A q \in Requests : req[q].pc # "idle" => req[q].met = {}) =>
    /\ Running = {} => Len(file["audit"]) = Len(file["members"])
    /\ Chained(file["audit"])

\* A past in which that is so, for members whose stamps are in order.
WellKept(past) ==
  LET members == past["members"]
      audit == past["audit"]
  IN  /\ Len(audit) = Len(members)
      /\ \A i \in DOMAIN members :
           /\ audit[i].id = members[i].id /\ audit[i].to = Standing(members[i])
           /\ \A j \in 1..i : members[j].at <= members[i].at
      /\ Chained(audit)

\* Feedback is on file with a rating that makes sense, and the activation log
\* tells of it when its request is done, after it and however requests overlap,
\* unless an append failed in between (server.ts:592-617,
\* activationStore.ts:74-98).
FeedbackIsReported ==
  \A i \in DOMAIN file["feedback"] :
    LET f == file["feedback"][i] IN
    /\ f.rating \in 1..5
    /\ f.id \in Over /\ faults = 0 =>
         \E j \in DOMAIN file["events"] :
           LET e == file["events"][j] IN
           e.id = f.id /\ e.about = f.about /\ e.type = "feedback_submitted" /\ e.at >= f.at

\* The logs tell the whole story of what the stores hold.
LogsExplain == AuditTells /\ FeedbackIsReported
=============================================================================
