----------------------------- MODULE Workspace ------------------------------
(***************************************************************************)
(* The handlers of saved memo workspaces, their members, and the           *)
(* organizations whose members may work on every session assigned to them. *)
(* A person's own membership of a session comes first; then that of the    *)
(* session's organization; a scope without active members takes the first  *)
(* signed writer as its owner.                                             *)
(***************************************************************************)
EXTENDS Stores

CONSTANTS People,     \* by the publisherId they sign with, as it is stored: trimmed
          Orgs,       \* by id, which is their slug
          Patches     \* the changes of a member that requests ask for:
                      \* [person, role, status], status possibly Nothing

ASSUME ScopesAssumption == Sessions \cap Orgs = {}

AdminRoles == {"owner", "admin"}
EditableRoles == {"owner", "admin", "editor"}
Roles == EditableRoles \cup {"viewer"}

MemberStatuses == {"active", "revoked"}

ASSUME PatchesAssumption ==
  Patches \subseteq [person : People, role : Roles, status : MemberStatuses \cup {Nothing}]

Patch(person, role) == [person |-> person, role |-> role, status |-> Nothing]

MemberId(scope, person) == [scope |-> scope, person |-> person]

\* Signers names who a record says granted it.  req is a history: the request
\* that wrote the record, Nothing for a record from before.
Signers == People \cup {"first-signed-writer", "organization-creator"}

\* People are addresses of wallets.
ASSUME PeopleAssumption ==
  {"first-signed-writer", "organization-creator", Nothing} \cap People = {}

MemberRecords ==
  [id : [scope : Sessions \cup Orgs, person : People], at : Int, by : Signers,
   req : Requests \cup {Nothing}, role : Roles, status : MemberStatuses]

SessionRecords ==
  [id : Sessions, at : Int, by : People, req : Requests \cup {Nothing}, org : Orgs]

MemoRecords == [id : Sessions, at : Int, by : People, exports : SUBSET Requests]

OrgRecords == [id : Orgs, at : Int]

\* listWorkspaceMemberships
Members(scope, fromFile) ==
  {Record("members", MemberId(scope, p), fromFile) : p \in People} \ {Nothing}

\* A slip: revoked members count.
ActiveMutant(scope, fromFile) == Members(scope, fromFile)

Active(scope, fromFile) ==
  {m \in Members(scope, fromFile) : m.status = "active"}

RoleOf(who, ms) == {m.role : m \in {n \in ms : n.id.person = who}}

NeededRoles(r) ==
  IF r.op \in {"edit", "export"} THEN EditableRoles ELSE AdminRoles

-----------------------------------------------------------------------------
(* The handlers, by the route they serve.                                  *)

MemoRequest(q) ==
  \E op \in {"edit", "export"}, who \in People, s \in Sessions :
    Arrive(q, Fresh(op, who, s, Nothing, "direct"))

MemberRequest(q) ==
  \E who \in People, p \in Patches :
    \/ \E s \in Sessions : Arrive(q, Fresh("member", who, s, p, "direct"))
    \/ \E o \in Orgs : Arrive(q, Fresh("member", who, o, p, "findOrg"))

\* An organization is named by its id or by a slug, which is stored cleaned but
\* looked up as it was typed: one that cleaning changes is not found.
OrgRequest(q) ==
  \E who \in People, o \in Orgs, clean \in BOOLEAN :
    Arrive(q, Fresh("org", who, o, clean, "findOrg"))

AssignRequest(q) ==
  \E who \in People, s \in Sessions, o \in Orgs :
    Arrive(q, Fresh("assign", who, o, s, "findOrg"))

\* What a request does once it is let in.
Admitted(r, t) ==
  CASE r.op \in {"edit", "export"} ->
         Write(r, "memo", r.target, Nothing, r.who, t, "answered")
    [] r.op = "member" ->
         Write(r, "members", MemberId(r.target, r.ask.person), r.ask, r.who, t,
               "answered")
    [] r.op = "org" ->
         Write(r, "orgs", r.target, Nothing, r.who, t, "creator")
    [] r.op = "assign" -> [r EXCEPT !.pc = "assign"]

-----------------------------------------------------------------------------
(* Permission.                                                             *)

\* An active member of the session is judged by that membership alone.
DirectMember(q) ==
  /\ req[q].pc = "direct"
  /\ \E fromFile \in BOOLEAN :
       /\ ReadRecords("members", fromFile)
       /\ Go(q, [req[q] EXCEPT !.pc =
                   IF RoleOf(req[q].who, Active(req[q].scope, fromFile)) # {}
                   THEN "ensure" ELSE "inherit"])
  /\ UNCHANGED clock

\* Others by that of the organization it is assigned to, which grants nobody.
SessionOrganization(q) ==
  /\ req[q].pc = "inherit"
  /\ \E fromFile \in BOOLEAN :
       LET assignment == Record("sessions", req[q].scope, fromFile) IN
       /\ ReadRecords("sessions", fromFile)
       /\ Go(q, IF assignment # Nothing
                THEN [req[q] EXCEPT !.pc = "ensure", !.scope = assignment.org]
                ELSE [req[q] EXCEPT !.pc = "ensure", !.autoGrant = TRUE])
  /\ UNCHANGED clock

GetOrganization(q) ==
  /\ req[q].pc = "findOrg"
  /\ \E fromFile \in BOOLEAN, t \in Now :
       LET found == /\ req[q].op = "org" => req[q].ask
                    /\ Record("orgs", req[q].scope, fromFile) # Nothing
       IN
       /\ ReadRecords("orgs", fromFile)
       /\ clock' = t
       /\ Go(q, IF found
                THEN [req[q] EXCEPT !.pc = "ensure", !.autoGrant = TRUE]
                ELSE IF req[q].op = "org" THEN Admitted(req[q], t)
                ELSE To(req[q], "refused"))

\* An active member needs a role; with no active member at all the writer
\* becomes the owner and is let in.
Ensure(q) ==
  /\ req[q].pc = "ensure"
  /\ \E fromFile \in BOOLEAN, t \in Now :
       LET r == req[q]
           active == Active(r.scope, fromFile)
       IN
       /\ ReadRecords("members", fromFile)
       /\ clock' = t
       /\ Go(q, IF active = {} /\ r.autoGrant
                THEN Write(r, "members", MemberId(r.scope, r.who),
                           Patch(r.who, "owner"), "first-signed-writer", t,
                           "admitted")
                ELSE IF RoleOf(r.who, active) \cap NeededRoles(r) # {}
                THEN Admitted(r, t)
                ELSE To(r, "refused"))

FirstOwnerIn(q) ==
  /\ req[q].pc = "admitted"
  /\ \E t \in Now : clock' = t /\ Go(q, Admitted(req[q], t))
  /\ UNCHANGED faults

\* The creator of an organization, or who updates it, becomes its owner.
GrantCreator(q) ==
  /\ req[q].pc = "creator"
  /\ \E t \in Now :
       /\ clock' = t
       /\ Go(q, Write(req[q], "members", MemberId(req[q].target, req[q].who),
                      Patch(req[q].who, "owner"), "organization-creator", t,
                      "answered"))
  /\ UNCHANGED faults

\* assignSessionToOrganization looks the organization up once more.
AssignSession(q) ==
  /\ req[q].pc = "assign"
  /\ \E fromFile \in BOOLEAN, t \in Now :
       /\ ReadRecords("orgs", fromFile)
       /\ clock' = t
       /\ Go(q, IF Record("orgs", req[q].target, fromFile) = Nothing
                THEN To(req[q], "refused")
                ELSE Write(req[q], "sessions", req[q].ask, req[q].target,
                           req[q].who, t, "answered"))

-----------------------------------------------------------------------------
(* The writes: read the record, make the next one of it and the patch.     *)

NextMember(q, r, current) ==
  [id |-> r.id, at |-> r.at, by |-> r.by, req |-> q, role |-> r.patch.role,
   status |-> IF r.patch.status # Nothing THEN r.patch.status
              ELSE IF current # Nothing THEN current.status
              ELSE "active"]

\* A slip: the history of exports starts anew.
NextMemoMutant(q, r, current) ==
  [id |-> r.id, at |-> r.at, by |-> r.by,
   exports |-> IF r.op = "export" THEN {q} ELSE {}]

NextMemo(q, r, current) ==
  [id |-> r.id, at |-> r.at, by |-> r.by,
   exports |-> (IF current = Nothing THEN {} ELSE current.exports)
                 \cup (IF r.op = "export" THEN {q} ELSE {})]

NextRecord(q, r, current) ==
  CASE r.coll = "members" -> NextMember(q, r, current)
    [] r.coll = "memo" -> NextMemo(q, r, current)
    [] r.coll = "orgs" -> [id |-> r.id, at |-> r.at]
    [] r.coll = "sessions" -> [id |-> r.id, at |-> r.at, by |-> r.by, req |-> q, org |-> r.patch]

ReadWorkspace(q) ==
  /\ req[q].pc = "read"
  /\ \E fromFile \in BOOLEAN :
       LET current == Record(req[q].coll, req[q].id, fromFile) IN
       /\ ReadRecords(req[q].coll, fromFile)
       /\ Go(q, [req[q] EXCEPT !.pc = "append", !.was = current,
                               !.next = NextRecord(q, req[q], current)])
  /\ UNCHANGED clock

\* Every change of a member is put on record with what was there before.
Standing(m) ==
  IF m = Nothing THEN Nothing ELSE [role |-> m.role, status |-> m.status]

AppendAudit(q) ==
  /\ req[q].pc = "audit"
  /\ AppendFile(q, "audit",
                [id |-> req[q].id, at |-> req[q].at, by |-> req[q].by, req |-> q,
                 from |-> Standing(req[q].was), to |-> Standing(req[q].next)],
                IF mirrored THEN "mirror" ELSE req[q].then)
  /\ UNCHANGED <<rows, mirrored, clock, listed, refused>>

WorkspaceRequest(q) ==
  MemoRequest(q) \/ MemberRequest(q) \/ OrgRequest(q) \/ AssignRequest(q)

WorkspaceStep(q) ==
  \/ DirectMember(q) \/ SessionOrganization(q) \/ GetOrganization(q)
  \/ Ensure(q) \/ FirstOwnerIn(q) \/ GrantCreator(q) \/ AssignSession(q)
  \/ ReadWorkspace(q) \/ AppendAudit(q)

=============================================================================
