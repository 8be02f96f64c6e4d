------------------------------ MODULE MCStores ------------------------------
(* Small instances of FeedStores.                                          *)
EXTENDS FeedStores, TLC

CONSTANTS ann, bob, session, org, agent, other, no

MCPeople == {ann, bob}
MCSessions == {session}
MCOrgs == {org}
MCAgents == {agent}
MCManifests ==
  {[id |-> agent, capabilities |-> {"valuation"}],
   [id |-> agent, capabilities |-> {"valuation", "astrology"}],
   [id |-> other, capabilities |-> {"valuation"}]}
Alike == Permutations(Requests)
MCPatches ==
  {[person |-> bob, role |-> "admin", status |-> Nothing],
   [person |-> bob, role |-> "viewer", status |-> "active"],
   [person |-> bob, role |-> "admin", status |-> "revoked"]}

\* The server starts with no files, or with those of an organization that ann
\* created, with bob as a viewer, the session assigned to it, and an agent on the registry.
Empty == [c \in Collections |-> <<>>]

Grant(person, role, by) ==
  [id |-> MemberId(org, person), at |-> 0, by |-> by, req |-> Nothing, role |-> role,
   status |-> "active"]

Granted(person, by, from, role) ==
  [id |-> MemberId(org, person), at |-> 0, by |-> by, req |-> Nothing,
   from |-> from, to |-> [role |-> role, status |-> "active"]]

Established ==
  [Empty EXCEPT
     !["orgs"] = <<[id |-> org, at |-> 0]>>,
     !["sessions"] = <<[id |-> session, at |-> 0, by |-> ann, req |-> Nothing, org |-> org]>>,
     !["members"] = <<Grant(ann, "owner", "organization-creator"),
                      Grant(bob, "viewer", ann)>>,
     !["audit"] = <<Granted(ann, "organization-creator", Nothing, "owner"),
                    Granted(bob, ann, Nothing, "viewer")>>,
     !["agents"] = <<[id |-> agent, at |-> 0, capabilities |-> {"valuation"},
                       status |-> "active", since |-> 0]>>]

MCRatings == {1, 5, 6, no}
MCSubjects == {session, Nothing}
MCPasts == {Empty, Established}
ASSUME MCPastsAssumption == \A past \in Pasts : WellKept(past)

\* Workspace, registry and activation share no record: their requests are not
\* mixed.  The session's row is of interest to exports in tables only; an edit is
\* an export without its history, and comes beside one.  Only bob types a slug
\* that cleaning changes, and he asks for no more than to be an admin.
Of(ops) == \A q \in Requests : req[q].pc = "idle" \/ req[q].op \in ops
Come == Over \cup Running
Exported == \E q \in Come : req[q].op = "export"
NotMixed ==
  /\ \/ Of({"register", "update", "transition"})
     \/ Of({"activation", "feedback"})
     \/ Of({"edit", "export", "member", "org", "assign"})
  /\ listed # {} => mirrored
  /\ listed # {} /\ Come # {} => Exported
  /\ \A q, p \in Come : req[q].op = "edit" /\ p # q => Exported
  /\ \A q \in Come :
       /\ req[q].op = "org" /\ req[q].who = ann => req[q].ask
       /\ req[q].op = "member" /\ req[q].who = bob => req[q].ask.status = Nothing
=============================================================================
