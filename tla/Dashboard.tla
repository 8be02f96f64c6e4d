----------------------------- MODULE Dashboard ------------------------------
(***************************************************************************)
(* The hooks of the dashboard: useFeed polls the live session that is      *)
(* open; useSessionHistory loads the saved sessions, loads the one that is *)
(* selected, and saves its workspace and members, and its organization.    *)
(* An effect starts when what it depends on changes, after the cleanup of  *)
(* the one before; what that one still waits for arrives later.            *)
(***************************************************************************)
EXTENDS Naturals, Sequences, FiniteSets

CONSTANTS Sessions,    \* the saved sessions, newest first
          MaxPolls,    \* bound on the polls of a session that are under way
          MaxClicks,   \* bound on what the user does
          MaxFlips,    \* bound on the changes of the API's health
          Undefined

VARIABLES open,        \* useFeed: the session, and the rounds that are shown
          polls,       \* by session: the polls under way
          health,      \* useApiHealth: "online" or "offline"
          listing,     \* the list effect that runs, and the loads under way
          selection,   \* selectedSessionId and the detail effect that runs
          details,     \* the detail loads under way
          view,        \* what the workspace shows
          saves,       \* the saves under way
          clicks, flips

feedVars == <<open, polls>>
historyVars == <<health, listing, selection, details, view, saves>>
dashboardVars == <<feedVars, historyVars, clicks, flips>>

Ids == {Sessions[i] : i \in DOMAIN Sessions}

ASSUME DashboardAssumption == 1 \in DOMAIN Sessions /\ Undefined \notin Ids

\* What is shown beside the session and its assignment: its workspace, members
\* and audit, and its organization's dashboard, each by the sessions it is of.
Parts == {"workspace", "members", "audit", "organization"}

Blank == [selected |-> Undefined, assignment |-> Undefined, loading |-> FALSE,
          shows |-> [part \in Parts |-> {}], late |-> {}]

\* late is a history variable: the parts into which, since the detail came, a
\* save was answered that is not the selected session's.
DashboardInit ==
  /\ open = [session |-> Undefined, stop |-> FALSE, rounds |-> Undefined, connected |-> FALSE]
  /\ polls = [s \in Ids |-> 0]
  /\ health = "offline"
  /\ listing = [effect |-> 0, loads |-> {}]
  /\ selection = [id |-> Undefined, effect |-> 0]
  /\ details = {}
  /\ view = Blank
  /\ saves = {}
  /\ clicks = 0
  /\ flips = 0

-----------------------------------------------------------------------------
(* useFeed.                                                                *)

\* A slip: the flag is not reset when an effect starts.
ResetStopMutant == open.session # Undefined

\* stop outlives the effects: the cleanup of the old one sets it and the new
\* one resets it.
ResetStop == FALSE

OpenSession(s) ==
  /\ s # open.session
  /\ polls[s] < MaxPolls
  /\ open' = [open EXCEPT !.session = s, !.stop = ResetStop]
  /\ polls' = [polls EXCEPT ![s] = @ + 1]
  /\ UNCHANGED <<historyVars, flips>>

\* The interval does not wait for the poll before.
Tick ==
  /\ open.session # Undefined
  /\ polls[open.session] < MaxPolls
  /\ polls' = [polls EXCEPT ![open.session] = @ + 1]
  /\ UNCHANGED <<open, historyVars, clicks, flips>>

\* An answer with an error status brings rounds, too; a fetch that throws
\* leaves those that are shown.
Polled(s) ==
  /\ polls[s] > 0
  /\ polls' = [polls EXCEPT ![s] = @ - 1]
  /\ \/ open.stop /\ UNCHANGED open
     \/ /\ ~open.stop
        /\ \/ \E ok \in BOOLEAN : open' = [open EXCEPT !.rounds = s, !.connected = ok]
           \/ open' = [open EXCEPT !.connected = FALSE]
  /\ UNCHANGED <<historyVars, clicks, flips>>

-----------------------------------------------------------------------------
(* useSessionHistory.                                                      *)

Shown(online, id) == online /\ id # Undefined

Cleared == Blank

\* The effect of the selected session and of the health: what belongs to the
\* session before is left in place until its own has come.
StartDetail(online, id) ==
  /\ selection' = [id |-> id, effect |-> selection.effect + 1]
  /\ IF Shown(online, id)
     THEN /\ details' = details \cup {[effect |-> selection.effect + 1, of |-> id]}
          /\ view' = [view EXCEPT !.loading = TRUE]
     ELSE view' = Cleared /\ UNCHANGED details

StartListing(online) ==
  listing' = [effect |-> listing.effect + 1,
              loads |-> listing.loads \cup IF online THEN {listing.effect + 1} ELSE {}]

\* Both effects depend on the health.
HealthChanges ==
  /\ flips < MaxFlips
  /\ flips' = flips + 1
  /\ health' = IF health = "online" THEN "offline" ELSE "online"
  /\ StartListing(health' = "online")
  /\ StartDetail(health' = "online", selection.id)
  /\ UNCHANGED <<feedVars, saves, clicks>>

\* The interval loads the list again.
ReloadList ==
  /\ health = "online"
  /\ listing' = [listing EXCEPT !.loads = @ \cup {listing.effect}]
  /\ UNCHANGED <<feedVars, health, selection, details, view, saves, clicks, flips>>

\* The first list selects the newest session.
ListLoaded(n) ==
  /\ n \in listing.loads
  /\ listing' = [listing EXCEPT !.loads = @ \ {n}]
  /\ \/ /\ n = listing.effect /\ selection.id = Undefined
        /\ StartDetail(health = "online", Sessions[1])
     \/ UNCHANGED <<selection, details, view>>
  /\ UNCHANGED <<feedVars, health, saves, clicks, flips>>

SelectSession(s) ==
  /\ s # selection.id
  /\ StartDetail(health = "online", s)
  /\ UNCHANGED <<feedVars, health, listing, saves, flips>>

\* A slip: the cleanup does not stop the load.
IsStoppedMutant(d) == FALSE

IsStopped(d) == d.effect # selection.effect

DetailLoaded(d) ==
  /\ details' = details \ {d}
  /\ \/ IsStopped(d) /\ UNCHANGED view
     \/ /\ ~IsStopped(d)
        /\ view' = [selected |-> d.of, assignment |-> d.of, loading |-> FALSE,
                    shows |-> [part \in Parts |-> {d.of}], late |-> {}]
     \/ /\ ~IsStopped(d)
        /\ view' = [view EXCEPT !.selected = Undefined, !.assignment = Undefined,
                                !.loading = FALSE,
                                !.shows["workspace"] = {}, !.shows["organization"] = {}]
  /\ UNCHANGED <<feedVars, health, listing, selection, saves, clicks, flips>>

\* updateWorkspace, recordExport, upsertMember; the buttons are disabled while
\* a save of their kind is under way.
Save(kind) ==
  /\ Shown(health = "online", selection.id)
  /\ \A e \in saves : e.kind # kind
  /\ saves' = saves \cup {[kind |-> kind, of |-> selection.id]}
  /\ UNCHANGED <<feedVars, health, listing, selection, details, view, flips>>

\* The answer to a save is written into whatever is shown.
Written(part, of, e) ==
  [view EXCEPT !.shows[part] = of,
               !.late = IF e.of = selection.id THEN @ ELSE @ \cup {part}]

\* A workspace goes with the detail that is shown, if any; a member is put among
\* those shown, and then the audit is read again.  Any answer may be an error.
Saved(e) ==
  \/ /\ e.kind = "workspace"
     /\ saves' = saves \ {e}
     /\ \/ /\ view' = IF view.selected = Undefined THEN view
                      ELSE Written("workspace", {e.of}, e)
           /\ StartListing(health = "online")
        \/ UNCHANGED <<view, listing>>
     /\ UNCHANGED <<feedVars, health, selection, details, clicks, flips>>
  \/ /\ e.kind = "member"
     /\ \/ /\ view' = Written("members", view.shows["members"] \cup {e.of}, e)
           /\ saves' = (saves \ {e}) \cup {[e EXCEPT !.kind = "audit"]}
        \/ saves' = saves \ {e} /\ UNCHANGED view
     /\ UNCHANGED <<feedVars, health, listing, selection, details, clicks, flips>>
  \/ /\ e.kind = "audit"
     /\ saves' = saves \ {e}
     /\ view' \in {view, Written("audit", {e.of}, e)}
     /\ UNCHANGED <<feedVars, health, listing, selection, details, clicks, flips>>

-----------------------------------------------------------------------------
(* The organization of a session: assignOrganization and                   *)
(* saveOrganizationMember.                                                 *)

\* A member is saved in the organization of the session that is shown.
SaveOrganization(kind) ==
  LET of == IF kind = "assign" THEN selection.id ELSE view.selected IN
  /\ health = "online" /\ of # Undefined
  /\ \A e \in saves : e.kind \notin {kind, "dashboard"}
  /\ saves' = saves \cup {[kind |-> kind, of |-> of]}
  /\ UNCHANGED <<feedVars, health, listing, selection, details, view, flips>>

\* A slip: the assignment is put into whatever session is shown.
ReassignMutant(v, id) == [v EXCEPT !.assignment = id]

\* An assignment is put into the detail of its own session only.
Reassign(v, id) == IF v.selected = id THEN [v EXCEPT !.assignment = id] ELSE v

\* Then the organization's dashboard is read again, and put wherever that leads;
\* an assignment makes the list load again, too.
OrganizationSaved(e) ==
  \/ /\ e.kind \in {"assign", "orgMember"}
     /\ \/ /\ view' = IF e.kind = "assign" THEN Reassign(view, e.of) ELSE view
           /\ saves' = (saves \ {e}) \cup
                         {[kind |-> "dashboard", of |-> e.of, after |-> e.kind]}
        \/ saves' = saves \ {e} /\ UNCHANGED view
     /\ UNCHANGED <<feedVars, health, listing, selection, details, clicks, flips>>
  \/ /\ e.kind = "dashboard"
     /\ saves' = saves \ {e}
     /\ view' \in {view, Written("organization", {e.of}, e)}
     /\ IF e.after = "assign" THEN StartListing(health = "online") ELSE UNCHANGED listing
     /\ UNCHANGED <<feedVars, health, selection, details, clicks, flips>>

-----------------------------------------------------------------------------
Click ==
  /\ clicks < MaxClicks
  /\ clicks' = clicks + 1
  /\ \/ \E s \in Ids : OpenSession(s) \/ SelectSession(s)
     \/ \E kind \in {"workspace", "member"} : Save(kind)
     \/ \E kind \in {"assign", "orgMember"} : SaveOrganization(kind)

Arrives ==
  \/ \E n \in listing.loads : ListLoaded(n)
  \/ \E d \in details : DetailLoaded(d)
  \/ \E e \in saves : Saved(e) \/ OrganizationSaved(e)

DashboardNext ==
  \/ Click \/ HealthChanges \/ Tick \/ ReloadList \/ Arrives
  \/ \E s \in Ids : Polled(s)

\* Timers fire, and every fetch comes back or throws; a poll of one session
\* is answered whatever the others do.
DashboardFairness ==
  /\ \A s \in Ids : WF_dashboardVars(Polled(s))
  /\ WF_dashboardVars(Tick)
  /\ WF_dashboardVars(\E d \in details : DetailLoaded(d))

DashboardSpec == DashboardInit /\ [][DashboardNext]_dashboardVars /\ DashboardFairness

-----------------------------------------------------------------------------
(* Properties.                                                             *)

\* When nothing loads, the detail that is shown is that of the session that is
\* selected, however loads of sessions selected before come late, and no detail
\* shows another session's organization as its own.  The workspace, the members,
\* the audit and the organization's dashboard beside it are the session's, too:
\* all but those into which the answer to a save of another session has come
\* since, for nothing keeps that answer out (web/src/api.ts:464-533, 553,
\* 577-586, 627-665, 730-755).
DetailIsOfSelection ==
  /\ ~view.loading /\ view.selected # Undefined =>
       /\ view.selected = selection.id
       /\ \A part \in Parts \ view.late : view.shows[part] = {selection.id}
  /\ view.assignment = view.selected

\* The dashboard catches up with the API.  The spinner of the detail ends,
\* although a load that was stopped does not end it.  And if a session stays
\* open, its rounds are what is shown in the end, although answers to polls of
\* another session may come after it was opened; unless every poll throws from
\* then on (web/src/api.ts:465-528, 937-990).
DashboardCatchesUp ==
  /\ view.loading ~> ~view.loading
  /\ \A s \in Ids :
       <>[](open.session = s) => <>[](open.rounds = s) \/ []<>(~open.connected)

=============================================================================
