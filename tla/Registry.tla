------------------------------ MODULE Registry ------------------------------
(***************************************************************************)
(* The handlers of the agent registry: a manifest is registered or         *)
(* updated, with a status or with the one on record, and an operator moves *)
(* the status along the allowed transitions.  The registry is not mirrored.*)
(***************************************************************************)
EXTENDS Stores

CONSTANTS Agents,
          Manifests,  \* of those that are sent: an agent's id and capabilities
          KNOWN_CAPABILITIES

RegistryStatuses == {"pending", "active", "verified", "suspended"}

IsAllowedTransition(from, to) ==
  \/ from = to
  \/ from = "pending" /\ to \in {"active", "suspended"}
  \/ from = "active" /\ to \in {"verified", "suspended"}
  \/ from = "verified" /\ to = "suspended"
  \/ from = "suspended" /\ to = "pending"

\* What else is required of a manifest is there or is not, like its capabilities.
validateManifest(m) ==
  m.capabilities # {} /\ m.capabilities \subseteq KNOWN_CAPABILITIES

AgentRecords ==
  [id : Agents \cup {m.id : m \in Manifests}, at : Int,
   capabilities : SUBSET KNOWN_CAPABILITIES, status : RegistryStatuses, since : Int]

\* The publisher is checked by signature and not recorded.
ManifestRequest(q, op, a, m) ==
  \E s \in RegistryStatuses \cup {Nothing} :
    Arrive(q, [Fresh(op, Nothing, a, s, "readAgent") EXCEPT !.patch = m])

RegisterRequest(q) == \E m \in Manifests : ManifestRequest(q, "register", m.id, m)

UpdateRequest(q) ==
  \E a \in Agents, m \in Manifests : ManifestRequest(q, "update", a, m)

\* An agent is updated with its own manifest.
Updatable(r) == validateManifest(r.patch) /\ r.patch.id = r.target

TransitionRequest(q) ==
  \E a \in Agents, s \in RegistryStatuses :
    Arrive(q, Fresh("transition", Nothing, a, s, "readAgent"))

\* registerAgentManifest keeps the first registration's date.
Registered(r, existing, t) ==
  [id |-> r.target, at |-> t, capabilities |-> r.patch.capabilities,
   status |-> IF r.ask # Nothing THEN r.ask
              ELSE IF existing # Nothing THEN existing.status
              ELSE "pending",
   since |-> IF existing # Nothing THEN existing.since ELSE t]

\* Unlike the stores of the workspace, the registry stamps after its read.
ReadAgent(q) ==
  /\ req[q].pc = "readAgent"
  /\ \E t \in Now :
       LET r == req[q]
           existing == LatestBy("agents", r.target)
           Appending(next) == [r EXCEPT !.pc = "append", !.coll = "agents",
                              !.id = r.target, !.was = existing, !.next = next]
       IN
       /\ clock' = t
       /\ Go(q, IF r.op \in {"register", "update"}
                THEN IF Updatable(r) THEN Appending(Registered(r, existing, t))
                     ELSE To(r, "refused")
                ELSE IF existing # Nothing
                        /\ IsAllowedTransition(existing.status, r.ask)
                THEN Appending([existing EXCEPT !.status = r.ask, !.at = t])
                ELSE To(r, "refused"))
  /\ UNCHANGED faults

RegistryRequest(q) == RegisterRequest(q) \/ UpdateRequest(q) \/ TransitionRequest(q)

\* Whether discovery offers agent a to who asks for capabilities.
Discovered(a, capabilities) ==
  LET r == LatestBy("agents", a) IN
  /\ r # Nothing /\ r.status \in {"active", "verified"}
  /\ capabilities \subseteq r.capabilities

=============================================================================
