SPECIFICATION StoresSpec
CONSTANTS
    ann = ann
    bob = bob
    session = session
    org = org
    agent = agent
    other = other
    no = no
    EventTypes = {"research_started", "feedback_submitted", "unheard_of"}
    Ratings <- MCRatings
    Subjects <- MCSubjects
    NotANumber = no
    Nothing = Nothing
    People <- MCPeople
    Sessions <- MCSessions
    Orgs <- MCOrgs
    Agents <- MCAgents
    Manifests <- MCManifests
    KNOWN_CAPABILITIES = {"valuation", "macro"}
    Patches <- MCPatches
    Requests = {q1, q2}
    InFlight = 2
    MaxTime = 1
    MaxFaults = 1
    Pasts <- MCPasts
INVARIANTS
    WritesAllowed
    ChangesLast
    LogsExplain
CONSTRAINT NotMixed
SYMMETRY Alike
CHECK_DEADLOCK FALSE
